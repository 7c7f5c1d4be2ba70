--------------------------- MODULE ListenersProofs ---------------------------
(***************************************************************************)
(* Proofs about the two listener threads, for any number of events, logs,  *)
(* faults and reconnections, and any way of cutting the stream into reads: *)
(* logs are handled in order, as the feed of LogFeed, updates and logs are *)
(* not lost but where the properties say so, none of them is forgotten in  *)
(* a buffer or a set nobody looks at, and the thread dies for the named    *)
(* reasons only.                                                           *)
(***************************************************************************)
EXTENDS MCListeners, SequenceTheorems, WellFoundedInduction, FiniteSetTheorems, TLAPS

-----------------------------------------------------------------------------
(* Lines                                                                   *)

LEMMA HalfType ==
    ASSUME NEW h \in Half
    PROVE  h[1] \in Failure..MaxLogs /\ h[2] \in 1..3 /\ h = <<h[1], h[2]>>
  BY DEF Half

LEMMA WholeType ==
    ASSUME NEW m \in Failure..MaxLogs
    PROVE  /\ Whole(m) \in Seq(Half) /\ Len(Whole(m)) = 2
           /\ Whole(m)[1] = <<m, 1>> /\ Whole(m)[2] = <<m, 2>>
  BY DEF Whole, Half

LEMMA HalvesAssociative == \A s, t, u \in Seq(Half) : (s \o t) \o u = s \o (t \o u)
  BY ConcatAssociative

\* The first line ends with the first newline.
LEMMA FirstLine ==
    ASSUME NEW s \in Seq(Half), HasLine(s)
    PROVE  /\ LineEnd(s) \in 1..Len(s)
           /\ s[LineEnd(s)][2] = 2
           /\ \A j \in 1..(LineEnd(s) - 1) : s[j][2] # 2
<1> DEFINE Ends == {i \in DOMAIN s : s[i][2] = 2}
           P(i) == i \in DOMAIN s /\ s[i][2] = 2 /\ \A j \in 1..(i - 1) : s[j][2] # 2
<1>1. DOMAIN s = 1..Len(s) /\ Len(s) \in Nat
  OBVIOUS
<1>2. Ends \in SUBSET Nat /\ Ends # {}
  BY <1>1 DEF HasLine
<1>3. PICK i \in Ends : \A j \in Ends : i <= j
  <2> DEFINE Less == OpToRel(<, Nat)
  <2>1. IsWellFoundedOn(Less, Nat)
    BY NatLessThanWellFounded
  <2>2. \A i, j \in Nat : j < i => <<j, i>> \in Less
    BY DEF OpToRel
  <2> HIDE DEF Less, Ends
  <2>3. PICK i \in Ends : \A j \in Ends : ~ (<<j, i>> \in Less)
    BY <1>2, <2>1, WFMin
  <2>4. ASSUME NEW j \in Ends PROVE i <= j
    <3>1. i \in Nat /\ j \in Nat
      BY <1>2
    <3>2. ~ (j < i)
      BY <2>2, <2>3, <3>1
    <3> QED
      BY <3>1, <3>2
  <2> QED
    BY <2>4
<1>4. P(i)
  <2>1. ASSUME NEW j \in 1..(i - 1), s[j][2] = 2 PROVE FALSE
    <3>1. j \in Ends /\ ~ (i <= j)
      BY <1>1, <2>1
    <3> QED
      BY <1>3, <3>1
  <2> QED
    BY <2>1
<1>5. P(LineEnd(s))
  <2> HIDE DEF P
  <2>1. \E k : P(k)
    BY <1>4
  <2>2. LineEnd(s) = CHOOSE k : P(k)
    BY DEF LineEnd, P
  <2> QED
    BY <2>1, <2>2
<1> QED
  BY <1>1, <1>5

\* It is found at the place where a newline follows none.
LEMMA LineEndIs ==
    ASSUME NEW s \in Seq(Half), NEW e \in 1..Len(s), s[e][2] = 2, \A j \in 1..(e - 1) : s[j][2] # 2
    PROVE  HasLine(s) /\ LineEnd(s) = e
<1>1. HasLine(s)
  BY DEF HasLine
<1>2. /\ LineEnd(s) \in 1..Len(s)
      /\ s[LineEnd(s)][2] = 2
      /\ \A j \in 1..(LineEnd(s) - 1) : s[j][2] # 2
  BY <1>1, FirstLine
<1>3. ~ (e < LineEnd(s)) /\ ~ (LineEnd(s) < e)
  BY <1>2
<1> QED
  BY <1>1, <1>2, <1>3

LEMMA LineParts ==
    ASSUME NEW s \in Seq(Half), HasLine(s)
    PROVE  /\ Line(s) \in Seq(Half) /\ Len(Line(s)) = LineEnd(s)
           /\ \A i \in 1..LineEnd(s) : Line(s)[i] = s[i]
           /\ After(s) \in Seq(Half) /\ Len(After(s)) = Len(s) - LineEnd(s)
           /\ \A i \in 1..(Len(s) - LineEnd(s)) : After(s)[i] = s[LineEnd(s) + i]
           /\ Line(s) \o After(s) = s
<1>1. LineEnd(s) \in 1..Len(s) /\ Len(s) \in Nat
  BY FirstLine
<1>2. \A i \in 1..Len(s) : s[i] \in Half
  BY ElementOfSeq
<1>3. /\ Line(s) \in Seq(Half) /\ Len(Line(s)) = LineEnd(s)
      /\ \A i \in 1..LineEnd(s) : Line(s)[i] = s[i]
  <2> DEFINE e == LineEnd(s)
  <2>1. e \in Int /\ 1 <= e /\ \A i \in 1..e : s[i] \in Half
    BY <1>1, <1>2
  <2> HIDE DEF e
  <2>2. /\ SubSeq(s, 1, e) \in Seq(Half)
        /\ Len(SubSeq(s, 1, e)) = e
        /\ \A i \in 1..e : SubSeq(s, 1, e)[i] = s[i]
    BY <2>1, SubSeqProperties, Z3
  <2> QED
    BY <2>2 DEF Line, e
<1>4. /\ After(s) \in Seq(Half) /\ Len(After(s)) = Len(s) - LineEnd(s)
      /\ \A i \in 1..(Len(s) - LineEnd(s)) : After(s)[i] = s[LineEnd(s) + i]
  <2> DEFINE e == LineEnd(s)
             n == Len(s)
  <2>1. e \in 1..n /\ n \in Nat /\ \A i \in (e+1)..n : s[i] \in Half
    BY <1>1, <1>2
  <2> HIDE DEF e, n
  <2>2. e + 1 \in Int /\ n \in Int
    BY <2>1
  <2>3. /\ SubSeq(s, e + 1, n) \in Seq(Half)
        /\ Len(SubSeq(s, e + 1, n)) = IF e + 1 <= n THEN n - (e + 1) + 1 ELSE 0
        /\ \A i \in 1..(n - (e + 1) + 1) : SubSeq(s, e + 1, n)[i] = s[(e + 1) + i - 1]
    BY <2>1, <2>2, SubSeqProperties
  <2>4. \A i \in 1..(n - e) : i \in 1..(n - (e + 1) + 1) /\ (e + 1) + i - 1 = e + i
    BY <2>1
  <2>5. (IF e + 1 <= n THEN n - (e + 1) + 1 ELSE 0) = n - e
    BY <2>1
  <2>6. \A i \in 1..(n - e) : SubSeq(s, e + 1, n)[i] = s[e + i]
    BY <2>3, <2>4
  <2> QED
    BY <2>3, <2>5, <2>6 DEF After, e, n
<1>5. Line(s) \o After(s) = s
  <2>1. 1 \in 1..(Len(s) + 1) /\ LineEnd(s) \in 0..Len(s) /\ Len(s) \in LineEnd(s)..Len(s)
    BY <1>1
  <2>2. SubSeq(s, 1, LineEnd(s)) \o SubSeq(s, LineEnd(s) + 1, Len(s)) = SubSeq(s, 1, Len(s))
    <3> DEFINE e == LineEnd(s)
               n == Len(s)
    <3>1. 1 \in 1..(n + 1) /\ e \in (1 - 1)..n /\ n \in e..n
      BY <2>1
    <3> HIDE DEF e, n
    <3>2. SubSeq(s, 1, e) \o SubSeq(s, e + 1, n) = SubSeq(s, 1, n)
      BY <3>1, ConcatAdjacentSubSeq, Zenon DEF n
    <3> QED
      BY <3>2 DEF e, n
  <2> QED
    BY <2>2, SubSeqFull DEF Line, After
<1> QED
  BY <1>3, <1>4, <1>5

\* What is read moves from the wire to the end of a buffer.
LEMMA ReadMoves ==
    ASSUME NEW b \in Seq(Half), NEW w \in Seq(Half), NEW n \in 1..Len(w)
    PROVE  /\ b \o SubSeq(w, 1, n) \in Seq(Half)
           /\ SubSeq(w, n + 1, Len(w)) \in Seq(Half)
           /\ (b \o SubSeq(w, 1, n)) \o SubSeq(w, n + 1, Len(w)) = b \o w
<1>1. SubSeq(w, 1, n) \in Seq(Half) /\ SubSeq(w, n + 1, Len(w)) \in Seq(Half)
  OBVIOUS
<1>2. SubSeq(w, 1, n) \o SubSeq(w, n + 1, Len(w)) = w
  <2>1. 1 \in 1..(Len(w) + 1) /\ n \in 0..Len(w) /\ Len(w) \in n..Len(w)
    OBVIOUS
  <2> QED
    BY <2>1, ConcatAdjacentSubSeq, SubSeqFull
<1>3. \A p, q \in Seq(Half) : b \o p \in Seq(Half)
  BY ConcatProperties
<1>4. \A p, q \in Seq(Half) : (b \o p) \o q = b \o (p \o q)
  BY HalvesAssociative, Zenon
<1>5. (b \o SubSeq(w, 1, n)) \o SubSeq(w, n + 1, Len(w)) = b \o (SubSeq(w, 1, n) \o SubSeq(w, n + 1, Len(w)))
  BY <1>1, <1>4, Zenon
<1> QED
  BY <1>1, <1>2, <1>3, <1>5, Zenon

\* A line in a buffer is the first line of all that is still to be read.
LEMMA LineOfConcat ==
    ASSUME NEW b \in Seq(Half), NEW w \in Seq(Half), HasLine(b)
    PROVE  /\ b \o w \in Seq(Half) /\ HasLine(b \o w)
           /\ Line(b \o w) = Line(b)
           /\ After(b \o w) = After(b) \o w
<1> DEFINE s == b \o w
           e == LineEnd(b)
<1>1. /\ s \in Seq(Half) /\ Len(s) = Len(b) + Len(w) /\ Len(b) \in Nat /\ Len(w) \in Nat
      /\ \A i \in 1..(Len(b) + Len(w)) : s[i] = IF i <= Len(b) THEN b[i] ELSE w[i - Len(b)]
  BY ConcatProperties
<1>2. e \in 1..Len(b) /\ b[e][2] = 2 /\ \A j \in 1..(e - 1) : b[j][2] # 2
  BY FirstLine
<1>3. HasLine(s) /\ LineEnd(s) = e
  <2> HIDE DEF s, e
  <2>0. \A j \in 1..e : s[j] = b[j]
    BY <1>1, <1>2
  <2>1. e \in 1..Len(s) /\ s[e][2] = 2 /\ \A j \in 1..(e - 1) : s[j][2] # 2
    <3>1. e \in 1..Len(s) /\ e \in 1..e /\ \A j \in 1..(e - 1) : j \in 1..e
      BY <1>1, <1>2
    <3> QED
      BY <1>2, <2>0, <3>1
  <2> QED
    BY <1>1, <2>1, LineEndIs
<1>4. Line(s) = Line(b)
  <2>1. e \in 1..Len(b) /\ 1 \in 1..Len(b)
    BY <1>2
  <2>2. SubSeq(b \o w, 1, e) = SubSeq(b, 1, e)
    BY <2>1, SubSeqOfConcat1
  <2> QED
    BY <1>3, <2>2 DEF Line
<1>5. Line(b) \in Seq(Half) /\ After(b) \in Seq(Half) /\ After(s) \in Seq(Half)
      /\ Line(b) \o After(b) = b /\ Line(s) \o After(s) = s
  BY <1>1, <1>3, LineParts
<1>6. Line(b) \o After(s) = Line(b) \o (After(b) \o w)
  <2>1. (Line(b) \o After(b)) \o w = Line(b) \o (After(b) \o w)
    BY <1>5, HalvesAssociative, Zenon
  <2> QED
    BY <1>4, <1>5, <2>1
<1>7. After(b) \o w \in Seq(Half)
  BY <1>5
<1>8. After(s) = After(b) \o w
  BY <1>5, <1>6, <1>7, ConcatSimplifications
<1> QED
  BY <1>1, <1>3, <1>4, <1>8

\* A line that parses is the two halves of one message.
LEMMA ParsedLine ==
    ASSUME NEW s \in Seq(Half), HasLine(s)
    PROVE  /\ Parsed(Line(s)) \in (Failure..MaxLogs) \union {Garbled}
           /\ Parsed(Line(s)) # Garbled => Line(s) = Whole(Parsed(Line(s)))
<1>1. /\ Line(s) \in Seq(Half) /\ Len(Line(s)) = LineEnd(s)
      /\ \A i \in 1..LineEnd(s) : Line(s)[i] = s[i]
  BY LineParts
<1>2. LineEnd(s) \in 1..Len(s) /\ s[LineEnd(s)][2] = 2
  BY FirstLine
<1>3. CASE Len(Line(s)) = 2 /\ Line(s)[1][1] = Line(s)[2][1] /\ Line(s)[1][2] = 1
  <2>1. Line(s)[1] \in Half /\ Line(s)[2] \in Half /\ Line(s)[2][2] = 2
    BY <1>1, <1>2, <1>3
  <2> DEFINE m == Line(s)[1][1]
  <2>2. m \in Failure..MaxLogs /\ Line(s)[1] = <<m, 1>> /\ Line(s)[2] = <<m, 2>>
    BY <1>3, <2>1, HalfType
  <2>3. Line(s) = Whole(m)
    <3>1. /\ Whole(m) \in Seq(Half) /\ Len(Whole(m)) = 2
          /\ Whole(m)[1] = <<m, 1>> /\ Whole(m)[2] = <<m, 2>>
      BY <2>2, WholeType
    <3>2. \A i \in 1..Len(Line(s)) : Line(s)[i] = Whole(m)[i]
      <4>1. \A i \in 1..2 : i = 1 \/ i = 2
        OBVIOUS
      <4> QED
        BY <1>3, <2>2, <3>1, <4>1
    <3> HIDE DEF m
    <3> QED
      BY <1>1, <1>3, <3>1, <3>2, SeqEqual
  <2>4. Parsed(Line(s)) = m
    BY <1>3 DEF Parsed
  <2> QED
    BY <2>2, <2>3, <2>4
<1>4. CASE ~ (Len(Line(s)) = 2 /\ Line(s)[1][1] = Line(s)[2][1] /\ Line(s)[1][2] = 1)
  BY <1>4 DEF Parsed
<1> QED
  BY <1>3, <1>4

-----------------------------------------------------------------------------
(* Streams of whole messages                                               *)

Follows(a, b) == IF a[2] = 1 THEN b[2] = 2 /\ b[1] = a[1] ELSE b[2] = 1

\* Nothing is missing within, but the last message may lack its second half.
Framed(s) ==
    /\ s # <<>> => s[1][2] = 1
    /\ \A i \in 1..Len(s) : s[i][2] \in {1, 2}
    /\ \A i \in 1..(Len(s) - 1) : Follows(s[i], s[i + 1])

WholeLines(s) == Framed(s) /\ (s # <<>> => s[Len(s)][2] = 2)

LEMMA EmptyWhole == WholeLines(<<>>)
  BY DEF WholeLines, Framed

LEMMA OneWhole ==
    ASSUME NEW m \in Failure..MaxLogs
    PROVE  WholeLines(Whole(m))
<1>1. /\ Whole(m) \in Seq(Half) /\ Len(Whole(m)) = 2
      /\ Whole(m)[1] = <<m, 1>> /\ Whole(m)[2] = <<m, 2>>
  BY WholeType
<1>2. \A i \in 1..Len(Whole(m)) : Whole(m)[i][2] \in {1, 2}
  BY <1>1
<1>3. \A i \in 1..(Len(Whole(m)) - 1) : i = 1
  BY <1>1
<1> QED
  BY <1>1, <1>2, <1>3 DEF WholeLines, Framed, Follows

LEMMA WholeThenFramed ==
    ASSUME NEW s \in Seq(Half), NEW t \in Seq(Half), WholeLines(s), Framed(t)
    PROVE  Framed(s \o t) /\ (WholeLines(t) => WholeLines(s \o t))
<1>1. /\ s \o t \in Seq(Half) /\ Len(s \o t) = Len(s) + Len(t) /\ Len(s) \in Nat /\ Len(t) \in Nat
      /\ \A i \in 1..(Len(s) + Len(t)) : (s \o t)[i] = IF i <= Len(s) THEN s[i] ELSE t[i - Len(s)]
  BY ConcatProperties
<1>2. (s = <<>> <=> Len(s) = 0) /\ (t = <<>> <=> Len(t) = 0) /\ (s \o t = <<>> <=> Len(s \o t) = 0)
  BY <1>1, EmptySeq
<1> DEFINE u == s \o t
           n == Len(s)
           k == Len(t)
<1>3. /\ n \in Nat /\ k \in Nat /\ Len(u) = n + k
      /\ \A i \in 1..n : u[i] = s[i] /\ i \in 1..(n + k)
      /\ \A i \in 1..k : u[n + i] = t[i]
      /\ \A i \in 1..(n + k) : i \in 1..n \/ (i - n \in 1..k /\ i = n + (i - n))
  BY <1>1
<1>4. /\ n # 0 => s[1][2] = 1 /\ s[n][2] = 2
      /\ \A i \in 1..n : s[i][2] \in {1, 2}
      /\ \A i \in 1..(n - 1) : Follows(s[i], s[i + 1])
      /\ k # 0 => t[1][2] = 1
      /\ \A i \in 1..k : t[i][2] \in {1, 2}
      /\ \A i \in 1..(k - 1) : Follows(t[i], t[i + 1])
  BY <1>2 DEF WholeLines, Framed
<1>5. Len(u) # 0 => u[1][2] = 1
  <2>1. CASE n # 0
    BY <1>3, <1>4, <2>1
  <2>2. CASE n = 0 /\ k # 0
    <3>1. u[n + 1] = t[1]
      BY <1>3, <2>2
    <3> QED
      BY <1>4, <2>2, <3>1
  <2> QED
    BY <1>3, <2>1, <2>2
<1>6. \A i \in 1..Len(u) : u[i][2] \in {1, 2}
  BY <1>3, <1>4
<1>7. ASSUME NEW i \in 1..(Len(u) - 1) PROVE Follows(u[i], u[i + 1])
  <2>1. CASE i < n
    <3>1. i \in 1..(n - 1) /\ u[i] = s[i] /\ u[i + 1] = s[i + 1]
      BY <1>3, <2>1
    <3> QED
      BY <1>4, <3>1
  <2>2. CASE i = n
    <3>1. u[i] = s[n] /\ u[i + 1] = t[1] /\ n # 0 /\ k # 0
      BY <1>3, <2>2
    <3> QED
      BY <1>4, <3>1 DEF Follows
  <2>3. CASE i > n
    <3>1. i - n \in 1..(k - 1) /\ u[i] = t[i - n] /\ u[i + 1] = t[(i - n) + 1]
      BY <1>3, <2>3
    <3> QED
      BY <1>4, <3>1
  <2> QED
    BY <1>3, <2>1, <2>2, <2>3
<1>8. Framed(u)
  BY <1>1, <1>2, <1>5, <1>6, <1>7 DEF Framed
<1>9. ASSUME WholeLines(t), Len(u) # 0 PROVE u[Len(u)][2] = 2
  <2>1. CASE k # 0
    <3>1. u[n + k] = t[k] /\ t[k][2] = 2
      BY <1>2, <1>3, <1>9, <2>1 DEF WholeLines
    <3> QED
      BY <1>3, <3>1
  <2>2. CASE k = 0
    BY <1>3, <1>4, <1>9, <2>2
  <2> QED
    BY <2>1, <2>2
<1> QED
  BY <1>1, <1>2, <1>8, <1>9 DEF WholeLines

\* The first line of whole messages is a message, and whole messages remain.
LEMMA FramedLine ==
    ASSUME NEW s \in Seq(Half), Framed(s), HasLine(s)
    PROVE  /\ LineEnd(s) = 2
           /\ Parsed(Line(s)) = s[1][1] /\ Parsed(Line(s)) \in Failure..MaxLogs
           /\ Framed(After(s))
           /\ WholeLines(s) => WholeLines(After(s))
<1> DEFINE e == LineEnd(s)
           t == After(s)
<1>1. e \in 1..Len(s) /\ s[e][2] = 2 /\ \A j \in 1..(e - 1) : s[j][2] # 2
  BY FirstLine
<1>2. s # <<>> /\ Len(s) \in Nat
  BY <1>1
<1>3. e = 2
  <2>1. e # 1
    BY <1>1, <1>2 DEF Framed
  <2>2. 1 \in 1..(Len(s) - 1)
    BY <1>1, <1>2, <2>1
  <2>3. s[2][2] = 2
    BY <1>2, <2>2 DEF Framed, Follows
  <2>4. ~ (2 \in 1..(e - 1))
    BY <1>1, <2>3
  <2> QED
    BY <1>1, <1>2, <2>1, <2>4
<1>4. s[1][2] = 1 /\ s[2][1] = s[1][1]
  <2>1. 1 \in 1..(Len(s) - 1) /\ 1 + 1 = 2
    BY <1>1, <1>2, <1>3
  <2>2. Follows(s[1], s[2])
    BY <2>1 DEF Framed
  <2> QED
    BY <1>2, <2>2 DEF Framed, Follows
<1>5. /\ Len(Line(s)) = 2 /\ Line(s)[1] = s[1] /\ Line(s)[2] = s[2]
      /\ t \in Seq(Half) /\ Len(t) = Len(s) - 2
      /\ \A i \in 1..(Len(s) - 2) : t[i] = s[2 + i]
  <2>1. /\ Line(s) \in Seq(Half) /\ Len(Line(s)) = e
        /\ \A i \in 1..e : Line(s)[i] = s[i]
        /\ t \in Seq(Half) /\ Len(t) = Len(s) - e
        /\ \A i \in 1..(Len(s) - e) : t[i] = s[e + i]
    BY LineParts
  <2> HIDE DEF e, t
  <2> QED
    BY <1>3, <2>1
<1>6. Parsed(Line(s)) = s[1][1]
  BY <1>4, <1>5 DEF Parsed
<1>7. s[1][1] \in Failure..MaxLogs
  BY <1>2, HalfType, ElementOfSeq
<1>8. t = <<>> <=> Len(t) = 0
  BY <1>5, EmptySeq
<1>9. Framed(t)
  <2>1. t # <<>> => t[1][2] = 1
    <3>1. ASSUME t # <<>> PROVE t[1] = s[3] /\ 2 \in 1..(Len(s) - 1)
      BY <1>2, <1>5, <1>8, <3>1
    <3>2. ASSUME t # <<>> PROVE Follows(s[2], s[3])
      BY <3>1, <3>2 DEF Framed
    <3>3. s[2][2] = 2
      BY <1>1, <1>3
    <3> QED
      BY <3>1, <3>2, <3>3 DEF Follows
  <2>2. \A i \in 1..Len(t) : t[i][2] \in {1, 2}
    <3>1. \A i \in 1..Len(t) : 2 + i \in 1..Len(s) /\ t[i] = s[2 + i]
      BY <1>2, <1>5
    <3> QED
      BY <3>1 DEF Framed
  <2>3. \A i \in 1..(Len(t) - 1) : Follows(t[i], t[i + 1])
    <3>1. \A i \in 1..(Len(t) - 1) : /\ 2 + i \in 1..(Len(s) - 1) /\ t[i] = s[2 + i]
                                     /\ t[i + 1] = s[(2 + i) + 1]
      BY <1>2, <1>5
    <3> QED
      BY <3>1 DEF Framed
  <2> QED
    BY <2>1, <2>2, <2>3 DEF Framed
<1>10. WholeLines(s) => WholeLines(t)
  <2>1. ASSUME t # <<>> PROVE t[Len(t)] = s[Len(s)]
    BY <1>2, <1>5, <1>8, <2>1
  <2> QED
    BY <1>2, <1>9, <2>1 DEF WholeLines
<1> QED
  BY <1>3, <1>6, <1>7, <1>9, <1>10

LEMMA FramedFront ==
    ASSUME NEW s \in Seq(Half), NEW w \in Seq(Half), w # <<>>, Framed(s \o w)
    PROVE  Front(w) \in Seq(Half) /\ Framed(s \o Front(w))
<1>1. /\ s \o w \in Seq(Half) /\ Len(s \o w) = Len(s) + Len(w) /\ Len(s) \in Nat /\ Len(w) \in Nat \ {0}
      /\ \A i \in 1..(Len(s) + Len(w)) : (s \o w)[i] = IF i <= Len(s) THEN s[i] ELSE w[i - Len(s)]
  BY ConcatProperties, EmptySeq
<1>2. Front(w) \in Seq(Half) /\ Len(Front(w)) = Len(w) - 1 /\ \A i \in 1..(Len(w) - 1) : Front(w)[i] = w[i]
  <2>1. w # <<>> /\ Len(w) \in Nat /\ \A i \in 1..Len(w) : w[i] \in Half
    BY <1>1
  <2>2. SubSeq(w, 1, Len(w) - 1) \in Seq(Half)
    BY <2>1
  <2>3. \A i \in 1..(Len(w) - 1) : SubSeq(w, 1, Len(w) - 1)[i] = w[i]
    BY <1>1
  <2>4. Len(SubSeq(w, 1, Len(w) - 1)) = Len(w) - 1
    <3> DEFINE n == Len(w) - 1
    <3>1. n \in Nat /\ \A i \in 1..n : w[i] \in Half
      BY <1>1
    <3> HIDE DEF n
    <3>2. Len(SubSeq(w, 1, n)) = IF 1 <= n THEN n - 1 + 1 ELSE 0
      BY <3>1, SubSeqProperties
    <3>3. Len(SubSeq(w, 1, n)) = n
      BY <3>1, <3>2
    <3> QED
      BY <3>3 DEF n
  <2> QED
    BY <2>2, <2>3, <2>4 DEF Front
<1> DEFINE u == s \o Front(w)
           v == s \o w
<1>3. /\ u \in Seq(Half) /\ Len(u) = Len(v) - 1
      /\ \A i \in 1..Len(u) : u[i] = v[i]
  <2>1. /\ u \in Seq(Half) /\ Len(u) = Len(s) + Len(Front(w))
        /\ \A i \in 1..(Len(s) + Len(Front(w))) : u[i] = IF i <= Len(s) THEN s[i] ELSE Front(w)[i - Len(s)]
    BY <1>2, ConcatProperties
  <2> DEFINE f == Front(w)
  <2> HIDE DEF u, v, f
  <2>2. /\ Len(v) = Len(s) + Len(w)
        /\ \A i \in 1..(Len(s) + Len(w)) : v[i] = IF i <= Len(s) THEN s[i] ELSE w[i - Len(s)]
    BY <1>1 DEF v
  <2>3. /\ Len(u) = Len(s) + Len(w) - 1
        /\ \A i \in 1..(Len(s) + Len(w) - 1) : u[i] = IF i <= Len(s) THEN s[i] ELSE f[i - Len(s)]
    BY <1>1, <1>2, <2>1 DEF f
  <2>4. \A i \in 1..(Len(w) - 1) : f[i] = w[i]
    BY <1>2 DEF f
  <2>5. \A i \in 1..(Len(s) + Len(w) - 1) :
           i \in 1..(Len(s) + Len(w)) /\ (~ (i <= Len(s)) => i - Len(s) \in 1..(Len(w) - 1))
    BY <1>1
  <2>6. Len(u) = Len(v) - 1
    BY <2>2, <2>3
  <2>7. ASSUME NEW i \in 1..Len(u) PROVE u[i] = v[i]
    <3>1. i \in 1..(Len(s) + Len(w) - 1)
      BY <2>3
    <3>2. CASE i <= Len(s)
      BY <2>2, <2>3, <2>5, <3>1, <3>2
    <3>3. CASE ~ (i <= Len(s))
      BY <2>2, <2>3, <2>4, <2>5, <3>1, <3>3
    <3> QED
      BY <3>2, <3>3
  <2> QED
    BY <2>1, <2>6, <2>7
<1>4. u # <<>> => u[1][2] = 1
  <2>1. ASSUME u # <<>> PROVE u[1] = v[1] /\ v # <<>>
    <3>1. Len(u) \in Nat \ {0}
      BY <1>3, <2>1, EmptySeq
    <3>2. Len(v) # 0 /\ u[1] = v[1]
      BY <1>1, <1>3, <3>1
    <3> QED
      BY <3>2
  <2> QED
    BY <2>1 DEF Framed
<1>5. \A i \in 1..Len(u) : u[i][2] \in {1, 2}
  <2>1. \A i \in 1..Len(u) : i \in 1..Len(v) /\ u[i] = v[i]
    BY <1>1, <1>3
  <2> QED
    BY <2>1 DEF Framed
<1>6. \A i \in 1..(Len(u) - 1) : Follows(u[i], u[i + 1])
  <2>1. \A i \in 1..(Len(u) - 1) : i \in 1..(Len(v) - 1) /\ u[i] = v[i] /\ u[i + 1] = v[i + 1]
    BY <1>1, <1>3
  <2> QED
    BY <2>1 DEF Framed
<1> QED
  BY <1>2, <1>4, <1>5, <1>6 DEF Framed

-----------------------------------------------------------------------------
(* The logs of a stream                                                    *)

LEMMA LogsOfEmpty == LogsOn(<<>>) = {}
  BY DEF LogsOn

LEMMA LogsOfWhole ==
    ASSUME NEW m \in Failure..MaxLogs
    PROVE  LogsOn(Whole(m)) = {m} \ {Reply, Failure}
<1>1. DOMAIN Whole(m) = 1..2 /\ Whole(m)[1] = <<m, 1>> /\ Whole(m)[2] = <<m, 2>>
  BY WholeType
<1>2. \A i \in 1..2 : i = 1 \/ i = 2
  OBVIOUS
<1> QED
  BY <1>1, <1>2 DEF LogsOn

LEMMA LogsOfConcat ==
    ASSUME NEW s \in Seq(Half), NEW t \in Seq(Half)
    PROVE  LogsOn(s \o t) = LogsOn(s) \union LogsOn(t)
<1>1. Range(s \o t) = Range(s) \union Range(t)
  BY RangeConcatenation
<1>2. \A u : LogsOn(u) = {h[1] : h \in Range(u)} \ {Reply, Failure}
  BY DEF LogsOn, Range
<1> QED
  BY <1>1, <1>2

-----------------------------------------------------------------------------
(* The stream                                                              *)

StreamOp ==
    \/ Connect \/ Refused \/ Dies \/ Close \/ GethStep \/ UNCHANGED streamVars
    \/ \E topic \in Topic \union {0} : Request(topic)
    \/ \E n \in 1..Len(wire) : Receive(n)

LEMMA StreamOpType ==
    ASSUME StreamTypeOK, StreamOp
    PROVE  StreamTypeOK'
<1> USE StreamAssumption
<1>0. /\ sock \in {"closed", "open", "eof"} /\ wire \in Seq(Half)
      /\ asked \in Topic \union {0} /\ subs \subseteq Topic
      /\ conn \in Nat /\ sentIn \in [1..MaxLogs -> 0..conn]
      /\ emitted \in 0..MaxLogs /\ faults \in 0..MaxFaults /\ dead \in BOOLEAN
  BY DEF StreamTypeOK
<1>1. Reply \in Failure..MaxLogs /\ Failure \in Failure..MaxLogs
  BY DEF Reply, Failure
<1>2. Whole(Reply) \in Seq(Half) /\ Whole(Failure) \in Seq(Half)
  BY <1>1, WholeType
<1>3. CASE Connect
  <2>1. conn' \in Nat /\ sentIn' \in [1..MaxLogs -> 0..conn']
    BY <1>0, <1>3 DEF Connect
  <2> QED
    BY <1>0, <1>3, <2>1 DEF Connect, StreamTypeOK
<1>4. CASE Refused
  <2>1. faults' \in 0..MaxFaults /\ dead' \in BOOLEAN
    BY <1>0, <1>4 DEF Refused
  <2> QED
    BY <1>0, <1>4, <2>1 DEF Refused, StreamTypeOK
<1>11. CASE Dies
  BY <1>0, <1>11 DEF Dies, StreamTypeOK
<1>12. CASE UNCHANGED streamVars
  BY <1>0, <1>12 DEF streamVars, StreamTypeOK
<1>5. CASE Close
  BY <1>0, <1>5 DEF Close, StreamTypeOK
<1>6. ASSUME NEW topic \in Topic \union {0}, Request(topic) PROVE StreamTypeOK'
  BY <1>0, <1>6 DEF Request, StreamTypeOK
<1>7. ASSUME NEW n \in 1..Len(wire), Receive(n) PROVE StreamTypeOK'
  <2>1. wire' \in Seq(Half)
    BY <1>0, <1>7, ReadMoves, EmptySeq DEF Receive
  <2> QED
    BY <1>0, <1>7, <2>1 DEF Receive, StreamTypeOK
<1>8. CASE GethReplies
  <2>1. wire' \in Seq(Half)
    <3>1. PICK w \in Seq(Half) : wire' = wire \o w
      BY <1>2, <1>8 DEF GethReplies
    <3> QED
      BY <1>0, <3>1, ConcatProperties
  <2>2. asked' \in Topic \union {0} /\ subs' \subseteq Topic
    BY <1>0, <1>8 DEF GethReplies
  <2>3. faults' \in 0..MaxFaults
    <3>1. faults' = faults \/ (faults < MaxFaults /\ faults' = faults + 1)
      BY <1>8 DEF GethReplies
    <3> QED
      BY <1>0, <3>1
  <2> QED
    BY <1>0, <1>8, <2>1, <2>2, <2>3 DEF GethReplies, StreamTypeOK
<1>9. CASE GethLogs
  <2>1. emitted' \in 1..MaxLogs /\ emitted' \in Failure..MaxLogs
    BY <1>0, <1>9 DEF GethLogs, Failure
  <2>2. Whole(emitted') \in Seq(Half)
    BY <2>1, WholeType
  <2>3. wire' \in Seq(Half)
    <3>1. wire' = wire \/ wire' = wire \o Whole(emitted')
      BY <1>9 DEF GethLogs
    <3>2. wire \o Whole(emitted') \in Seq(Half)
      BY <1>0, <2>2, ConcatProperties
    <3> QED
      BY <1>0, <3>1, <3>2
  <2>4. sentIn' \in [1..MaxLogs -> 0..conn]
    <3>1. sentIn' = sentIn \/ sentIn' = [sentIn EXCEPT ![emitted'] = conn]
      BY <1>9 DEF GethLogs
    <3>2. conn \in 0..conn
      BY <1>0
    <3> QED
      BY <1>0, <2>1, <3>1, <3>2
  <2> QED
    BY <1>0, <1>9, <2>1, <2>3, <2>4 DEF GethLogs, StreamTypeOK
<1>10. CASE GethCloses
  <2>1. wire' \in Seq(Half)
    <3>1. ASSUME wire # <<>> PROVE Front(wire) \in Seq(Half)
      BY <1>0, <3>1, EmptySeq DEF Front
    <3>2. wire' = wire \/ (wire # <<>> /\ wire' = Front(wire))
      BY <1>10 DEF GethCloses
    <3> QED
      BY <1>0, <3>1, <3>2
  <2>2. sock' = "eof" /\ faults' \in 0..MaxFaults
    BY <1>0, <1>10 DEF GethCloses
  <2> QED
    BY <1>0, <1>10, <2>1, <2>2 DEF GethCloses, StreamTypeOK
<1> QED
  BY <1>3, <1>4, <1>5, <1>6, <1>7, <1>8, <1>9, <1>10, <1>11, <1>12 DEF StreamOp, GethStep

\* The logs sent in this connection.
Sent == {n \in 1..MaxLogs : sentIn[n] = conn}

\* A new connection starts with none.
LEMMA NoneSent ==
    ASSUME StreamTypeOK, Connect
    PROVE  Sent' = {}
<1>1. \A n \in 1..MaxLogs : sentIn[n] \in 0..conn
  BY DEF StreamTypeOK
<1>2. conn \in Nat /\ conn' = conn + 1 /\ sentIn' = sentIn
  BY DEF StreamTypeOK, Connect
<1>3. \A n \in 1..MaxLogs : sentIn'[n] # conn'
  BY <1>1, <1>2
<1> QED
  BY <1>3 DEF Sent

\* What the node does to the rest s of a stream of which some part may have been
\* read: it adds a message, which a log it sends is part of, or cuts off a half.
LEMMA NodeAdds ==
    ASSUME StreamTypeOK, NEW b \in Seq(Half), GethStep
    PROVE  /\ conn' = conn /\ dead' = dead
           /\ sock' = "open" => sock = "open"
           /\ Framed(b \o wire) /\ (sock = "open" => WholeLines(b \o wire)) =>
                 Framed(b \o wire') /\ (sock' = "open" => WholeLines(b \o wire'))
           /\ sock' = "open" =>
                 /\ LogsOn(b \o wire) \subseteq LogsOn(b \o wire')
                 /\ Sent' \subseteq Sent \union LogsOn(b \o wire')
<1> USE StreamAssumption
<1>0. wire \in Seq(Half) /\ b \o wire \in Seq(Half)
  BY ConcatProperties DEF StreamTypeOK
<1>1. Reply \in Failure..MaxLogs /\ Failure \in Failure..MaxLogs
  BY DEF Reply, Failure
<1>2. ASSUME NEW m \in Failure..MaxLogs, wire' = wire \o Whole(m)
      PROVE  /\ b \o wire' = (b \o wire) \o Whole(m)
             /\ WholeLines(b \o wire) => WholeLines(b \o wire')
             /\ LogsOn(b \o wire') = LogsOn(b \o wire) \union ({m} \ {Reply, Failure})
  <2>1. Whole(m) \in Seq(Half)
    BY WholeType
  <2>2. b \o wire' = (b \o wire) \o Whole(m)
    <3>1. \A p, q \in Seq(Half) : (b \o p) \o q = b \o (p \o q)
      BY HalvesAssociative, Zenon
    <3> QED
      BY <1>0, <1>2, <2>1, <3>1, Zenon
  <2>3. WholeLines(b \o wire) => WholeLines((b \o wire) \o Whole(m))
    BY <1>0, <2>1, OneWhole, WholeThenFramed DEF WholeLines
  <2>4. LogsOn((b \o wire) \o Whole(m)) = LogsOn(b \o wire) \union ({m} \ {Reply, Failure})
    <3>1. LogsOn((b \o wire) \o Whole(m)) = LogsOn(b \o wire) \union LogsOn(Whole(m))
      BY <1>0, <2>1, LogsOfConcat
    <3>2. LogsOn(Whole(m)) = {m} \ {Reply, Failure}
      BY LogsOfWhole
    <3> QED
      BY <3>1, <3>2, Zenon
  <2> QED
    BY <2>2, <2>3, <2>4
<1>3. CASE GethReplies
  <2>1. PICK m \in {Reply, Failure} : wire' = wire \o Whole(m)
    BY <1>3 DEF GethReplies
  <2>2. sock = "open" /\ UNCHANGED <<conn, dead, sock, sentIn>>
    BY <1>3 DEF GethReplies
  <2>3. Sent' = Sent
    BY <2>2 DEF Sent
  <2>4. /\ WholeLines(b \o wire) => WholeLines(b \o wire')
        /\ LogsOn(b \o wire') = LogsOn(b \o wire) \union ({m} \ {Reply, Failure})
    BY <1>1, <1>2, <2>1
  <2> QED
    BY <2>2, <2>3, <2>4 DEF WholeLines
<1>4. CASE GethLogs
  <2>1. emitted' \in 1..MaxLogs /\ emitted' \in Failure..MaxLogs /\ emitted' \notin {Reply, Failure}
    BY <1>4 DEF StreamTypeOK, GethLogs, Failure, Reply
  <2>2. UNCHANGED <<conn, dead, sock>>
    BY <1>4 DEF GethLogs
  <2>3. CASE sock = "open" /\ wire' = wire \o Whole(emitted') /\ sentIn' = [sentIn EXCEPT ![emitted'] = conn]
    <3>1. /\ WholeLines(b \o wire) => WholeLines(b \o wire')
          /\ LogsOn(b \o wire') = LogsOn(b \o wire) \union {emitted'}
      BY <1>2, <2>1, <2>3
    <3>2. Sent' \subseteq Sent \union {emitted'}
      BY <2>2, <2>3 DEF Sent, StreamTypeOK
    <3> QED
      BY <2>2, <2>3, <3>1, <3>2 DEF WholeLines
  <2>4. CASE UNCHANGED <<wire, sentIn>>
    <3>1. Sent' = Sent
      BY <2>2, <2>4 DEF Sent
    <3> QED
      BY <2>2, <2>4, <3>1
  <2> QED
    BY <1>4, <2>3, <2>4 DEF GethLogs
<1>5. CASE GethCloses
  <2>1. sock' = "eof" /\ UNCHANGED <<conn, dead>>
    BY <1>5 DEF GethCloses
  <2>2. wire' = wire \/ (wire # <<>> /\ wire' = Front(wire))
    BY <1>5 DEF GethCloses
  <2>3. Framed(b \o wire) => Framed(b \o wire')
    BY <1>0, <2>2, FramedFront
  <2> QED
    BY <2>1, <2>3
<1> QED
  BY <1>3, <1>4, <1>5 DEF GethStep

-----------------------------------------------------------------------------
(* The data receiver                                                       *)

Collecting == {"check", "receive", "insert", "notify"}

\* In the setup nothing but subscribeParse is read into, and all updates come
\* behind the reply.  After it whole messages are in receiveParse and on their
\* way, and what was parsed goes on to the client.
ReceiverFlow == rPc # "off" /\ ~ dead =>
    /\ rPc \in {"id", "connect", "request", "read"} => rBuf = <<>>
    /\ rPc \in {"connect", "request"} => replyBuf = <<>>
    /\ sock = "open" => rPc \notin {"id", "connect"}
    /\ rPc # "insert" => incoming = 0
    /\ sock = "open" /\ rPc \in {"request", "read"} =>
          /\ WholeLines(replyBuf \o wire)
          /\ Sent \subseteq LogsOn(replyBuf \o wire)
    /\ sock = "open" /\ ~ mishap /\ rPc \in Collecting =>
          /\ WholeLines(rBuf \o wire)
          /\ Sent \subseteq LogsOn(rBuf \o wire) \union {incoming} \union updates \union got

\* A set that is found empty where updates are taken was cleared since the test.
ReceiverInv ==
    /\ ReceiverTypeOK /\ (rPc = "insert" => incoming # 0)
    /\ EmptyOnlyAfterClear
    /\ ReceiverFlow

\* The parts of the type invariant.
ThreadType ==
    /\ me \in Topic \union {0} /\ moves \in 0..MaxMoves
    /\ rPc \in {"off", "id", "connect", "request", "read", "check", "receive", "insert", "notify"}
    /\ rNext \in {"check", "receive"}
    /\ subId \in Topic \union {0}
    /\ mishap \in BOOLEAN
BufferType == replyBuf \in Seq(Half) /\ rBuf \in Seq(Half)
UpdatesType == incoming \in 0..MaxLogs /\ updates \subseteq 1..MaxLogs /\ got \subseteq 1..MaxLogs
ClientType ==
    /\ setups \in Nat /\ tested \in 0..setups
    /\ uPc \in {"size", "test", "block", "asleep", "stranded", "take"}

LEMMA ReceiverTypeParts ==
    /\ ReceiverTypeOK <=> ThreadType /\ BufferType /\ UpdatesType /\ ClientType
    /\ ReceiverTypeOK' <=> ThreadType' /\ BufferType' /\ UpdatesType' /\ ClientType'
  BY DEF ReceiverTypeOK, ThreadType, BufferType, UpdatesType, ClientType

LEMMA ReceiverInvInit ==
    ASSUME StreamInit, NEW pc \in {"off", "id"}, ReceiverInit(pc)
    PROVE  ReceiverInv
<1>1. ThreadType /\ UpdatesType
  <2>1. 0 \in 0..MaxMoves /\ 0 \in 0..MaxLogs
    BY StreamAssumption, MovesAssumption
  <2> QED
    BY <2>1 DEF ReceiverInit, ThreadType, UpdatesType
<1>2. BufferType
  BY DEF ReceiverInit, BufferType
<1>3. ClientType
  BY DEF ReceiverInit, ClientType
<1>4. EmptyOnlyAfterClear /\ ReceiverFlow
  BY DEF StreamInit, ReceiverInit, EmptyOnlyAfterClear, ReceiverFlow, Collecting
<1> QED
  BY <1>1, <1>2, <1>3, <1>4, ReceiverTypeParts DEF ReceiverInv, ReceiverInit

\* What each step of the receiver does to the stream.
LEMMA ReceiverStreamOp ==
    ASSUME ReceiverTypeOK, ReceiverStep
    PROVE  StreamOp
  BY DEF ReceiverTypeOK, ReceiverStep, ReadOwnId, OpenStream, RequestUpdates, ReadReply, ParseReply, SubscribeReply,
     CheckOwnId, SetUpAgain, ReceiveUpdates, ParseUpdate, InsertUpdate, NotifyUpdate, StreamOp

LEMMA ReceiverTypeStep ==
    ASSUME StreamTypeOK, ReceiverTypeOK, rPc = "insert" => incoming # 0, ReceiverStep
    PROVE  ReceiverTypeOK' /\ (rPc' = "insert" => incoming' # 0)
<1>0. ThreadType /\ BufferType /\ UpdatesType /\ ClientType
  BY ReceiverTypeParts
<1>1. wire \in Seq(Half) /\ replyBuf \in Seq(Half) /\ rBuf \in Seq(Half) /\ <<>> \in Seq(Half)
  BY <1>0 DEF StreamTypeOK, BufferType
<1>2. ThreadType'
  BY <1>0 DEF ReceiverStep, ReadOwnId, OpenStream, RequestUpdates, ReadReply, ParseReply, SubscribeReply,
     CheckOwnId, SetUpAgain, ReceiveUpdates, ParseUpdate, InsertUpdate, NotifyUpdate, ThreadType
<1>3. BufferType'
  <2>1. CASE ReadReply
    BY <1>1, <2>1, ReadMoves DEF ReadReply, BufferType
  <2>2. CASE CheckOwnId
    <3>1. replyBuf' = replyBuf /\ rBuf' \in {rBuf, <<>>}
      BY <2>2 DEF CheckOwnId, SetUpAgain
    <3> QED
      BY <1>1, <3>1 DEF BufferType
  <2>3. CASE ReceiveUpdates
    <3>1. replyBuf' = replyBuf
      BY <2>3 DEF ReceiveUpdates
    <3>2. rBuf' \in Seq(Half)
      BY <1>1, <2>3, ReadMoves DEF ReceiveUpdates, SetUpAgain
    <3> QED
      BY <1>1, <3>1, <3>2 DEF BufferType
  <2>4. CASE ParseUpdate
    BY <1>1, <2>4, LineParts DEF ParseUpdate, BufferType
  <2>5. CASE ReadOwnId \/ OpenStream \/ RequestUpdates \/ ParseReply \/ InsertUpdate \/ NotifyUpdate
    <3>1. replyBuf' \in {replyBuf, <<>>} /\ rBuf' = rBuf
      BY <2>5 DEF ReadOwnId, OpenStream, RequestUpdates, ParseReply, InsertUpdate, NotifyUpdate
    <3> QED
      BY <1>1, <3>1 DEF BufferType
  <2> QED
    BY <2>1, <2>2, <2>3, <2>4, <2>5 DEF ReceiverStep
<1>4. UpdatesType' /\ (rPc' = "insert" => incoming' # 0)
  <2>1. CASE ParseUpdate
    BY <1>0, <2>1 DEF ParseUpdate, UpdatesType, clientVars
  <2>2. CASE InsertUpdate
    <3>1. incoming \in 1..MaxLogs
      BY <1>0, <2>2 DEF InsertUpdate, UpdatesType
    <3>2. updates' \subseteq 1..MaxLogs /\ got' = got /\ incoming' = 0 /\ rPc' = "notify"
      BY <1>0, <2>2, <3>1 DEF InsertUpdate, UpdatesType, clientVars
    <3>3. 0 \in 0..MaxLogs
      BY StreamAssumption
    <3> QED
      BY <1>0, <3>2, <3>3 DEF UpdatesType
  <2>3. CASE ParseReply
    <3>1. updates' \in {updates, {}} /\ UNCHANGED <<got, incoming>> /\ rPc' # "insert"
      BY <1>0, <2>3 DEF ParseReply, SubscribeReply, clientVars, ThreadType
    <3> QED
      BY <1>0, <3>1 DEF UpdatesType
  <2>4. CASE ReadOwnId \/ OpenStream \/ RequestUpdates \/ ReadReply \/ CheckOwnId \/ ReceiveUpdates \/ NotifyUpdate
    <3>1. UNCHANGED <<updates, got, incoming>> /\ rPc' # "insert"
      BY <2>4 DEF ReadOwnId, OpenStream, RequestUpdates, ReadReply, CheckOwnId, ReceiveUpdates, SetUpAgain,
         NotifyUpdate, clientVars
    <3> QED
      BY <1>0, <3>1 DEF UpdatesType
  <2> QED
    BY <2>1, <2>2, <2>3, <2>4 DEF ReceiverStep
<1>5. ClientType'
  <2>1. setups' \in {setups, setups + 1} /\ tested' = tested /\ uPc' \in {uPc, "test"}
    BY DEF ReceiverStep, ReadOwnId, OpenStream, RequestUpdates, ReadReply, ParseReply, SubscribeReply,
     CheckOwnId, ReceiveUpdates, ParseUpdate, InsertUpdate, NotifyUpdate, clientVars
  <2> QED
    BY <1>0, <2>1 DEF ClientType
<1> QED
  BY <1>2, <1>3, <1>4, <1>5, ReceiverTypeParts

LEMMA ClientTypeStep ==
    ASSUME ReceiverTypeOK, ClientStep \/ ClientWakesSpuriously
    PROVE  ReceiverTypeOK' /\ UNCHANGED <<rPc, incoming>>
<1>0. ThreadType /\ BufferType /\ UpdatesType /\ ClientType
  BY ReceiverTypeParts
<1>1. /\ UNCHANGED <<me, moves, rPc, rNext, subId, replyBuf, rBuf, incoming, setups, mishap>>
      /\ updates' \in {updates, {}} /\ got' \in {got, got \union updates}
      /\ tested' \in {tested, setups}
      /\ uPc' \in {"size", "test", "block", "asleep", "stranded", "take"}
  BY DEF ClientStep, ClientWakesSpuriously, SizeLocked, SizeZero, SizeUnlocked, WaitForUpdate, TakeUpdates, Take
<1>2. ThreadType' /\ BufferType' /\ UpdatesType'
  BY <1>0, <1>1 DEF ThreadType, BufferType, UpdatesType
<1>3. ClientType'
  BY <1>0, <1>1 DEF ClientType
<1> QED
  BY <1>1, <1>2, <1>3, ReceiverTypeParts

LEMMA EmptyStep ==
    ASSUME ReceiverTypeOK, EmptyOnlyAfterClear, ReceiverStep \/ ClientStep \/ ClientWakesSpuriously
    PROVE  EmptyOnlyAfterClear'
<1>0. setups \in Nat /\ tested \in 0..setups
  BY DEF ReceiverTypeOK
<1>1. CASE ReceiverStep
  <2>1. CASE ParseReply
    <3>1. UNCHANGED <<uPc, tested>> /\ (UNCHANGED <<updates, setups>> \/ setups' = setups + 1)
      BY <2>1 DEF ParseReply, SubscribeReply, clientVars
    <3> QED
      BY <1>0, <3>1 DEF EmptyOnlyAfterClear
  <2>2. ASSUME ~ ParseReply
        PROVE  /\ UNCHANGED <<setups, tested>> /\ updates \subseteq updates'
               /\ uPc' = "take" => uPc = "take"
    BY <1>1, <2>2 DEF ReceiverStep, ReadOwnId, OpenStream, RequestUpdates, ReadReply,
       CheckOwnId, ReceiveUpdates, ParseUpdate, InsertUpdate, NotifyUpdate, clientVars
  <2> QED
    BY <2>1, <2>2 DEF EmptyOnlyAfterClear
<1>2. CASE ClientStep \/ ClientWakesSpuriously
  <2>1. uPc' = "take" => updates' # {}
    BY <1>2 DEF ClientStep, ClientWakesSpuriously, SizeLocked, SizeZero, SizeUnlocked, WaitForUpdate, TakeUpdates, Take
  <2> QED
    BY <2>1 DEF EmptyOnlyAfterClear
<1> QED
  BY <1>1, <1>2

LEMMA ReceiverFlowStep ==
    ASSUME StreamTypeOK, ReceiverInv, rPc # "off", ~ dead, ReceiverStep
    PROVE  ReceiverFlow'
<1> SUFFICES ASSUME ~ dead' PROVE ReceiverFlow'
  BY DEF ReceiverFlow
<1>0. /\ wire \in Seq(Half) /\ replyBuf \in Seq(Half) /\ rBuf \in Seq(Half) /\ <<>> \in Seq(Half)
      /\ rNext \in {"check", "receive"}
  BY DEF StreamTypeOK, ReceiverInv, ReceiverTypeOK
<1>1. /\ rPc \in {"id", "connect", "request", "read"} => rBuf = <<>>
      /\ rPc \in {"connect", "request"} => replyBuf = <<>>
      /\ sock = "open" => rPc \notin {"id", "connect"}
      /\ rPc # "insert" => incoming = 0
      /\ sock = "open" /\ rPc \in {"request", "read"} =>
            /\ WholeLines(replyBuf \o wire)
            /\ Sent \subseteq LogsOn(replyBuf \o wire)
      /\ sock = "open" /\ ~ mishap /\ rPc \in Collecting =>
            /\ WholeLines(rBuf \o wire)
            /\ Sent \subseteq LogsOn(rBuf \o wire) \union {incoming} \union updates \union got
  BY DEF ReceiverInv, ReceiverFlow
<1>2. CASE ReadOwnId
  BY <1>1, <1>2 DEF ReadOwnId, ReceiverFlow, streamVars, Collecting
<1>3. CASE OpenStream
  <2>1. Connect /\ rPc = "connect" /\ rPc' = "request" /\ wire' = <<>> /\ UNCHANGED <<replyBuf, rBuf, incoming>>
    BY <1>3 DEF OpenStream, Refused, Dies, Connect
  <2>2. replyBuf' = <<>> /\ replyBuf' \o wire' = <<>>
    BY <1>1, <2>1
  <2>3. Sent' = {}
    BY <2>1, NoneSent
  <2> QED
    BY <1>1, <2>1, <2>2, <2>3, EmptyWhole DEF ReceiverFlow, Collecting
<1>4. CASE RequestUpdates
  <2>1. /\ rPc = "request" /\ rPc' = "read"
        /\ UNCHANGED <<sock, wire, conn, sentIn, replyBuf, rBuf, incoming>>
    BY <1>4 DEF RequestUpdates, Request, Dies
  <2> QED
    BY <1>1, <2>1 DEF ReceiverFlow, Collecting, Sent
<1>5. CASE ReadReply
  <2>1. rPc = "read" /\ UNCHANGED <<rBuf, incoming, sentIn, conn>>
    BY <1>5 DEF ReadReply, Receive, Dies, streamVars
  <2>2. CASE rPc' = "id"
    BY <1>1, <1>5, <2>1, <2>2 DEF ReadReply, Receive, Dies, AtEnd, streamVars, ReceiverFlow, Collecting
  <2>3. CASE rPc' # "id"
    <3>1. PICK n \in 1..Len(wire) : Receive(n) /\ replyBuf' = replyBuf \o SubSeq(wire, 1, n) /\ rPc' = rPc
      BY <1>5, <2>3 DEF ReadReply, Dies
    <3>2. wire' = SubSeq(wire, n + 1, Len(wire)) /\ sock' = sock
      BY <3>1 DEF Receive
    <3>3. replyBuf' \o wire' = replyBuf \o wire
      BY <1>0, <3>1, <3>2, ReadMoves
    <3>4. Sent' = Sent
      BY <2>1 DEF Sent
    <3> QED
      BY <1>1, <2>1, <3>1, <3>2, <3>3, <3>4 DEF ReceiverFlow, Collecting
  <2> QED
    BY <2>2, <2>3
<1>6. CASE ParseReply
  <2>1. /\ rPc = "read" /\ HasLine(replyBuf) /\ Parsed(Line(replyBuf)) = Reply
        /\ mishap' = (After(replyBuf) # <<>>) /\ rPc' = rNext
        /\ UNCHANGED <<rBuf, incoming, sentIn, conn, sock, wire>>
    BY <1>6 DEF ParseReply, SubscribeReply, Dies, streamVars
  <2>2. ASSUME sock = "open", ~ mishap'
        PROVE  WholeLines(rBuf \o wire) /\ Sent \subseteq LogsOn(rBuf \o wire)
    <3>1. After(replyBuf) = <<>> /\ rBuf = <<>>
      BY <1>1, <2>1, <2>2
    <3>2. rBuf \o wire = wire
      BY <1>0, <3>1, ConcatEmptySeq
    <3>3. replyBuf \o wire \in Seq(Half) /\ HasLine(replyBuf \o wire) /\ After(replyBuf \o wire) = wire
      <4>1. After(replyBuf \o wire) = After(replyBuf) \o wire
        BY <1>0, <2>1, LineOfConcat
      <4>2. <<>> \o wire = wire
        BY <1>0, ConcatEmptySeq
      <4> QED
        BY <1>0, <2>1, <3>1, <4>1, <4>2, LineOfConcat
    <3>4. WholeLines(replyBuf \o wire) /\ Sent \subseteq LogsOn(replyBuf \o wire)
      BY <1>1, <2>1, <2>2
    <3>5. WholeLines(wire)
      BY <3>3, <3>4, FramedLine DEF WholeLines
    <3>6. LogsOn(replyBuf) = {}
      <4>1. Line(replyBuf) = Whole(Reply) /\ Line(replyBuf) \in Seq(Half)
            /\ Line(replyBuf) \o After(replyBuf) = replyBuf
        BY <1>0, <2>1, ParsedLine, LineParts DEF Reply, Garbled
      <4>2. replyBuf = Whole(Reply)
        BY <3>1, <4>1, ConcatEmptySeq
      <4>3. Reply \in Failure..MaxLogs
        BY StreamAssumption DEF Reply, Failure
      <4> QED
        BY <4>2, <4>3, LogsOfWhole
    <3>7. LogsOn(replyBuf \o wire) = LogsOn(wire)
      <4>1. LogsOn(replyBuf \o wire) = LogsOn(replyBuf) \union LogsOn(wire)
        BY <1>0, LogsOfConcat
      <4> QED
        BY <3>6, <4>1, Zenon
    <3> QED
      BY <3>2, <3>4, <3>5, <3>7
  <2>3. Sent' = Sent /\ rBuf' \o wire' = rBuf \o wire /\ rPc' \in {"check", "receive"}
    BY <1>0, <2>1 DEF Sent
  <2> QED
    BY <1>1, <2>1, <2>2, <2>3 DEF ReceiverFlow, Collecting
<1>7. CASE CheckOwnId
  <2>1. /\ rPc = "check" /\ UNCHANGED <<incoming, updates, got, mishap, sentIn, conn>>
    BY <1>7 DEF CheckOwnId, SetUpAgain, Close, Dies, streamVars, clientVars
  <2>2. CASE SetUpAgain
    BY <1>1, <2>1, <2>2 DEF SetUpAgain, Close, ReceiverFlow, Collecting
  <2>3. CASE ~ SetUpAgain
    <3>1. rPc' = "receive" /\ UNCHANGED <<sock, wire, rBuf>>
      BY <1>7, <2>3 DEF CheckOwnId, Dies, streamVars
    <3>2. Sent' = Sent /\ rBuf' \o wire' = rBuf \o wire
      BY <2>1, <3>1 DEF Sent
    <3> QED
      BY <1>1, <2>1, <3>1, <3>2 DEF ReceiverFlow, Collecting
  <2> QED
    BY <2>2, <2>3
<1>8. CASE ReceiveUpdates
  <2>1. rPc = "receive" /\ UNCHANGED <<incoming, updates, got, mishap, replyBuf>>
    BY <1>8 DEF ReceiveUpdates, clientVars
  <2>2. CASE SetUpAgain
    BY <1>1, <1>8, <2>1, <2>2 DEF SetUpAgain, Close, ReceiverFlow, Collecting
  <2>3. CASE ~ SetUpAgain
    <3>1. PICK n \in 1..Len(wire) : Receive(n) /\ rBuf' = rBuf \o SubSeq(wire, 1, n) /\ rPc' = rPc
      BY <1>8, <2>3 DEF ReceiveUpdates, Dies
    <3>2. wire' = SubSeq(wire, n + 1, Len(wire)) /\ UNCHANGED <<sock, sentIn, conn>>
      BY <3>1 DEF Receive
    <3>3. rBuf' \o wire' = rBuf \o wire
      BY <1>0, <3>1, <3>2, ReadMoves
    <3>4. Sent' = Sent
      BY <3>2 DEF Sent
    <3> QED
      BY <1>1, <2>1, <3>1, <3>2, <3>3, <3>4 DEF ReceiverFlow, Collecting
  <2> QED
    BY <2>2, <2>3
<1>9. CASE ParseUpdate
  <2>1. /\ rPc = "receive" /\ HasLine(rBuf) /\ rBuf' = After(rBuf) /\ rPc' \in {"insert", "check"}
        /\ UNCHANGED <<sock, wire, sentIn, conn, updates, got, mishap, replyBuf>>
    BY <1>9 DEF ParseUpdate, Dies, streamVars, clientVars
  <2>2. rPc' # "insert" => incoming' = 0
    BY <1>1, <1>9, <2>1 DEF ParseUpdate, Dies
  <2>3. ASSUME sock = "open", ~ mishap
        PROVE  /\ WholeLines(rBuf' \o wire)
               /\ Sent \subseteq LogsOn(rBuf' \o wire) \union {incoming'} \union updates \union got
    <3> DEFINE s == rBuf \o wire
    <3>1. WholeLines(s) /\ Sent \subseteq LogsOn(s) \union {incoming} \union updates \union got /\ incoming = 0
      BY <1>1, <2>1, <2>3 DEF Collecting
    <3>2. s \in Seq(Half) /\ HasLine(s) /\ Line(s) = Line(rBuf) /\ After(s) = rBuf' \o wire
      BY <1>0, <2>1, LineOfConcat
    <3> DEFINE m == Parsed(Line(rBuf))
    <3> HIDE DEF s
    <3>3. WholeLines(After(s)) /\ Parsed(Line(s)) \in Failure..MaxLogs
      BY <3>1, <3>2, FramedLine DEF WholeLines
    <3>4. m \in Failure..MaxLogs
      BY <3>2, <3>3
    <3>5. LogsOn(s) = ({m} \ {Reply, Failure}) \union LogsOn(After(s))
      <4>1. Line(s) \in Seq(Half) /\ After(s) \in Seq(Half) /\ Line(s) \o After(s) = s
        BY <3>2, LineParts
      <4>2. Line(s) = Whole(m)
        BY <3>2, <3>4, ParsedLine DEF Garbled, Failure
      <4>3. LogsOn(s) = LogsOn(Line(s)) \union LogsOn(After(s))
        BY <4>1, LogsOfConcat
      <4> QED
        BY <3>4, <4>2, <4>3, LogsOfWhole
    <3>6. m \in 1..MaxLogs => incoming' = m
      BY <1>9 DEF ParseUpdate, Dies
    <3>7. m \in 1..MaxLogs \/ m \in {Reply, Failure}
      BY <3>4, StreamAssumption DEF Reply, Failure
    <3>8. Sent \subseteq 1..MaxLogs
      BY DEF Sent
    <3>9. 0 \notin Sent
      BY <3>8
    <3> HIDE DEF m
    <3>10. Sent \subseteq LogsOn(After(s)) \union {incoming'} \union updates \union got
      BY <3>1, <3>5, <3>6, <3>7, <3>9
    <3> QED
      BY <3>2, <3>3, <3>10
  <2>4. Sent' = Sent
    BY <2>1 DEF Sent
  <2> QED
    BY <2>1, <2>2, <2>3, <2>4 DEF ReceiverFlow, Collecting
<1>10. CASE InsertUpdate
  <2>1. /\ rPc = "insert" /\ rPc' = "notify" /\ updates' = updates \union {incoming} /\ incoming' = 0
        /\ UNCHANGED <<sock, wire, sentIn, conn, got, mishap, rBuf>>
    BY <1>10 DEF InsertUpdate, streamVars, clientVars
  <2>2. Sent' = Sent
    BY <2>1 DEF Sent
  <2>3. ASSUME sock = "open", ~ mishap
        PROVE  /\ WholeLines(rBuf' \o wire')
               /\ Sent' \subseteq LogsOn(rBuf' \o wire') \union {incoming'} \union updates' \union got'
    <3>1. WholeLines(rBuf \o wire) /\ Sent \subseteq LogsOn(rBuf \o wire) \union {incoming} \union updates \union got
      BY <1>1, <2>1, <2>3 DEF Collecting
    <3>2. rBuf' \o wire' = rBuf \o wire
      BY <2>1
    <3> QED
      BY <2>1, <2>2, <3>1, <3>2
  <2> QED
    BY <2>1, <2>3 DEF ReceiverFlow
<1>11. CASE NotifyUpdate
  <2>1. /\ rPc = "notify" /\ rPc' = "check"
        /\ UNCHANGED <<sock, wire, sentIn, conn, updates, incoming, got, mishap, rBuf>>
    BY <1>11 DEF NotifyUpdate, streamVars
  <2>2. Sent' = Sent /\ rBuf' \o wire' = rBuf \o wire
    BY <2>1 DEF Sent
  <2> QED
    BY <1>1, <2>1, <2>2 DEF ReceiverFlow, Collecting
<1> QED
  BY <1>2, <1>3, <1>4, <1>5, <1>6, <1>7, <1>8, <1>9, <1>10, <1>11 DEF ReceiverStep

LEMMA ClientFlowStep ==
    ASSUME ReceiverFlow, ClientStep \/ ClientWakesSpuriously
    PROVE  ReceiverFlow'
<1>1. /\ UNCHANGED <<sock, wire, sentIn, conn, dead, rPc, replyBuf, rBuf, incoming, mishap>>
      /\ updates \union got \subseteq updates' \union got'
  BY DEF ClientStep, ClientWakesSpuriously, SizeLocked, SizeZero, SizeUnlocked, WaitForUpdate, TakeUpdates, Take,
     streamVars
<1>2. Sent' = Sent /\ rBuf' \o wire' = rBuf \o wire /\ replyBuf' \o wire' = replyBuf \o wire
  BY <1>1 DEF Sent
<1> QED
  BY <1>1, <1>2 DEF ReceiverFlow

LEMMA NodeFlowStep ==
    ASSUME StreamTypeOK, ReceiverInv, GethStep, UNCHANGED receiverVars
    PROVE  ReceiverInv'
<1>0. /\ replyBuf \in Seq(Half) /\ rBuf \in Seq(Half)
      /\ UNCHANGED <<rPc, replyBuf, rBuf, incoming, updates, got, mishap, setups, tested, uPc>>
  BY DEF ReceiverInv, ReceiverTypeOK, receiverVars, clientVars
<1>1. ReceiverTypeOK' /\ EmptyOnlyAfterClear' /\ (rPc' = "insert" => incoming' # 0)
  BY DEF ReceiverInv, ReceiverTypeOK, EmptyOnlyAfterClear, receiverVars
<1>2. ASSUME NEW b \in Seq(Half)
      PROVE  /\ conn' = conn /\ dead' = dead
             /\ sock' = "open" => sock = "open"
             /\ sock' = "open" /\ WholeLines(b \o wire) => WholeLines(b \o wire')
             /\ sock' = "open" => /\ LogsOn(b \o wire) \subseteq LogsOn(b \o wire')
                                 /\ Sent' \subseteq Sent \union LogsOn(b \o wire')
  BY NodeAdds DEF WholeLines
<1>3. ReceiverFlow'
  BY <1>0, <1>2 DEF ReceiverInv, ReceiverFlow
<1> QED
  BY <1>1, <1>3 DEF ReceiverInv

-----------------------------------------------------------------------------
(* Order in a stream                                                       *)

IsLog(m) == m \in 1..MaxLogs

\* Where a comes before b: logs do not come back to a smaller one, and a number
\* that comes again, an error excepted, is that of the two halves of a message.
Rel(a, b) ==
    /\ a[1] = b[1] /\ a[1] # Failure => a[2] = 1 /\ b[2] = 2
    /\ IsLog(a[1]) /\ IsLog(b[1]) => a[1] <= b[1]

Ordered(s) == \A i, j \in 1..Len(s) : i < j => Rel(s[i], s[j])

NoReply(s) == \A h \in Range(s) : h[1] # Reply

LEMMA RangeOfConcat ==
    ASSUME NEW s \in Seq(Half), NEW t \in Seq(Half)
    PROVE  Range(s \o t) = Range(s) \union Range(t)
  BY RangeConcatenation

LEMMA RangeIs ==
    ASSUME NEW s \in Seq(Half)
    PROVE  /\ Range(s) = {s[i] : i \in 1..Len(s)}
           /\ Range(s) \subseteq Half
  BY DEF Range

LEMMA RangeOfWhole ==
    ASSUME NEW m \in Failure..MaxLogs
    PROVE  Range(Whole(m)) = {<<m, 1>>, <<m, 2>>}
<1>1. /\ Whole(m) \in Seq(Half) /\ Len(Whole(m)) = 2
      /\ Whole(m)[1] = <<m, 1>> /\ Whole(m)[2] = <<m, 2>>
  BY WholeType
<1>2. \A i \in 1..2 : i = 1 \/ i = 2
  OBVIOUS
<1> QED
  BY <1>1, <1>2, RangeIs

LEMMA OrderedConcat ==
    ASSUME NEW s \in Seq(Half), NEW t \in Seq(Half)
    PROVE  Ordered(s \o t) <=> Ordered(s) /\ Ordered(t) /\ \A a \in Range(s), b \in Range(t) : Rel(a, b)
<1> DEFINE u == s \o t
           n == Len(s)
           k == Len(t)
<1>1. /\ u \in Seq(Half) /\ Len(u) = n + k /\ n \in Nat /\ k \in Nat
      /\ \A i \in 1..(n + k) : u[i] = IF i <= n THEN s[i] ELSE t[i - n]
  BY ConcatProperties
<1>2. Range(s) = {s[i] : i \in 1..n} /\ Range(t) = {t[i] : i \in 1..k}
  BY RangeIs
<1> HIDE DEF u, n, k
<1>3. /\ \A i \in 1..n : u[i] = s[i] /\ i \in 1..(n + k)
      /\ \A i \in 1..k : u[n + i] = t[i] /\ n + i \in 1..(n + k)
      /\ \A i \in 1..(n + k) : i \in 1..n \/ (i > n /\ i - n \in 1..k /\ u[i] = t[i - n])
  BY <1>1
<1>4. ASSUME Ordered(u) PROVE Ordered(s) /\ Ordered(t) /\ \A a \in Range(s), b \in Range(t) : Rel(a, b)
  <2>1. \A i, j \in 1..(n + k) : i < j => Rel(u[i], u[j])
    BY <1>1, <1>4 DEF Ordered
  <2>2. Ordered(s)
    BY <1>3, <2>1 DEF Ordered, n
  <2>3. ASSUME NEW i \in 1..k, NEW j \in 1..k, i < j PROVE Rel(t[i], t[j])
    <3>1. n + i < n + j
      BY <1>1, <2>3
    <3> QED
      BY <1>3, <2>1, <3>1
  <2>4. ASSUME NEW i \in 1..n, NEW j \in 1..k PROVE Rel(s[i], t[j])
    <3>1. i < n + j
      BY <1>1
    <3> QED
      BY <1>3, <2>1, <3>1
  <2> QED
    BY <1>2, <2>2, <2>3, <2>4 DEF Ordered, k
<1>5. ASSUME Ordered(s), Ordered(t), \A a \in Range(s), b \in Range(t) : Rel(a, b) PROVE Ordered(u)
  <2>1. /\ \A i, j \in 1..n : i < j => Rel(s[i], s[j])
        /\ \A i, j \in 1..k : i < j => Rel(t[i], t[j])
        /\ \A i \in 1..n, j \in 1..k : Rel(s[i], t[j])
    BY <1>2, <1>5 DEF Ordered, n, k
  <2>2. ASSUME NEW i \in 1..(n + k), NEW j \in 1..(n + k), i < j PROVE Rel(u[i], u[j])
    <3>1. CASE j \in 1..n
      <4>1. i \in 1..n
        BY <1>1, <2>2, <3>1
      <4> QED
        BY <1>3, <2>1, <2>2, <3>1, <4>1
    <3>2. CASE i \in 1..n /\ ~ (j \in 1..n)
      BY <1>3, <2>1, <3>2
    <3>3. CASE ~ (i \in 1..n) /\ ~ (j \in 1..n)
      <4>1. i - n \in 1..k /\ j - n \in 1..k /\ i - n < j - n
        BY <1>1, <1>3, <2>2, <3>3
      <4> QED
        BY <1>3, <2>1, <3>3, <4>1
    <3> QED
      BY <1>1, <2>2, <3>1, <3>2, <3>3
  <2> QED
    BY <1>1, <2>2 DEF Ordered
<1> QED
  BY <1>4, <1>5 DEF u

LEMMA OrderedWhole ==
    ASSUME NEW m \in Failure..MaxLogs
    PROVE  Ordered(Whole(m))
<1>1. Len(Whole(m)) = 2 /\ Whole(m)[1] = <<m, 1>> /\ Whole(m)[2] = <<m, 2>>
  BY WholeType
<1>2. \A i, j \in 1..2 : i < j => i = 1 /\ j = 2
  OBVIOUS
<1>3. Rel(<<m, 1>>, <<m, 2>>)
  BY DEF Rel, IsLog
<1> QED
  BY <1>1, <1>2, <1>3 DEF Ordered

LEMMA FrontConcat ==
    ASSUME NEW w \in Seq(Half), w # <<>>
    PROVE  Front(w) \in Seq(Half) /\ \E l \in Seq(Half) : w = Front(w) \o l
<1>1. Len(w) \in Nat /\ Len(w) # 0
  BY EmptySeq
<1>2. 1 \in 1..(Len(w) + 1) /\ Len(w) - 1 \in 0..Len(w) /\ Len(w) \in (Len(w) - 1)..Len(w)
  BY <1>1
<1> DEFINE k == Len(w) - 1
<1>3. SubSeq(w, 1, k) \o SubSeq(w, k + 1, Len(w)) = SubSeq(w, 1, Len(w))
  <2>1. 1 \in 1..(Len(w) + 1) /\ k \in (1 - 1)..Len(w) /\ Len(w) \in k..Len(w)
    BY <1>2
  <2> HIDE DEF k
  <2> QED
    BY <2>1, ConcatAdjacentSubSeq, Zenon
<1>4. SubSeq(w, 1, k) \in Seq(Half) /\ SubSeq(w, k + 1, Len(w)) \in Seq(Half)
  <2>1. k \in 0..Len(w)
    BY <1>2
  <2> HIDE DEF k
  <2> QED
    BY <2>1
<1>5. SubSeq(w, 1, Len(w)) = w
  BY SubSeqFull
<1> QED
  BY <1>3, <1>4, <1>5 DEF Front

\* What comes after the first line.
LEMMA OrderAfterLine ==
    ASSUME NEW s \in Seq(Half), HasLine(s), Ordered(s)
    PROVE  Ordered(After(s)) /\ Range(After(s)) \subseteq Range(s)
<1>1. Line(s) \in Seq(Half) /\ After(s) \in Seq(Half) /\ Line(s) \o After(s) = s
  BY LineParts
<1>2. Range(Line(s) \o After(s)) = Range(Line(s)) \union Range(After(s))
  BY <1>1, RangeOfConcat, Zenon
<1>3. Ordered(Line(s) \o After(s)) => Ordered(After(s))
  BY <1>1, OrderedConcat, Zenon
<1> QED
  BY <1>1, <1>2, <1>3, Zenon

\* Where a message is the first line, its number does not come again.
LEMMA OrderAfterWhole ==
    ASSUME NEW s \in Seq(Half), HasLine(s), Ordered(s), Parsed(Line(s)) \notin {Failure, Garbled}
    PROVE  /\ \E h \in Range(s) : h[1] = Parsed(Line(s))
           /\ \A h \in Range(After(s)) : h[1] # Parsed(Line(s))
           /\ IsLog(Parsed(Line(s))) => \A h \in Range(After(s)) : IsLog(h[1]) => Parsed(Line(s)) < h[1]
<1> DEFINE m == Parsed(Line(s))
<1>1. m \in Failure..MaxLogs /\ Line(s) = Whole(m)
  BY ParsedLine
<1>2. Line(s) \in Seq(Half) /\ After(s) \in Seq(Half) /\ Line(s) \o After(s) = s
  BY LineParts
<1>3. Range(Line(s)) = {<<m, 1>>, <<m, 2>>}
  BY <1>1, RangeOfWhole
<1>4. \A h \in Range(After(s)) : Rel(<<m, 2>>, h)
  BY <1>2, <1>3, OrderedConcat
<1>5. <<m, 2>> \in Range(s)
  <2>1. Range(Line(s) \o After(s)) = Range(Line(s)) \union Range(After(s))
    BY <1>2, RangeOfConcat, Zenon
  <2>2. <<m, 2>> \in Range(Line(s))
    BY <1>3
  <2> QED
    BY <1>2, <2>1, <2>2, Zenon
<1>6. ASSUME NEW h \in Range(After(s)) PROVE h[1] # m /\ (IsLog(m) /\ IsLog(h[1]) => m < h[1])
  <2>1. h[1] # m
    BY <1>4, <1>6 DEF Rel
  <2>2. IsLog(m) /\ IsLog(h[1]) => m <= h[1]
    BY <1>4, <1>6 DEF Rel
  <2>3. IsLog(m) /\ IsLog(h[1]) => m \in Nat /\ h[1] \in Nat
    BY StreamAssumption DEF IsLog
  <2> HIDE DEF m
  <2> QED
    BY <2>1, <2>2, <2>3
<1> QED
  BY <1>5, <1>6

-----------------------------------------------------------------------------
(* A line that the previous connection left unfinished                     *)

\* Whole messages follow a torn one, none of whose logs is in S.
Glued(s, S) ==
    \E t, f \in Seq(Half) :
        s = t \o f /\ t # <<>> /\ ~ HasLine(t) /\ WholeLines(f) /\ LogsOn(t) \intersect S = {}

LEMMA WholeConcat ==
    ASSUME NEW s \in Seq(Half), NEW t \in Seq(Half), WholeLines(s), WholeLines(t)
    PROVE  WholeLines(s \o t)
  BY WholeThenFramed DEF WholeLines

LEMMA GluedConcat ==
    ASSUME NEW s \in Seq(Half), NEW w \in Seq(Half), NEW S, NEW T, Glued(s, S), WholeLines(w),
           LogsOn(s) \intersect (T \ S) = {}
    PROVE  Glued(s \o w, T)
<1>1. PICK t \in Seq(Half), f \in Seq(Half) :
         s = t \o f /\ t # <<>> /\ ~ HasLine(t) /\ WholeLines(f) /\ LogsOn(t) \intersect S = {}
  BY DEF Glued
<1>2. (t \o f) \o w = t \o (f \o w)
  BY HalvesAssociative, Zenon
<1>3. f \o w \in Seq(Half) /\ WholeLines(f \o w)
  BY <1>1, WholeConcat, ConcatProperties
<1>4. LogsOn(s) = LogsOn(t) \union LogsOn(f)
  BY <1>1, LogsOfConcat, Zenon
<1>5. LogsOn(t) \intersect T = {}
  BY <1>1, <1>4
<1>6. s \o w = t \o (f \o w)
  BY <1>1, <1>2, Zenon
<1> QED
  BY <1>1, <1>3, <1>5, <1>6, Zenon DEF Glued

\* The torn message spoils the line of the next one, and no other.
LEMMA GluedLine ==
    ASSUME NEW s \in Seq(Half), NEW S, Glued(s, S), HasLine(s)
    PROVE  /\ Parsed(Line(s)) = Garbled
           /\ WholeLines(After(s))
           /\ \E m \in Failure..MaxLogs :
                 LogsOn(s) \intersect S \subseteq ({m} \ {Reply, Failure}) \union LogsOn(After(s))
<1>1. PICK t \in Seq(Half), f \in Seq(Half) :
         s = t \o f /\ t # <<>> /\ ~ HasLine(t) /\ WholeLines(f) /\ LogsOn(t) \intersect S = {}
  BY DEF Glued
<1> DEFINE n == Len(t)
           k == Len(f)
<1>2. /\ n \in Nat /\ n # 0 /\ k \in Nat /\ Len(s) = n + k
      /\ \A i \in 1..(n + k) : s[i] = IF i <= n THEN t[i] ELSE f[i - n]
      /\ DOMAIN s = 1..(n + k) /\ DOMAIN t = 1..n /\ DOMAIN f = 1..k
  <2>1. Len(t) \in Nat /\ Len(t) # 0 /\ Len(f) \in Nat
    BY <1>1, EmptySeq
  <2>2. /\ Len(t \o f) = Len(t) + Len(f)
        /\ \A i \in 1..(Len(t) + Len(f)) : (t \o f)[i] = IF i <= Len(t) THEN t[i] ELSE f[i - Len(t)]
    BY ConcatProperties
  <2>3. DOMAIN s = 1..Len(s) /\ DOMAIN t = 1..Len(t) /\ DOMAIN f = 1..Len(f)
    OBVIOUS
  <2> QED
    BY <1>1, <2>1, <2>2, <2>3
<1> HIDE DEF n, k
<1>3. HasLine(f)
  <2>1. PICK i \in 1..(n + k) : s[i][2] = 2
    BY <1>2 DEF HasLine
  <2>2. i > n
    <3>1. ASSUME i <= n PROVE FALSE
      <4>1. i \in 1..n /\ t[i] = s[i]
        BY <1>2, <2>1, <3>1
      <4>2. \E j \in DOMAIN t : t[j][2] = 2
        BY <1>2, <2>1, <4>1
      <4> QED
        BY <1>1, <4>2 DEF HasLine
    <3> QED
      BY <1>2, <2>1, <3>1
  <2>3. i - n \in 1..k /\ f[i - n][2] = 2
    BY <1>2, <2>1, <2>2
  <2> QED
    BY <1>2, <2>3 DEF HasLine
<1>4. LineEnd(f) = 2 /\ Parsed(Line(f)) \in Failure..MaxLogs /\ WholeLines(After(f))
  BY <1>1, <1>3, FramedLine DEF WholeLines
<1>5. LineEnd(f) \in 1..k /\ f[LineEnd(f)][2] = 2 /\ \A j \in 1..(LineEnd(f) - 1) : f[j][2] # 2
  BY <1>3, FirstLine DEF k
<1>6. LineEnd(s) = n + 2
  <2>1. n + 2 \in 1..Len(s) /\ s[n + 2] = f[2]
    <3>1. 2 \in 1..k
      BY <1>4, <1>5
    <3>2. n + 2 \in 1..(n + k) /\ ~ (n + 2 <= n) /\ (n + 2) - n = 2
      BY <1>2, <3>1
    <3> QED
      BY <1>2, <3>2
  <2>2. ASSUME NEW j \in 1..((n + 2) - 1) PROVE s[j][2] # 2
    <3>1. CASE j <= n
      <4>1. j \in 1..n /\ s[j] = t[j]
        BY <1>2, <3>1
      <4> QED
        BY <1>1, <1>2, <4>1 DEF HasLine
    <3>2. CASE ~ (j <= n)
      <4>1. j = n + 1
        BY <1>2, <3>2
      <4>2. n + 1 \in 1..(n + k) /\ ~ (n + 1 <= n) /\ (n + 1) - n = 1
        BY <1>2, <1>4, <1>5
      <4>3. s[j] = f[1]
        BY <1>2, <4>1, <4>2
      <4>4. f[1][2] # 2
        BY <1>4, <1>5
      <4> QED
        BY <4>3, <4>4
    <3> QED
      BY <3>1, <3>2
  <2>3. s[n + 2][2] = 2
    BY <1>4, <1>5, <2>1
  <2> QED
    BY <2>1, <2>2, <2>3, LineEndIs
<1>7. Len(Line(s)) = n + 2
  BY <1>6, LineParts
<1>8. Parsed(Line(s)) = Garbled
  BY <1>2, <1>7 DEF Parsed
<1>9. After(s) = After(f)
  <2>1. /\ After(s) \in Seq(Half) /\ Len(After(s)) = Len(s) - LineEnd(s)
        /\ \A i \in 1..(Len(s) - LineEnd(s)) : After(s)[i] = s[LineEnd(s) + i]
    BY LineParts
  <2>2. /\ After(f) \in Seq(Half) /\ Len(After(f)) = k - 2
        /\ \A i \in 1..(k - 2) : After(f)[i] = f[2 + i]
    <3>1. /\ After(f) \in Seq(Half) /\ Len(After(f)) = Len(f) - LineEnd(f)
          /\ \A i \in 1..(Len(f) - LineEnd(f)) : After(f)[i] = f[LineEnd(f) + i]
      BY <1>3, LineParts
    <3> QED
      BY <1>4, <3>1 DEF k
  <2>3. Len(After(s)) = k - 2 /\ \A i \in 1..(k - 2) : After(s)[i] = s[n + 2 + i]
    BY <1>2, <1>6, <2>1
  <2>4. \A i \in 1..(k - 2) : n + 2 + i \in 1..(n + k) /\ ~ (n + 2 + i <= n) /\ (n + 2 + i) - n = 2 + i
    BY <1>2
  <2>5. \A i \in 1..(k - 2) : s[n + 2 + i] = f[2 + i]
    BY <1>2, <2>4
  <2>6. \A i \in 1..Len(After(s)) : After(s)[i] = After(f)[i]
    BY <2>2, <2>3, <2>5
  <2> QED
    BY <2>1, <2>2, <2>3, <2>6, SeqEqual
<1>10. LogsOn(s) = LogsOn(t) \union LogsOn(f)
  BY <1>1, LogsOfConcat, Zenon
<1>11. LogsOn(f) = ({Parsed(Line(f))} \ {Reply, Failure}) \union LogsOn(After(f))
  <2>1. Line(f) \in Seq(Half) /\ After(f) \in Seq(Half) /\ Line(f) \o After(f) = f
    BY <1>3, LineParts
  <2>2. LogsOn(Line(f) \o After(f)) = LogsOn(Line(f)) \union LogsOn(After(f))
    BY <2>1, LogsOfConcat, Zenon
  <2>3. Line(f) = Whole(Parsed(Line(f)))
    BY <1>3, <1>4, ParsedLine DEF Garbled, Failure
  <2>4. LogsOn(Whole(Parsed(Line(f)))) = {Parsed(Line(f))} \ {Reply, Failure}
    BY <1>4, LogsOfWhole, Zenon
  <2> QED
    BY <2>1, <2>2, <2>3, <2>4, Zenon
<1>12. LogsOn(s) \intersect S \subseteq ({Parsed(Line(f))} \ {Reply, Failure}) \union LogsOn(After(s))
  BY <1>1, <1>9, <1>10, <1>11
<1> QED
  BY <1>4, <1>8, <1>9, <1>12

-----------------------------------------------------------------------------
(* The event listener                                                      *)

\* What the setup still has to read, and all that is still to be handled.
Pending   == setupBuf \o wire
LogStream == buf \o Pending
Kept      == LogsOn(LogStream) \union Range(handled)

EventPhases ==
    /\ ePc \in {"connect", "main"} => setupBuf = <<>>
    /\ ePc = "connect" => sock = "closed" /\ wire = <<>> /\ ~ HasLine(buf)
    /\ burst => ePc = "read"
    /\ asked # 0 => ePc = "read" /\ ~ burst
    /\ ePc = "request" \/ (ePc = "read" /\ ~ burst) => made < Events

\* A reply is on its way only where the setup waits for one.
EventReplies == (ePc = "read" /\ ~ burst /\ asked = 0) \/ NoReply(LogStream)

\* What is handled, what is to be handled and what will be emitted follow.
EventOrder ==
    /\ ~ burst => /\ Ordered(LogStream)
                  /\ \A h \in Range(LogStream) : h[1] <= emitted
                  /\ \A n \in Range(handled), h \in Range(LogStream) : IsLog(h[1]) => n < h[1]
    /\ \A n \in Range(handled) : n <= emitted

\* Whole messages are on their way, behind the one that was torn if any.
EventFrames ==
    /\ ~ burst /\ ePc \in {"request", "read", "leftover"} =>
          /\ Framed(Pending) /\ (sock = "open" => WholeLines(Pending))
          /\ IF torn THEN Glued(buf, Sent) ELSE WholeLines(buf)
    /\ ePc = "main" /\ sock = "open" => WholeLines(LogStream) \/ (torn /\ Glued(LogStream, Sent))

\* No log of this connection is missing, but one after a torn message.
EventAccount ==
    sock = "open" =>
        \/ Sent \subseteq Kept
        \/ /\ torn /\ ePc = "main" /\ WholeLines(LogStream)
           /\ \E m \in 1..MaxLogs : Sent \subseteq Kept \union {m}

\* A log whose end is still to be handled was sent in this connection.
EventOwn == ~ burst => \A h \in Range(LogStream) : h[2] = 2 /\ IsLog(h[1]) => Known(h[1])

EventFlow == EventPhases /\ EventReplies /\ EventOrder /\ EventOwn /\ EventFrames /\ EventAccount

EventInv ==
    /\ EventTypeOK
    /\ HandledInOrder
    /\ DeathExplained
    /\ ePc # "off" /\ ~ dead => EventFlow

LEMMA StreamParts ==
    ASSUME buf \in Seq(Half), setupBuf \in Seq(Half), wire \in Seq(Half)
    PROVE  /\ Pending \in Seq(Half) /\ LogStream \in Seq(Half)
           /\ Range(Pending) = Range(setupBuf) \union Range(wire)
           /\ Range(LogStream) = Range(buf) \union Range(setupBuf) \union Range(wire)
           /\ LogsOn(LogStream) = LogsOn(buf) \union LogsOn(setupBuf) \union LogsOn(wire)
           /\ setupBuf = <<>> => Pending = wire /\ LogStream = buf \o wire
<1>1. Pending \in Seq(Half) /\ LogStream \in Seq(Half)
  BY ConcatProperties DEF Pending, LogStream
<1>2. Range(Pending) = Range(setupBuf) \union Range(wire) /\ Range(LogStream) = Range(buf) \union Range(Pending)
  BY <1>1, RangeOfConcat, Zenon DEF Pending, LogStream
<1>3. LogsOn(Pending) = LogsOn(setupBuf) \union LogsOn(wire) /\ LogsOn(LogStream) = LogsOn(buf) \union LogsOn(Pending)
  BY <1>1, LogsOfConcat, Zenon DEF Pending, LogStream
<1>4. <<>> \o wire = wire
  BY ConcatEmptySeq
<1> QED
  BY <1>1, <1>2, <1>3, <1>4 DEF Pending, LogStream

\* Trimming changes no number.
LEMMA TrimmedIs ==
    ASSUME NEW s \in Seq(Half)
    PROVE  /\ Trimmed(s) \in Seq(Half) /\ Len(Trimmed(s)) = Len(s)
           /\ \A i \in 1..Len(s) : Trimmed(s)[i][1] = s[i][1]
           /\ LogsOn(Trimmed(s)) = LogsOn(s)
           /\ \A h \in Range(Trimmed(s)) : \E g \in Range(s) : g[1] = h[1]
<1>1. /\ Trimmed(s) \in Seq(Half) /\ Len(Trimmed(s)) = Len(s)
      /\ \A i \in 1..Len(s) : Trimmed(s)[i][1] = s[i][1]
  <2>1. CASE s # <<>> /\ Last(s)[2] = 2
    <3> DEFINE k == Len(s)
               l == [s[k] EXCEPT ![2] = 3]
    <3>1. k \in 1..Len(s) /\ Trimmed(s) = [s EXCEPT ![k] = l]
      BY <2>1, EmptySeq DEF Trimmed, Last
    <3>2. s[k] \in Half
      BY <3>1, ElementOfSeq
    <3>3. l \in Half /\ l[1] = s[k][1]
      BY <3>2 DEF Half
    <3> HIDE DEF l, k
    <3>4. /\ [s EXCEPT ![k] = l] \in Seq(Half) /\ Len([s EXCEPT ![k] = l]) = Len(s)
          /\ \A i \in 1..Len(s) : [s EXCEPT ![k] = l][i] = IF i = k THEN l ELSE s[i]
      BY <3>1, <3>3, ExceptSeq
    <3> QED
      BY <3>1, <3>3, <3>4
  <2>2. CASE ~ (s # <<>> /\ Last(s)[2] = 2)
    BY <2>2 DEF Trimmed
  <2> QED
    BY <2>1, <2>2
<1>2. DOMAIN s = 1..Len(s) /\ DOMAIN Trimmed(s) = 1..Len(s)
  BY <1>1
<1>3. LogsOn(Trimmed(s)) = LogsOn(s)
  BY <1>1, <1>2 DEF LogsOn
<1>4. \A h \in Range(Trimmed(s)) : \E g \in Range(s) : g[1] = h[1]
  BY <1>1, <1>2 DEF Range
<1> QED
  BY <1>1, <1>3, <1>4

\* A message that the setup has read is the next one of all.
LEMMA SetupLine ==
    ASSUME buf \in Seq(Half), setupBuf \in Seq(Half), wire \in Seq(Half), HasLine(setupBuf)
    PROVE  /\ HasLine(Pending) /\ Line(Pending) = Line(setupBuf)
           /\ After(Pending) = After(setupBuf) \o wire
           /\ After(setupBuf) \in Seq(Half)
           /\ Range(After(setupBuf)) \subseteq Range(setupBuf)
           /\ Parsed(Line(setupBuf)) # Garbled =>
                 /\ Parsed(Line(setupBuf)) \in Failure..MaxLogs
                 /\ Line(setupBuf) = Whole(Parsed(Line(setupBuf)))
                 /\ <<Parsed(Line(setupBuf)), 1>> \in Range(LogStream)
                 /\ LogsOn(setupBuf) = ({Parsed(Line(setupBuf))} \ {Reply, Failure}) \union LogsOn(After(setupBuf))
<1> DEFINE m == Parsed(Line(setupBuf))
<1>1. HasLine(Pending) /\ Line(Pending) = Line(setupBuf) /\ After(Pending) = After(setupBuf) \o wire
  BY LineOfConcat DEF Pending
<1>2. Line(setupBuf) \in Seq(Half) /\ After(setupBuf) \in Seq(Half) /\ Line(setupBuf) \o After(setupBuf) = setupBuf
  BY LineParts
<1>3. Range(Line(setupBuf) \o After(setupBuf)) = Range(Line(setupBuf)) \union Range(After(setupBuf))
  BY <1>2, RangeOfConcat, Zenon
<1>4. LogsOn(Line(setupBuf) \o After(setupBuf)) = LogsOn(Line(setupBuf)) \union LogsOn(After(setupBuf))
  BY <1>2, LogsOfConcat, Zenon
<1>5. Range(LogStream) = Range(buf) \union Range(setupBuf) \union Range(wire)
  BY StreamParts
<1>6. ASSUME m # Garbled
      PROVE  /\ m \in Failure..MaxLogs /\ Line(setupBuf) = Whole(m)
             /\ <<m, 1>> \in Range(LogStream)
             /\ LogsOn(setupBuf) = ({m} \ {Reply, Failure}) \union LogsOn(After(setupBuf))
  <2>1. m \in Failure..MaxLogs /\ Line(setupBuf) = Whole(m)
    BY <1>6, ParsedLine
  <2> HIDE DEF m
  <2>2. Range(Whole(m)) = {<<m, 1>>, <<m, 2>>} /\ LogsOn(Whole(m)) = {m} \ {Reply, Failure}
    BY <2>1, RangeOfWhole, LogsOfWhole
  <2>3. <<m, 1>> \in Range(Whole(m))
    BY <2>2
  <2>4. Range(setupBuf) = Range(Whole(m)) \union Range(After(setupBuf))
    BY <1>2, <1>3, <2>1, Zenon
  <2>5. <<m, 1>> \in Range(LogStream)
    BY <1>5, <2>3, <2>4, Zenon
  <2>6. LogsOn(setupBuf) = LogsOn(Whole(m)) \union LogsOn(After(setupBuf))
    BY <1>2, <1>4, <2>1, Zenon
  <2> QED
    BY <2>1, <2>2, <2>5, <2>6, Zenon
<1>7. Range(After(setupBuf)) \subseteq Range(setupBuf)
  BY <1>2, <1>3, Zenon
<1> QED
  BY <1>1, <1>2, <1>6, <1>7, Zenon

\* A log that is kept for later stays in its place.
LEMMA KeptForLater ==
    ASSUME buf \in Seq(Half), setupBuf \in Seq(Half), wire \in Seq(Half), HasLine(setupBuf),
           Parsed(Line(setupBuf)) # Garbled
    PROVE  (buf \o Whole(Parsed(Line(setupBuf)))) \o (After(setupBuf) \o wire) = LogStream
<1> DEFINE l == Line(setupBuf)
           r == After(setupBuf)
<1>1. l \in Seq(Half) /\ r \in Seq(Half) /\ l \o r = setupBuf
  BY LineParts
<1>2. l = Whole(Parsed(l))
  BY SetupLine
<1> HIDE DEF l, r
<1>3. r \o wire \in Seq(Half)
  BY <1>1
<1>4. (buf \o l) \o (r \o wire) = buf \o (l \o (r \o wire))
  <2>1. \A p, q \in Seq(Half) : (buf \o p) \o q = buf \o (p \o q)
    BY HalvesAssociative, Zenon
  <2> QED
    BY <1>1, <1>3, <2>1, Zenon
<1>5. (l \o r) \o wire = l \o (r \o wire)
  <2>1. \A q \in Seq(Half) : (l \o r) \o q = l \o (r \o q)
    BY <1>1, HalvesAssociative, Zenon
  <2> QED
    BY <2>1, Zenon
<1>6. LogStream = buf \o (l \o (r \o wire))
  BY <1>1, <1>5 DEF LogStream, Pending
<1>7. (buf \o Whole(Parsed(l))) \o (r \o wire) = (buf \o l) \o (r \o wire)
  BY <1>2, Zenon
<1> QED
  BY <1>4, <1>6, <1>7, Zenon DEF l, r

SetupReplied == SetupParse /\ Parsed(Line(setupBuf)) = Reply
SetupLogged  == SetupParse /\ Parsed(Line(setupBuf)) \in 1..MaxLogs

\* What the type invariants say of the buffers.
LEMMA EventBuffers ==
    ASSUME StreamTypeOK, EventTypeOK
    PROVE  /\ buf \in Seq(Half) /\ setupBuf \in Seq(Half) /\ wire \in Seq(Half)
           /\ handled \in Seq(1..MaxLogs) /\ <<>> \in Seq(Half)
  BY DEF StreamTypeOK, EventTypeOK

\* A reply is parsed only where one was asked for and has come.
LEMMA RepliedWhen ==
    ASSUME StreamTypeOK, EventInv, ePc # "off", ~ dead, SetupReplied
    PROVE  ePc = "read" /\ ~ burst /\ asked = 0 /\ made < Events
<1>1. /\ buf \in Seq(Half) /\ setupBuf \in Seq(Half) /\ wire \in Seq(Half)
      /\ HasLine(setupBuf) /\ Parsed(Line(setupBuf)) = Reply
  BY EventBuffers DEF EventInv, SetupReplied, SetupParse
<1>2. Parsed(Line(setupBuf)) # Garbled
  BY <1>1 DEF Reply, Garbled
<1>3. <<Reply, 1>> \in Range(LogStream)
  BY <1>1, <1>2, SetupLine
<1>4. ~ NoReply(LogStream)
  BY <1>3 DEF NoReply
<1> QED
  BY <1>4 DEF EventInv, EventFlow, EventReplies, EventPhases

LEMMA EventTypeStep ==
    ASSUME StreamTypeOK, EventInv, ePc # "off", ~ dead, EventStep
    PROVE  StreamOp /\ EventTypeOK'
<1>1. /\ buf \in Seq(Half) /\ setupBuf \in Seq(Half) /\ wire \in Seq(Half)
      /\ handled \in Seq(1..MaxLogs) /\ <<>> \in Seq(Half)
  BY EventBuffers DEF EventInv
<1>2. Events \in Nat /\ Events # 0 /\ Topic = 1..Events /\ made \in 0..Events
  BY EventsAssumption DEF EventInv, EventTypeOK
<1>3. StreamOp
  <2>1. ASSUME SetupRequest PROVE StreamOp
    <3>1. made < Events
      BY <2>1 DEF SetupRequest, EventInv, EventFlow, EventPhases
    <3>2. made + 1 \in Topic
      BY <1>2, <3>1
    <3> QED
      BY <2>1, <3>2 DEF SetupRequest, StreamOp
  <2> QED
    BY <2>1 DEF EventStep, SetupConnect, SetupReceive, SetupParse, SetupLog, SetupFails, SetupDone, SetupLeftover,
       ListenerReceive, ListenerReconnects, ListenerHandles, ListenerDecodes, StreamOp
<1>4. made' \in 0..Events
  <2>1. CASE SetupReplied
    <3>1. made < Events
      BY <2>1, RepliedWhen
    <3>2. made' = made + 1
      BY <2>1 DEF SetupReplied, SetupParse, SetupLog, SetupFails, Reply, Failure, Garbled
    <3> QED
      BY <1>2, <3>1, <3>2
  <2>2. CASE ~ SetupReplied
    <3>1. made' \in {made, 0}
      BY <2>2 DEF SetupReplied, EventStep, SetupConnect, SetupRequest, SetupReceive, SetupParse, SetupLog, SetupFails, SetupDone,
         SetupLeftover, ListenerReceive, ListenerReconnects, ListenerHandles
    <3> QED
      BY <1>2, <3>1
  <2> QED
    BY <2>1, <2>2
<1>5. /\ ePc' \in {"off", "connect", "request", "read", "leftover", "main"}
      /\ troubled' \in BOOLEAN /\ burst' \in BOOLEAN /\ torn' \in BOOLEAN /\ undecoded' \in BOOLEAN
  <2>1. /\ ePc \in {"off", "connect", "request", "read", "leftover", "main"}
        /\ troubled \in BOOLEAN /\ burst \in BOOLEAN /\ torn \in BOOLEAN /\ undecoded \in BOOLEAN
    BY DEF EventInv, EventTypeOK
  <2>2. ePc' \in {"off", "connect", "request", "read", "leftover", "main"}
    BY <2>1 DEF EventStep, SetupConnect, SetupRequest, SetupReceive, SetupParse, SetupLog, SetupFails, SetupDone,
         SetupLeftover, ListenerReceive, ListenerReconnects, ListenerHandles
  <2>3. /\ burst' \in {burst, TRUE}
        /\ torn' = torn \/ torn' = (buf # <<>>)
        /\ troubled' = troubled \/ troubled' = TRUE \/ troubled' = (troubled \/ AtEnd)
           \/ \E m \in {Failure, Garbled} : troubled' = (troubled \/ m = Failure)
    BY DEF EventStep, SetupConnect, SetupRequest, SetupReceive, SetupParse, SetupLog, SetupFails, SetupDone,
         SetupLeftover, ListenerReceive, ListenerReconnects, ListenerHandles
  <2>4. undecoded' = undecoded \/ \E m : undecoded' = Known(m)
    BY DEF EventStep, SetupConnect, SetupRequest, SetupReceive, SetupParse, SetupDone,
         SetupLeftover, ListenerReceive, ListenerReconnects, ListenerHandles, ListenerDecodes
  <2>5. \A m : Known(m) \in BOOLEAN
    BY DEF Known
  <2> QED
    BY <2>1, <2>2, <2>3, <2>4, <2>5, Zenon
<1>6. setupBuf' \in Seq(Half) /\ buf' \in Seq(Half)
  <2>0. \A m \in 1..MaxLogs : Whole(m) \in Seq(Half)
    BY WholeType, StreamAssumption DEF Failure
  <2>1. \A m : SetupLog(m) \/ SetupFails(m) => buf' \in Seq(Half)
    <3>1. \A m : SetupLog(m) => buf' \in Seq(Half)
      BY <1>1, <2>0, ConcatProperties DEF SetupLog
    <3> QED
      BY <1>1, <3>1 DEF SetupFails
  <2>2. CASE SetupReceive
    BY <1>1, <2>2, ReadMoves DEF SetupReceive
  <2>3. CASE SetupParse
    <3>1. buf' \in Seq(Half)
      BY <1>1, <2>1, <2>3 DEF SetupParse
    <3>2. setupBuf' \in Seq(Half)
      BY <1>1, <2>3, LineParts DEF SetupParse
    <3> QED
      BY <3>1, <3>2
  <2>4. CASE SetupLeftover
    <3>1. buf' \in Seq(Half)
      BY <2>1, <2>4 DEF SetupLeftover
    <3>2. Trimmed(setupBuf) \in Seq(Half)
      BY <1>1, TrimmedIs
    <3>3. setupBuf' \in Seq(Half)
      BY <2>4, <3>2, LineParts DEF SetupLeftover
    <3> QED
      BY <3>1, <3>3
  <2>5. CASE ListenerReceive
    BY <1>1, <2>5, ReadMoves DEF ListenerReceive
  <2>6. CASE ListenerHandles
    BY <1>1, <2>6, LineParts DEF ListenerHandles
  <2>7. CASE SetupConnect \/ SetupRequest \/ SetupDone \/ ListenerReconnects
    <3>1. setupBuf' \in {setupBuf, <<>>} /\ buf' = buf
      BY <2>7 DEF SetupConnect, SetupRequest, SetupDone, ListenerReconnects
    <3> QED
      BY <1>1, <3>1
  <2> QED
    BY <2>2, <2>3, <2>4, <2>5, <2>6, <2>7 DEF EventStep
<1>7. handled' \in Seq(1..MaxLogs)
  <2>1. handled' = handled \/ \E m \in 1..MaxLogs : handled' = Append(handled, m)
    BY DEF EventStep, SetupConnect, SetupRequest, SetupReceive, SetupParse, SetupDone,
         SetupLeftover, ListenerReceive, ListenerReconnects, ListenerHandles, ListenerDecodes
  <2>2. \A m \in 1..MaxLogs : Append(handled, m) \in Seq(1..MaxLogs)
    BY <1>1
  <2> QED
    BY <1>1, <2>1, <2>2, Zenon
<1> QED
  BY <1>3, <1>4, <1>5, <1>6, <1>7 DEF EventTypeOK

\* Where the thread lives on, a log that it handles is decoded.
LEMMA LogDecoded ==
    ASSUME ListenerHandles, ~ dead'
    PROVE  LET m == Parsed(Line(buf))
           IN  /\ handled' = IF m \in 1..MaxLogs THEN Append(handled, m) ELSE handled
               /\ UNCHANGED <<streamVars, undecoded>>
  BY DEF ListenerHandles, ListenerDecodes, Dies

\* Nothing but a reply, a line handled and a leftover takes from the stream.
LEMMA StreamStays ==
    ASSUME StreamTypeOK, EventInv, ePc # "off", ~ dead, EventStep, ~ dead'
    PROVE  /\ UNCHANGED <<sentIn, emitted>>
           /\ SetupLeftover \/ UNCHANGED burst
           /\ \/ SetupReplied \/ SetupLeftover \/ ListenerHandles
              \/ LogStream' = LogStream /\ UNCHANGED handled
<1>0. /\ buf \in Seq(Half) /\ setupBuf \in Seq(Half) /\ wire \in Seq(Half)
  BY EventBuffers DEF EventInv
<1>1. UNCHANGED <<sentIn, emitted>> /\ (SetupLeftover \/ UNCHANGED burst)
  BY LogDecoded DEF EventStep, SetupConnect, Connect, Refused, SetupRequest, Request, Dies, SetupReceive, Receive, SetupParse,
     SetupLog, SetupFails, SetupDone, SetupLeftover, ListenerReceive, ListenerReconnects, Close, ListenerHandles, streamVars
<1>2. CASE SetupConnect
  <2>1. /\ wire = <<>> /\ setupBuf = <<>>
        /\ wire' = <<>> /\ setupBuf' = <<>> /\ buf' = buf /\ handled' = handled
    BY <1>2 DEF SetupConnect, Connect, Refused, EventInv, EventFlow, EventPhases
  <2> QED
    BY <1>1, <2>1 DEF LogStream, Pending
<1>3. CASE SetupRequest \/ SetupDone
  <2>1. UNCHANGED <<wire, setupBuf, buf, handled>>
    BY <1>3 DEF SetupRequest, Request, Dies, SetupDone, streamVars
  <2> QED
    BY <1>1, <2>1 DEF LogStream, Pending
<1>4. CASE SetupReceive
  <2>1. PICK n \in 1..Len(wire) : Receive(n) /\ setupBuf' = setupBuf \o SubSeq(wire, 1, n)
    BY <1>4 DEF SetupReceive, Dies
  <2>2. wire' = SubSeq(wire, n + 1, Len(wire)) /\ buf' = buf /\ handled' = handled
    BY <1>4, <2>1 DEF Receive, SetupReceive
  <2>3. setupBuf' \o wire' = setupBuf \o wire
    BY <1>0, <2>1, <2>2, ReadMoves
  <2> QED
    BY <1>1, <2>2, <2>3 DEF LogStream, Pending
<1>5. CASE SetupParse /\ ~ SetupReplied
  <2>1. /\ HasLine(setupBuf) /\ Parsed(Line(setupBuf)) \in 1..MaxLogs
        /\ buf' = buf \o Whole(Parsed(Line(setupBuf))) /\ setupBuf' = After(setupBuf)
        /\ wire' = wire /\ handled' = handled
    BY <1>5 DEF SetupParse, SetupReplied, SetupLog, SetupFails, Dies, streamVars
  <2>2. Parsed(Line(setupBuf)) # Garbled
    BY <2>1 DEF Garbled
  <2>3. (buf \o Whole(Parsed(Line(setupBuf)))) \o (After(setupBuf) \o wire) = LogStream
    BY <1>0, <2>1, <2>2, KeptForLater
  <2> QED
    BY <1>1, <2>1, <2>3, Zenon DEF LogStream, Pending
<1>6. CASE ListenerReceive
  <2>1. PICK n \in 1..Len(wire) : Receive(n) /\ buf' = buf \o SubSeq(wire, 1, n)
    BY <1>6 DEF ListenerReceive
  <2>2. wire' = SubSeq(wire, n + 1, Len(wire)) /\ setupBuf' = setupBuf /\ setupBuf = <<>> /\ handled' = handled
    BY <1>6, <2>1 DEF Receive, ListenerReceive, EventInv, EventFlow, EventPhases
  <2>3. buf' \o wire' = buf \o wire /\ wire' \in Seq(Half)
    BY <1>0, <2>1, <2>2, ReadMoves
  <2>4. \A w \in Seq(Half) : <<>> \o w = w
    BY ConcatEmptySeq
  <2>5. LogStream = buf \o wire /\ LogStream' = buf' \o wire'
    BY <1>0, <2>2, <2>3, <2>4 DEF LogStream, Pending
  <2> QED
    BY <1>1, <2>2, <2>3, <2>5
<1>7. CASE ListenerReconnects
  <2>1. wire = <<>> /\ UNCHANGED <<buf, setupBuf, wire, handled>>
    BY <1>7 DEF ListenerReconnects, AtEnd, Close
  <2> QED
    BY <1>1, <2>1 DEF LogStream, Pending
<1> QED
  BY <1>1, <1>2, <1>3, <1>4, <1>5, <1>6, <1>7 DEF EventStep

\* What a reply, and what a line that is handled, takes from it.
LEMMA ReplyTaken ==
    ASSUME StreamTypeOK, EventInv, ePc # "off", ~ dead, SetupReplied
    PROVE  /\ Pending \in Seq(Half) /\ HasLine(Pending) /\ Parsed(Line(Pending)) = Reply
           /\ Pending' = After(Pending) /\ LogStream' = buf \o After(Pending)
           /\ LogsOn(LogStream') = LogsOn(LogStream)
           /\ UNCHANGED <<streamVars, buf, handled, burst, torn>>
<1>1. /\ buf \in Seq(Half) /\ setupBuf \in Seq(Half) /\ wire \in Seq(Half)
      /\ HasLine(setupBuf) /\ Parsed(Line(setupBuf)) = Reply /\ setupBuf' = After(setupBuf)
  BY EventBuffers DEF EventInv, SetupReplied, SetupParse
<1>2. UNCHANGED <<streamVars, buf, handled, burst, torn>>
  BY DEF SetupReplied, SetupParse, SetupLog, SetupFails, Reply, Failure, Garbled
<1>3. HasLine(Pending) /\ Line(Pending) = Line(setupBuf) /\ After(Pending) = After(setupBuf) \o wire
      /\ After(setupBuf) \in Seq(Half)
  BY <1>1, SetupLine
<1>4. wire' = wire /\ buf' = buf
  BY <1>2 DEF streamVars
<1>5. Pending' = After(Pending)
  BY <1>1, <1>3, <1>4 DEF Pending
<1>6. Parsed(Line(setupBuf)) # Garbled
  BY <1>1 DEF Reply, Garbled
<1>7. LogsOn(setupBuf) = ({Reply} \ {Reply, Failure}) \union LogsOn(After(setupBuf))
  BY <1>1, <1>6, SetupLine
<1>8. LogsOn(LogStream) = LogsOn(buf) \union LogsOn(setupBuf) \union LogsOn(wire)
  BY <1>1, StreamParts
<1>9. LogsOn(LogStream') = LogsOn(buf) \union LogsOn(After(setupBuf)) \union LogsOn(wire)
  <2>1. LogsOn(After(setupBuf) \o wire) = LogsOn(After(setupBuf)) \union LogsOn(wire)
        /\ After(setupBuf) \o wire \in Seq(Half)
    BY <1>1, <1>3, LogsOfConcat, ConcatProperties
  <2>2. LogsOn(buf \o (After(setupBuf) \o wire)) = LogsOn(buf) \union LogsOn(After(setupBuf) \o wire)
    BY <1>1, <2>1, LogsOfConcat, Zenon
  <2>3. LogStream' = buf \o (After(setupBuf) \o wire)
    BY <1>1, <1>4 DEF LogStream, Pending
  <2> QED
    BY <2>1, <2>2, <2>3
<1>10. Pending \in Seq(Half)
  BY <1>1, StreamParts
<1>11. LogStream' = buf \o After(Pending)
  BY <1>4, <1>5 DEF LogStream
<1>12. Parsed(Line(Pending)) = Reply
  BY <1>1, <1>3
<1>13. LogsOn(LogStream') = LogsOn(LogStream)
  BY <1>7, <1>8, <1>9
<1> QED
  BY <1>2, <1>3, <1>5, <1>10, <1>11, <1>12, <1>13

LEMMA LineTaken ==
    ASSUME StreamTypeOK, EventInv, ePc # "off", ~ dead, ListenerHandles, ~ dead'
    PROVE  /\ ePc = "main" /\ LogStream \in Seq(Half) /\ HasLine(LogStream)
           /\ LogStream' = After(LogStream)
           /\ UNCHANGED <<streamVars, ePc, burst, torn>>
           /\ LET m == Parsed(Line(LogStream))
              IN  handled' = IF m \in 1..MaxLogs THEN Append(handled, m) ELSE handled
<1>1. /\ buf \in Seq(Half) /\ setupBuf \in Seq(Half) /\ wire \in Seq(Half)
      /\ HasLine(buf) /\ buf' = After(buf) /\ ePc = "main" /\ setupBuf = <<>>
      /\ UNCHANGED <<streamVars, ePc, setupBuf, burst, torn>>
  BY EventBuffers, LogDecoded DEF EventInv, ListenerHandles, EventFlow, EventPhases
<1>2. LogStream = buf \o wire /\ LogStream \in Seq(Half)
  BY <1>1, StreamParts
<1>3. HasLine(LogStream) /\ Line(LogStream) = Line(buf) /\ After(LogStream) = After(buf) \o wire
  BY <1>1, <1>2, LineOfConcat
<1>4. LogStream' = After(buf) \o wire
  <2>1. <<>> \o wire = wire
    BY <1>1, ConcatEmptySeq
  <2>2. wire' = wire
    BY <1>1 DEF streamVars
  <2> QED
    BY <1>1, <2>1, <2>2 DEF LogStream, Pending
<1>5. handled' = IF Parsed(Line(buf)) \in 1..MaxLogs THEN Append(handled, Parsed(Line(buf))) ELSE handled
  BY LogDecoded
<1> QED
  BY <1>1, <1>2, <1>3, <1>4, <1>5

LEMMA PhasesStep ==
    ASSUME StreamTypeOK, EventInv, ePc # "off", ~ dead, EventStep, ~ dead'
    PROVE  EventPhases'
<1>0. EventPhases /\ asked \in Nat /\ made \in Nat /\ Events \in Nat /\ Events # 0
  BY EventsAssumption DEF EventInv, EventFlow, EventTypeOK, StreamTypeOK
<1>1. CASE SetupConnect
  BY <1>0, <1>1 DEF SetupConnect, Connect, Refused, EventPhases
<1>2. CASE SetupRequest
  BY <1>0, <1>2 DEF SetupRequest, Request, Dies, EventPhases
<1>3. CASE SetupReceive
  BY <1>0, <1>3 DEF SetupReceive, Receive, Dies, EventPhases
<1>4. CASE SetupReplied
  <2>1. ePc = "read" /\ ~ burst /\ asked = 0
    BY <1>4, RepliedWhen
  <2>2. /\ made' = made + 1 /\ ePc' = (IF made' < Events THEN "request" ELSE "leftover")
        /\ UNCHANGED <<asked, burst>>
    BY <1>4 DEF SetupReplied, SetupParse, SetupLog, SetupFails, Reply, Failure, Garbled, streamVars
  <2> QED
    BY <1>0, <2>1, <2>2 DEF EventPhases
<1>5. CASE SetupParse /\ ~ SetupReplied
  <2>1. ePc = "read" /\ ePc' = "read" /\ UNCHANGED <<asked, burst, made>>
    BY <1>5 DEF SetupParse, SetupReplied, SetupLog, SetupFails, Dies, streamVars
  <2> QED
    BY <1>0, <2>1 DEF EventPhases
<1>6. CASE SetupDone
  <2>1. setupBuf \in Seq(Half) /\ ePc = "leftover" /\ ePc' = "main" /\ Trimmed(setupBuf) = <<>>
        /\ UNCHANGED <<asked, burst, setupBuf>>
    BY <1>6 DEF SetupDone, streamVars, EventInv, EventTypeOK
  <2>2. setupBuf = <<>>
    BY <2>1, TrimmedIs, EmptySeq
  <2> QED
    BY <1>0, <2>1, <2>2 DEF EventPhases
<1>7. CASE SetupLeftover
  <2>1. ePc = "leftover" /\ ePc' = "read" /\ burst' = TRUE /\ asked' = asked
    BY <1>7 DEF SetupLeftover, SetupLog, SetupFails, Dies, streamVars
  <2> QED
    BY <1>0, <2>1 DEF EventPhases
<1>8. CASE ListenerReceive
  BY <1>0, <1>8 DEF ListenerReceive, Receive, EventPhases
<1>9. CASE ListenerReconnects
  BY <1>0, <1>9 DEF ListenerReconnects, Close, EventPhases
<1>10. CASE ListenerHandles
  BY <1>0, <1>10, LogDecoded DEF ListenerHandles, streamVars, EventPhases
<1> QED
  BY <1>1, <1>2, <1>3, <1>4, <1>5, <1>6, <1>7, <1>8, <1>9, <1>10 DEF EventStep

\* The parts of the stream are in order, and so is one without its first reply.
LEMMA OrderedParts ==
    ASSUME StreamTypeOK, EventInv, ePc # "off", ~ dead, ~ burst
    PROVE  /\ Ordered(buf) /\ Ordered(Pending) /\ \A a \in Range(buf), b \in Range(Pending) : Rel(a, b)
           /\ Range(LogStream) = Range(buf) \union Range(Pending)
<1>1. buf \in Seq(Half) /\ Pending \in Seq(Half) /\ Ordered(buf \o Pending)
  BY EventBuffers, StreamParts DEF EventInv, EventFlow, EventOrder, LogStream
<1>2. /\ Ordered(buf) /\ Ordered(Pending) /\ \A a \in Range(buf), b \in Range(Pending) : Rel(a, b)
  BY <1>1, OrderedConcat, Zenon
<1>3. Range(buf \o Pending) = Range(buf) \union Range(Pending)
  BY <1>1, RangeOfConcat, Zenon
<1> QED
  BY <1>2, <1>3 DEF LogStream

\* What follows the last reply stays, or is kept for later as well.
LEMMA LeftoverKept ==
    ASSUME StreamTypeOK, EventInv, ePc # "off", ~ dead, SetupLeftover, ~ dead'
    PROVE  /\ ePc = "leftover" /\ ePc' = "read" /\ burst'
           /\ UNCHANGED <<handled, sentIn, conn, sock>>
           /\ \A h \in Range(LogStream') : IsLog(h[1]) \/ \E g \in Range(LogStream) : g[1] = h[1]
           /\ LogsOn(LogStream) \subseteq LogsOn(LogStream')
<1>0. buf \in Seq(Half) /\ setupBuf \in Seq(Half) /\ wire \in Seq(Half)
  BY EventBuffers DEF EventInv
<1>1. /\ ePc = "leftover" /\ ePc' = "read" /\ burst'
      /\ UNCHANGED <<wire, handled, sentIn, conn, sock>>
  BY DEF SetupLeftover, SetupLog, SetupFails, Dies, streamVars
<1> DEFINE rest == Trimmed(setupBuf)
           line == IF HasLine(rest) THEN Line(rest) ELSE rest
           m == Parsed(line)
<1>2. m \in 1..MaxLogs /\ buf' = buf \o Whole(m) /\ setupBuf' = IF HasLine(rest) THEN After(rest) ELSE rest
  BY DEF SetupLeftover, SetupLog, SetupFails, Dies
<1>3. /\ rest \in Seq(Half) /\ \A h \in Range(rest) : \E g \in Range(setupBuf) : g[1] = h[1]
      /\ LogsOn(rest) = LogsOn(setupBuf)
  BY <1>0, TrimmedIs
<1>4. HasLine(rest) => line = Line(rest)
  OBVIOUS
<1> HIDE DEF rest, line
<1>5. m \in Failure..MaxLogs /\ m # Garbled
  BY <1>2, StreamAssumption DEF Failure, Garbled
<1>6. Whole(m) \in Seq(Half) /\ Range(Whole(m)) = {<<m, 1>>, <<m, 2>>}
  BY <1>5, WholeType, RangeOfWhole
<1>7. /\ setupBuf' \in Seq(Half) /\ Range(setupBuf') \subseteq Range(rest)
      /\ LogsOn(rest) \subseteq LogsOn(Whole(m)) \union LogsOn(setupBuf')
  <2>1. CASE HasLine(rest)
    <3>1. Line(rest) \in Seq(Half) /\ After(rest) \in Seq(Half) /\ Line(rest) \o After(rest) = rest
      BY <1>3, <2>1, LineParts
    <3>2. /\ Range(Line(rest) \o After(rest)) = Range(Line(rest)) \union Range(After(rest))
          /\ LogsOn(Line(rest) \o After(rest)) = LogsOn(Line(rest)) \union LogsOn(After(rest))
      BY <3>1, RangeOfConcat, LogsOfConcat, Zenon
    <3>3. Line(rest) = Whole(m)
      BY <1>3, <1>4, <1>5, <2>1, ParsedLine
    <3>4. setupBuf' = After(rest)
      BY <1>2, <2>1
    <3> QED
      BY <3>1, <3>2, <3>3, <3>4, Zenon
  <2>2. CASE ~ HasLine(rest)
    BY <1>2, <1>3, <2>2
  <2> QED
    BY <2>1, <2>2
<1> HIDE DEF m
<1>8. /\ buf' \in Seq(Half) /\ Range(buf') = Range(buf) \union Range(Whole(m))
      /\ LogsOn(buf') = LogsOn(buf) \union LogsOn(Whole(m))
  BY <1>0, <1>2, <1>6, RangeOfConcat, LogsOfConcat, ConcatProperties
<1>9. /\ Range(LogStream') = Range(buf') \union Range(setupBuf') \union Range(wire)
      /\ LogsOn(LogStream') = LogsOn(buf') \union LogsOn(setupBuf') \union LogsOn(wire)
  <2>1. /\ setupBuf' \o wire' \in Seq(Half)
        /\ Range(setupBuf' \o wire') = Range(setupBuf') \union Range(wire)
        /\ LogsOn(setupBuf' \o wire') = LogsOn(setupBuf') \union LogsOn(wire)
    BY <1>0, <1>1, <1>7, RangeOfConcat, LogsOfConcat, ConcatProperties
  <2>2. /\ Range(buf' \o (setupBuf' \o wire')) = Range(buf') \union Range(setupBuf' \o wire')
        /\ LogsOn(buf' \o (setupBuf' \o wire')) = LogsOn(buf') \union LogsOn(setupBuf' \o wire')
    BY <1>8, <2>1, RangeOfConcat, LogsOfConcat, Zenon
  <2> QED
    BY <2>1, <2>2 DEF LogStream, Pending
<1>10. /\ Range(LogStream) = Range(buf) \union Range(setupBuf) \union Range(wire)
       /\ LogsOn(LogStream) = LogsOn(buf) \union LogsOn(setupBuf) \union LogsOn(wire)
  BY <1>0, StreamParts
<1>11. \A h \in Range(LogStream') : IsLog(h[1]) \/ \E g \in Range(LogStream) : g[1] = h[1]
  <2>1. \A h \in Range(Whole(m)) : IsLog(h[1])
    BY <1>2, <1>6 DEF IsLog
  <2> QED
    BY <1>3, <1>7, <1>8, <1>9, <1>10, <2>1
<1>12. LogsOn(LogStream) \subseteq LogsOn(LogStream')
  BY <1>3, <1>7, <1>8, <1>9, <1>10
<1> QED
  BY <1>1, <1>11, <1>12

LEMMA AfterRange ==
    ASSUME NEW s \in Seq(Half), HasLine(s)
    PROVE  Range(After(s)) \subseteq Range(s)
<1>1. Line(s) \in Seq(Half) /\ After(s) \in Seq(Half) /\ Line(s) \o After(s) = s
  BY LineParts
<1>2. Range(Line(s) \o After(s)) = Range(Line(s)) \union Range(After(s))
  BY <1>1, RangeOfConcat, Zenon
<1> QED
  BY <1>1, <1>2, Zenon

LEMMA RepliesStep ==
    ASSUME StreamTypeOK, EventInv, ePc # "off", ~ dead, EventStep, ~ dead'
    PROVE  EventReplies'
<1>0. /\ buf \in Seq(Half) /\ setupBuf \in Seq(Half) /\ wire \in Seq(Half)
      /\ EventReplies /\ EventPhases
  BY EventBuffers DEF EventInv, EventFlow
<1>1. CASE SetupReplied
  <2>1. ~ burst
    BY <1>1, RepliedWhen
  <2>2. /\ Pending \in Seq(Half) /\ HasLine(Pending) /\ Parsed(Line(Pending)) = Reply
        /\ LogStream' = buf \o After(Pending)
    BY <1>1, ReplyTaken
  <2>3. Ordered(Pending) /\ \A a \in Range(buf), b \in Range(Pending) : Rel(a, b)
    BY <2>1, OrderedParts
  <2>4. Reply \notin {Failure, Garbled}
    BY DEF Reply, Failure, Garbled
  <2>5. \A h \in Range(After(Pending)) : h[1] # Reply
    BY <2>2, <2>3, <2>4, OrderAfterWhole
  <2>6. \A h \in Range(buf) : h[1] # Reply
    <3>1. Line(Pending) = Whole(Reply) /\ Line(Pending) \in Seq(Half) /\ After(Pending) \in Seq(Half)
          /\ Line(Pending) \o After(Pending) = Pending
      BY <2>2, <2>4, ParsedLine, LineParts
    <3>2. <<Reply, 1>> \in Range(Whole(Reply))
      BY StreamAssumption, RangeOfWhole DEF Reply, Failure
    <3>3. Range(Line(Pending) \o After(Pending)) = Range(Line(Pending)) \union Range(After(Pending))
      BY <3>1, RangeOfConcat, Zenon
    <3>4. <<Reply, 1>> \in Range(Pending)
      BY <3>1, <3>2, <3>3, Zenon
    <3>5. \A h \in Range(buf) : Rel(h, <<Reply, 1>>)
      BY <2>3, <3>4
    <3> QED
      BY <2>4, <3>5 DEF Rel
  <2>7. Range(buf \o After(Pending)) = Range(buf) \union Range(After(Pending))
    <3>1. After(Pending) \in Seq(Half)
      BY <2>2, LineParts
    <3> QED
      BY <1>0, <3>1, RangeOfConcat, Zenon
  <2> QED
    BY <2>2, <2>5, <2>6, <2>7 DEF EventReplies, NoReply
<1>2. CASE SetupLeftover
  <2>1. /\ ePc = "leftover"
        /\ \A h \in Range(LogStream') : IsLog(h[1]) \/ \E g \in Range(LogStream) : g[1] = h[1]
    BY <1>2, LeftoverKept
  <2>2. NoReply(LogStream) /\ ~ IsLog(Reply)
    BY <1>0, <2>1 DEF EventReplies, IsLog, Reply
  <2> QED
    BY <2>1, <2>2 DEF EventReplies, NoReply
<1>3. CASE ListenerHandles
  <2>1. /\ ePc = "main" /\ LogStream \in Seq(Half) /\ HasLine(LogStream) /\ LogStream' = After(LogStream)
    BY <1>3, LineTaken
  <2>2. NoReply(LogStream)
    BY <1>0, <2>1 DEF EventReplies
  <2>3. Range(After(LogStream)) \subseteq Range(LogStream)
    BY <2>1, AfterRange
  <2> QED
    BY <2>1, <2>2, <2>3 DEF EventReplies, NoReply
<1>4. CASE ~ SetupReplied /\ ~ SetupLeftover /\ ~ ListenerHandles
  <2>1. LogStream' = LogStream /\ burst' = burst
    BY <1>4, StreamStays
  <2>2. CASE NoReply(LogStream)
    BY <2>1, <2>2 DEF EventReplies
  <2>3. CASE ePc = "read" /\ ~ burst /\ asked = 0
    <3>1. ePc' = "read" /\ asked' = asked
      BY <1>4, <2>3 DEF EventStep, SetupConnect, SetupRequest, SetupReceive, Receive, Dies, SetupParse, SetupReplied,
         SetupLog, SetupFails, SetupDone, ListenerReceive, ListenerReconnects, streamVars
    <3> QED
      BY <2>1, <2>3, <3>1 DEF EventReplies
  <2> QED
    BY <1>0, <2>2, <2>3 DEF EventReplies
<1> QED
  BY <1>1, <1>2, <1>3, <1>4

LEMMA OrderStep ==
    ASSUME StreamTypeOK, EventInv, ePc # "off", ~ dead, EventStep, ~ dead'
    PROVE  EventOrder' /\ HandledInOrder'
<1>0. /\ buf \in Seq(Half) /\ handled \in Seq(1..MaxLogs) /\ emitted \in Nat
      /\ EventOrder /\ EventPhases /\ HandledInOrder /\ emitted' = emitted
  BY EventBuffers, StreamStays DEF EventInv, EventFlow, StreamTypeOK
<1>1. CASE SetupReplied
  <2>1. ~ burst
    BY <1>1, RepliedWhen
  <2>2. /\ Pending \in Seq(Half) /\ HasLine(Pending) /\ LogStream' = buf \o After(Pending)
        /\ UNCHANGED <<handled, burst>>
    BY <1>1, ReplyTaken
  <2>3. /\ Ordered(buf) /\ Ordered(Pending) /\ \A a \in Range(buf), b \in Range(Pending) : Rel(a, b)
        /\ Range(LogStream) = Range(buf) \union Range(Pending)
    BY <2>1, OrderedParts
  <2>4. After(Pending) \in Seq(Half) /\ Ordered(After(Pending)) /\ Range(After(Pending)) \subseteq Range(Pending)
    BY <2>2, <2>3, OrderAfterLine, LineParts
  <2>5. /\ Ordered(buf \o After(Pending))
        /\ Range(buf \o After(Pending)) = Range(buf) \union Range(After(Pending))
    <3>1. \A a \in Range(buf), b \in Range(After(Pending)) : Rel(a, b)
      BY <2>3, <2>4
    <3> QED
      BY <1>0, <2>3, <2>4, <3>1, OrderedConcat, RangeOfConcat, Zenon
  <2>6. Ordered(LogStream') /\ Range(LogStream') \subseteq Range(LogStream)
    BY <2>2, <2>3, <2>4, <2>5, Zenon
  <2> QED
    BY <1>0, <2>1, <2>2, <2>6 DEF EventOrder, HandledInOrder
<1>2. CASE SetupLeftover
  BY <1>0, <1>2, LeftoverKept DEF EventOrder, HandledInOrder
<1>3. CASE ListenerHandles
  <2> DEFINE s == LogStream
             m == Parsed(Line(s))
  <2>1. /\ ePc = "main" /\ s \in Seq(Half) /\ HasLine(s) /\ LogStream' = After(s) /\ burst' = burst
        /\ handled' = IF m \in 1..MaxLogs THEN Append(handled, m) ELSE handled
    BY <1>3, LineTaken
  <2>2. ~ burst
    BY <1>0, <2>1 DEF EventPhases
  <2>3. /\ Ordered(s) /\ \A h \in Range(s) : h[1] <= emitted
        /\ \A n \in Range(handled), h \in Range(s) : IsLog(h[1]) => n < h[1]
        /\ \A n \in Range(handled) : n <= emitted
    BY <1>0, <2>2 DEF EventOrder
  <2> HIDE DEF s
  <2>4. Ordered(After(s)) /\ Range(After(s)) \subseteq Range(s)
    BY <2>1, <2>3, OrderAfterLine
  <2>5. CASE m \notin 1..MaxLogs
    BY <1>0, <2>1, <2>2, <2>3, <2>4, <2>5 DEF EventOrder, HandledInOrder
  <2>6. CASE m \in 1..MaxLogs
    <3>1. m \notin {Failure, Garbled} /\ IsLog(m)
      BY <2>6 DEF Failure, Garbled, IsLog
    <3>2. /\ \E h \in Range(s) : h[1] = m
          /\ \A h \in Range(After(s)) : IsLog(h[1]) => m < h[1]
      BY <2>1, <2>3, <3>1, OrderAfterWhole
    <3> HIDE DEF m
    <3>3. m <= emitted /\ \A n \in Range(handled) : n < m
      BY <2>3, <3>1, <3>2
    <3>4. handled' = Append(handled, m)
      BY <2>1, <2>6
    <3>5. Range(handled') = Range(handled) \union {m}
      <4>1. handled' = handled \o <<m>> /\ <<m>> \in Seq(1..MaxLogs)
        BY <1>0, <2>6, <3>4
      <4>2. Range(handled \o <<m>>) = Range(handled) \union Range(<<m>>)
        <5>1. \A p, q \in Seq(1..MaxLogs) : Range(p \o q) = Range(p) \union Range(q)
          BY RangeConcatenation
        <5> QED
          BY <1>0, <4>1, <5>1, Zenon
      <4>3. Range(<<m>>) = {m}
        BY DEF Range
      <4> QED
        BY <4>1, <4>2, <4>3
    <3>6. EventOrder'
      <4>1. \A h \in Range(After(s)) : h[1] <= emitted
        BY <2>3, <2>4
      <4>2. \A n \in Range(handled'), h \in Range(After(s)) : IsLog(h[1]) => n < h[1]
        BY <2>3, <2>4, <3>2, <3>5
      <4>3. \A n \in Range(handled') : n <= emitted
        BY <2>3, <3>3, <3>5
      <4> QED
        BY <1>0, <2>1, <2>4, <4>1, <4>2, <4>3 DEF EventOrder
    <3>7. HandledInOrder'
      <4> DEFINE k == Len(handled)
      <4>1. /\ k \in Nat /\ DOMAIN handled = 1..k /\ DOMAIN handled' = 1..(k + 1)
            /\ handled'[k + 1] = m /\ \A i \in 1..k : handled'[i] = handled[i] /\ handled[i] \in Range(handled)
        BY <1>0, <2>6, <3>4 DEF Range
      <4> HIDE DEF k
      <4>2. ASSUME NEW i \in 1..(k + 1), NEW j \in 1..(k + 1), i < j PROVE handled'[i] < handled'[j]
        <5>1. i \in 1..k /\ handled'[i] = handled[i] /\ handled[i] \in Range(handled)
          BY <4>1, <4>2
        <5>2. CASE j = k + 1
          BY <3>3, <4>1, <5>1, <5>2
        <5>3. CASE j # k + 1
          <6>1. j \in 1..k
            BY <4>1, <5>3
          <6> QED
            BY <1>0, <4>1, <4>2, <5>1, <6>1 DEF HandledInOrder
        <5> QED
          BY <5>2, <5>3
      <4> QED
        BY <4>1, <4>2 DEF HandledInOrder
    <3> QED
      BY <3>6, <3>7
  <2> QED
    BY <2>5, <2>6
<1>4. CASE ~ SetupReplied /\ ~ SetupLeftover /\ ~ ListenerHandles
  <2>1. LogStream' = LogStream /\ UNCHANGED <<handled, burst>>
    BY <1>4, StreamStays
  <2> QED
    BY <1>0, <2>1 DEF EventOrder, HandledInOrder
<1> QED
  BY <1>1, <1>2, <1>3, <1>4

\* A setup ends with what the connection before it left: no end of a log.
LEMMA OwnStep ==
    ASSUME StreamTypeOK, EventInv, ePc # "off", ~ dead, EventStep, ~ dead'
    PROVE  EventOwn'
<1>0. /\ buf \in Seq(Half) /\ setupBuf \in Seq(Half) /\ wire \in Seq(Half)
      /\ EventOwn /\ EventPhases /\ sentIn' = sentIn
  BY EventBuffers, StreamStays DEF EventInv, EventFlow
<1>1. ASSUME Range(LogStream') \subseteq Range(LogStream), conn' = conn, burst' = burst PROVE EventOwn'
  BY <1>0, <1>1 DEF EventOwn, Known
<1>2. CASE SetupConnect
  <2>1. ~ HasLine(buf) /\ buf' = buf /\ wire' = <<>> /\ setupBuf' = <<>>
    BY <1>0, <1>2 DEF SetupConnect, Connect, Refused, EventPhases
  <2>2. LogStream' = buf
    BY <1>0, <2>1, ConcatEmptySeq DEF LogStream, Pending
  <2>3. \A h \in Range(buf) : h[2] # 2
    BY <2>1 DEF HasLine, Range
  <2> QED
    BY <2>2, <2>3 DEF EventOwn
<1>3. CASE SetupReplied
  <2>1. /\ Pending \in Seq(Half) /\ HasLine(Pending) /\ LogStream' = buf \o After(Pending)
        /\ UNCHANGED <<streamVars, burst>> /\ ~ burst
    BY <1>3, ReplyTaken, RepliedWhen
  <2>2. After(Pending) \in Seq(Half) /\ Range(After(Pending)) \subseteq Range(Pending)
    BY <2>1, LineParts, AfterRange
  <2>3. Range(LogStream') = Range(buf) \union Range(After(Pending))
    BY <1>0, <2>1, <2>2, RangeOfConcat
  <2>4. Range(LogStream) = Range(buf) \union Range(Pending)
    BY <2>1, OrderedParts
  <2> QED
    BY <1>1, <2>1, <2>2, <2>3, <2>4 DEF streamVars
<1>4. CASE SetupLeftover
  BY <1>4, LeftoverKept DEF EventOwn
<1>5. CASE ListenerHandles
  <2>1. /\ LogStream \in Seq(Half) /\ HasLine(LogStream) /\ LogStream' = After(LogStream)
        /\ UNCHANGED <<streamVars, burst>>
    BY <1>5, LineTaken
  <2> QED
    BY <1>1, <2>1, AfterRange DEF streamVars
<1>6. CASE ~ SetupConnect /\ ~ SetupReplied /\ ~ SetupLeftover /\ ~ ListenerHandles
  <2>1. LogStream' = LogStream /\ burst' = burst
    BY <1>6, StreamStays
  <2>2. conn' = conn
    BY <1>6 DEF EventStep, SetupRequest, Request, Dies, SetupReceive, Receive, SetupParse, SetupReplied,
       SetupLog, SetupFails, SetupDone, ListenerReceive, ListenerReconnects, Close, streamVars
  <2> QED
    BY <1>1, <2>1, <2>2
<1> QED
  BY <1>2, <1>3, <1>4, <1>5, <1>6

\* The logs that are handled are of a subscription that the thread knows.
LEMMA HandlesKnown ==
    ASSUME StreamTypeOK, EventInv, ePc # "off", ~ dead, ListenerHandles, Parsed(Line(buf)) \in 1..MaxLogs
    PROVE  Known(Parsed(Line(buf)))
<1> DEFINE m == Parsed(Line(buf))
<1>1. /\ buf \in Seq(Half) /\ setupBuf \in Seq(Half) /\ wire \in Seq(Half)
      /\ EventOwn /\ ~ burst /\ HasLine(buf)
  BY EventBuffers DEF EventInv, EventFlow, EventPhases, ListenerHandles
<1>2. m \in Failure..MaxLogs /\ m # Garbled /\ IsLog(m)
  BY StreamAssumption DEF Failure, Garbled, IsLog
<1>3. Line(buf) = Whole(m) /\ Line(buf) \in Seq(Half) /\ After(buf) \in Seq(Half) /\ Line(buf) \o After(buf) = buf
  BY <1>1, <1>2, ParsedLine, LineParts
<1> HIDE DEF m
<1>4. Range(Whole(m)) = {<<m, 1>>, <<m, 2>>}
  BY <1>2, RangeOfWhole
<1>5. Range(Line(buf) \o After(buf)) = Range(Line(buf)) \union Range(After(buf))
  BY <1>3, RangeOfConcat, Zenon
<1>6. Range(LogStream) = Range(buf) \union Range(setupBuf) \union Range(wire)
  BY <1>1, StreamParts
<1>7. <<m, 2>> \in Range(LogStream)
  BY <1>3, <1>4, <1>5, <1>6, Zenon
<1>8. Known(m)
  BY <1>1, <1>2, <1>7 DEF EventOwn
<1> QED
  BY <1>8 DEF m

\* Handled logs stay in order, and an end is explained, where the thread ends.
LEMMA DeathStep ==
    ASSUME StreamTypeOK, EventInv, ePc # "off", ~ dead, EventStep
    PROVE  DeathExplained' /\ (dead' => HandledInOrder')
<1>1. ASSUME dead' PROVE troubled' \/ burst' \/ undecoded'
  <2>0. dead' # dead
    BY <1>1
  <2>1. CASE SetupConnect
    BY <1>1, <2>0, <2>1 DEF SetupConnect, Connect, Refused
  <2>2. CASE SetupRequest
    BY <1>1, <2>0, <2>2 DEF SetupRequest, Request
  <2>3. CASE SetupReceive
    BY <1>1, <2>0, <2>3 DEF SetupReceive, Receive
  <2>4. CASE SetupParse
    <3>1. /\ buf \in Seq(Half) /\ setupBuf \in Seq(Half) /\ wire \in Seq(Half)
          /\ ePc = "read" /\ HasLine(setupBuf) /\ burst' = burst
      BY <2>4, EventBuffers DEF EventInv, SetupParse
    <3>2. PICK m \in {Failure, Garbled} : m = Parsed(Line(setupBuf)) /\ troubled' = (troubled \/ m = Failure)
      BY <1>1, <2>0, <2>4 DEF SetupParse, SetupLog, SetupFails, streamVars
    <3>3. ASSUME ~ burst PROVE m # Garbled
      <4>1. Framed(Pending) /\ Pending \in Seq(Half)
        BY <3>1, <3>3, StreamParts DEF EventInv, EventFlow, EventFrames
      <4>2. HasLine(Pending) /\ Line(Pending) = Line(setupBuf)
        BY <3>1, SetupLine
      <4>3. Parsed(Line(setupBuf)) \in Failure..MaxLogs
        BY <4>1, <4>2, FramedLine
      <4> QED
        BY <3>2, <4>3, StreamAssumption DEF Failure, Garbled
    <3> QED
      BY <3>1, <3>2, <3>3
  <2>5. CASE SetupLeftover
    BY <2>5 DEF SetupLeftover
  <2>6. CASE SetupDone \/ ListenerReceive \/ ListenerReconnects
    BY <1>1, <2>0, <2>6 DEF SetupDone, ListenerReceive, Receive, ListenerReconnects, Close, streamVars
  <2>7. CASE ListenerHandles
    <3>1. PICK m \in 1..MaxLogs : m = Parsed(Line(buf)) /\ undecoded' = Known(m)
      BY <2>0, <2>7 DEF ListenerHandles, ListenerDecodes, streamVars
    <3>2. Known(m)
      BY <2>7, <3>1, HandlesKnown
    <3> QED
      BY <3>1, <3>2, Zenon
  <2> QED
    BY <2>1, <2>2, <2>3, <2>4, <2>5, <2>6, <2>7 DEF EventStep
<1>2. ASSUME dead' PROVE HandledInOrder'
  <2>1. handled' = handled
    BY <1>2 DEF EventStep, SetupConnect, SetupRequest, SetupReceive, SetupParse, SetupDone, SetupLeftover,
       ListenerReceive, ListenerReconnects, ListenerHandles, ListenerDecodes, streamVars
  <2> QED
    BY <2>1 DEF EventInv, HandledInOrder
<1> QED
  BY <1>1, <1>2 DEF DeathExplained

LEMMA FramesStep ==
    ASSUME StreamTypeOK, EventInv, ePc # "off", ~ dead, EventStep, ~ dead'
    PROVE  EventFrames'
<1>0. /\ buf \in Seq(Half) /\ setupBuf \in Seq(Half) /\ wire \in Seq(Half) /\ <<>> \in Seq(Half)
      /\ Pending \in Seq(Half) /\ LogStream \in Seq(Half)
      /\ EventFrames /\ EventPhases
  BY EventBuffers, StreamParts DEF EventInv, EventFlow
<1>1. CASE SetupConnect
  <2>1. /\ Connect /\ wire' = <<>> /\ setupBuf' = <<>> /\ buf' = buf /\ torn' = (buf # <<>>)
        /\ ePc' = "request" /\ ~ HasLine(buf)
    BY <1>0, <1>1 DEF SetupConnect, Refused, Connect, EventPhases
  <2>2. Pending' = <<>>
    BY <2>1 DEF Pending
  <2>3. Sent' = {}
    BY <2>1, NoneSent
  <2>4. ASSUME buf # <<>> PROVE Glued(buf, {})
    <3>1. buf \o <<>> = buf
      BY <1>0, ConcatEmptySeq
    <3> QED
      BY <1>0, <2>1, <2>4, <3>1, EmptyWhole DEF Glued
  <2> QED
    BY <2>1, <2>2, <2>3, <2>4, EmptyWhole DEF EventFrames, WholeLines
<1>2. CASE SetupRequest
  <2>1. /\ ePc = "request" /\ ePc' = "read" /\ UNCHANGED <<wire, setupBuf, buf, torn, burst, sock, conn, sentIn>>
    BY <1>2 DEF SetupRequest, Request, Dies
  <2>2. Pending' = Pending /\ Sent' = Sent
    BY <2>1 DEF Pending, Sent
  <2> QED
    BY <1>0, <2>1, <2>2 DEF EventFrames
<1>3. CASE SetupReceive
  <2>1. PICK n \in 1..Len(wire) : Receive(n) /\ setupBuf' = setupBuf \o SubSeq(wire, 1, n)
    BY <1>3 DEF SetupReceive, Dies
  <2>2. /\ ePc = "read" /\ ePc' = "read" /\ UNCHANGED <<buf, torn, burst, sock, conn, sentIn>>
        /\ wire' = SubSeq(wire, n + 1, Len(wire))
    BY <1>3, <2>1 DEF SetupReceive, Receive
  <2>3. Pending' = Pending
    BY <1>0, <2>1, <2>2, ReadMoves DEF Pending
  <2>4. Sent' = Sent
    BY <2>2 DEF Sent
  <2> QED
    BY <1>0, <2>2, <2>3, <2>4 DEF EventFrames
<1>4. CASE SetupReplied
  <2>1. ePc = "read" /\ ~ burst /\ ePc' \in {"request", "leftover"}
    BY <1>4, RepliedWhen DEF SetupReplied, SetupParse, SetupLog, SetupFails, Reply, Failure, Garbled
  <2>2. /\ HasLine(Pending) /\ Pending' = After(Pending) /\ UNCHANGED <<streamVars, buf, burst, torn>>
    BY <1>4, ReplyTaken
  <2>3. Sent' = Sent /\ sock' = sock
    BY <2>2 DEF Sent, streamVars
  <2>4. Framed(Pending') /\ (sock = "open" => WholeLines(Pending'))
    BY <1>0, <2>1, <2>2, FramedLine DEF EventFrames
  <2> QED
    BY <1>0, <2>1, <2>2, <2>3, <2>4 DEF EventFrames
<1>5. CASE SetupParse /\ ~ SetupReplied
  <2>1. /\ ePc = "read" /\ ePc' = "read" /\ HasLine(setupBuf) /\ Parsed(Line(setupBuf)) \in 1..MaxLogs
        /\ buf' = buf \o Whole(Parsed(Line(setupBuf))) /\ setupBuf' = After(setupBuf)
        /\ UNCHANGED <<wire, sock, conn, sentIn, burst, torn>>
    BY <1>5 DEF SetupParse, SetupReplied, SetupLog, SetupFails, Dies, streamVars
  <2>2. HasLine(Pending) /\ Pending' = After(Pending)
    BY <1>0, <2>1, SetupLine DEF Pending
  <2>3. Sent' = Sent
    BY <2>1 DEF Sent
  <2> DEFINE m == Parsed(Line(setupBuf))
  <2>4. Whole(m) \in Seq(Half) /\ WholeLines(Whole(m))
    BY <2>1, StreamAssumption, WholeType, OneWhole DEF Failure
  <2> HIDE DEF m
  <2>5. WholeLines(buf) => WholeLines(buf \o Whole(m))
    BY <1>0, <2>4, WholeConcat
  <2>6. Glued(buf, Sent) => Glued(buf \o Whole(m), Sent)
    <3>1. LogsOn(buf) \intersect (Sent \ Sent) = {}
      OBVIOUS
    <3> QED
      BY <1>0, <2>4, <3>1, GluedConcat
  <2>7. ASSUME ~ burst
        PROVE  /\ Framed(Pending') /\ (sock = "open" => WholeLines(Pending'))
               /\ IF torn THEN Glued(buf', Sent) ELSE WholeLines(buf')
    <3>1. /\ Framed(Pending) /\ (sock = "open" => WholeLines(Pending))
          /\ IF torn THEN Glued(buf, Sent) ELSE WholeLines(buf)
      BY <1>0, <2>1, <2>7 DEF EventFrames
    <3>2. Framed(Pending') /\ (sock = "open" => WholeLines(Pending'))
      BY <1>0, <2>2, <3>1, FramedLine
    <3>3. buf' = buf \o Whole(m)
      BY <2>1 DEF m
    <3> QED
      BY <2>5, <2>6, <3>1, <3>2, <3>3
  <2> QED
    BY <2>1, <2>3, <2>7 DEF EventFrames
<1>6. CASE SetupDone
  <2>1. /\ ePc = "leftover" /\ ePc' = "main" /\ Trimmed(setupBuf) = <<>> /\ ~ burst
        /\ UNCHANGED <<streamVars, setupBuf, buf, burst, torn>>
    BY <1>0, <1>6 DEF SetupDone, EventPhases
  <2>2. setupBuf = <<>>
    BY <1>0, <2>1, TrimmedIs, EmptySeq
  <2>3. Pending = wire /\ LogStream = buf \o wire
    BY <1>0, <2>2, StreamParts
  <2>4. LogStream' = LogStream /\ Sent' = Sent /\ sock' = sock
    BY <2>1 DEF LogStream, Pending, Sent, streamVars
  <2>5. ASSUME sock = "open" PROVE WholeLines(LogStream) \/ (torn /\ Glued(LogStream, Sent))
    <3>1. WholeLines(wire) /\ IF torn THEN Glued(buf, Sent) ELSE WholeLines(buf)
      BY <1>0, <2>1, <2>3, <2>5 DEF EventFrames
    <3>2. LogsOn(buf) \intersect (Sent \ Sent) = {}
      OBVIOUS
    <3>3. CASE torn
      BY <1>0, <2>3, <3>1, <3>2, <3>3, GluedConcat
    <3>4. CASE ~ torn
      BY <1>0, <2>3, <3>1, <3>4, WholeConcat
    <3> QED
      BY <3>3, <3>4
  <2> QED
    BY <2>1, <2>4, <2>5 DEF EventFrames
<1>7. CASE SetupLeftover
  BY <1>7, LeftoverKept DEF EventFrames
<1>8. CASE ListenerReceive
  <2>1. /\ ePc = "main" /\ ePc' = "main" /\ UNCHANGED <<torn, sock, conn, sentIn>>
    BY <1>8 DEF ListenerReceive, Receive
  <2>2. LogStream' = LogStream
    BY <1>8, StreamStays DEF ListenerReceive, SetupReplied, SetupParse, SetupLeftover, ListenerHandles
  <2>3. Sent' = Sent
    BY <2>1 DEF Sent
  <2> QED
    BY <1>0, <2>1, <2>2, <2>3 DEF EventFrames
<1>9. CASE ListenerReconnects
  BY <1>9 DEF ListenerReconnects, Close, EventFrames
<1>10. CASE ListenerHandles
  <2>1. /\ ePc = "main" /\ HasLine(LogStream) /\ LogStream' = After(LogStream)
        /\ UNCHANGED <<streamVars, ePc, torn>>
    BY <1>10, LineTaken
  <2>2. Sent' = Sent /\ sock' = sock
    BY <2>1 DEF Sent, streamVars
  <2>3. ASSUME sock = "open" PROVE WholeLines(After(LogStream))
    <3>1. WholeLines(LogStream) \/ Glued(LogStream, Sent)
      BY <1>0, <2>1, <2>3 DEF EventFrames
    <3>2. WholeLines(LogStream) => WholeLines(After(LogStream))
      BY <1>0, <2>1, FramedLine DEF WholeLines
    <3>3. Glued(LogStream, Sent) => WholeLines(After(LogStream))
      BY <1>0, <2>1, GluedLine
    <3> QED
      BY <3>1, <3>2, <3>3
  <2> QED
    BY <2>1, <2>2, <2>3 DEF EventFrames
<1> QED
  BY <1>1, <1>2, <1>3, <1>4, <1>5, <1>6, <1>7, <1>8, <1>9, <1>10 DEF EventStep

LEMMA AccountStep ==
    ASSUME StreamTypeOK, EventInv, ePc # "off", ~ dead, EventStep, ~ dead'
    PROVE  EventAccount'
<1>0. /\ buf \in Seq(Half) /\ setupBuf \in Seq(Half) /\ wire \in Seq(Half) /\ LogStream \in Seq(Half)
      /\ handled \in Seq(1..MaxLogs) /\ EventAccount /\ EventFrames
  BY EventBuffers, StreamParts DEF EventInv, EventFlow
<1>1. CASE SetupConnect
  <2>1. Sent' = {}
    BY <1>1, NoneSent DEF SetupConnect, Refused
  <2> QED
    BY <2>1 DEF EventAccount
<1>2. CASE SetupReplied
  <2>1. LogsOn(LogStream') = LogsOn(LogStream) /\ UNCHANGED <<streamVars, handled>> /\ ePc = "read"
    BY <1>2, ReplyTaken, RepliedWhen
  <2>2. Sent' = Sent /\ sock' = sock
    BY <2>1 DEF Sent, streamVars
  <2> QED
    BY <1>0, <2>1, <2>2 DEF EventAccount, Kept
<1>3. CASE SetupLeftover
  <2>1. /\ ePc = "leftover" /\ UNCHANGED <<handled, sentIn, conn, sock>>
        /\ LogsOn(LogStream) \subseteq LogsOn(LogStream')
    BY <1>3, LeftoverKept
  <2>2. Sent' = Sent
    BY <2>1 DEF Sent
  <2> QED
    BY <1>0, <2>1, <2>2 DEF EventAccount, Kept
<1>4. CASE ListenerReconnects
  BY <1>4 DEF ListenerReconnects, Close, EventAccount
<1>5. CASE ListenerHandles
  <2> DEFINE s == LogStream
             m == Parsed(Line(s))
  <2>1. /\ ePc = "main" /\ HasLine(s) /\ LogStream' = After(s)
        /\ UNCHANGED <<streamVars, ePc, torn>>
        /\ handled' = IF m \in 1..MaxLogs THEN Append(handled, m) ELSE handled
    BY <1>5, LineTaken
  <2>2. Sent' = Sent /\ sock' = sock
    BY <2>1 DEF Sent, streamVars
  <2>3. s \in Seq(Half)
    BY <1>0
  <2>4. CASE sock # "open"
    BY <2>2, <2>4 DEF EventAccount
  <2>5. CASE sock = "open" /\ WholeLines(s)
    <3>1. Framed(s)
      BY <2>5 DEF WholeLines
    <3> HIDE DEF s
    <3>2. m \in Failure..MaxLogs /\ WholeLines(After(s))
      BY <2>1, <2>3, <2>5, <3>1, FramedLine
    <3>3. LogsOn(s) = ({m} \ {Reply, Failure}) \union LogsOn(After(s))
      <4>1. Line(s) \in Seq(Half) /\ After(s) \in Seq(Half) /\ Line(s) \o After(s) = s
        BY <2>1, <2>3, LineParts
      <4>2. LogsOn(Line(s) \o After(s)) = LogsOn(Line(s)) \union LogsOn(After(s))
        BY <4>1, LogsOfConcat, Zenon
      <4>3. m # Garbled
        BY <3>2 DEF Failure, Garbled
      <4>4. Line(s) = Whole(m)
        BY <2>1, <2>3, <4>3, ParsedLine
      <4> HIDE DEF m
      <4>5. LogsOn(Whole(m)) = {m} \ {Reply, Failure}
        BY <3>2, LogsOfWhole
      <4> QED
        BY <4>1, <4>2, <4>4, <4>5, Zenon
    <3> HIDE DEF m
    <3>4. m \in 1..MaxLogs \/ m \in {Reply, Failure}
      BY <3>2, StreamAssumption DEF Reply, Failure
    <3>5. ASSUME m \in 1..MaxLogs PROVE Range(handled') = Range(handled) \union {m}
      <4>1. handled' = handled \o <<m>> /\ <<m>> \in Seq(1..MaxLogs)
        BY <1>0, <2>1, <3>5
      <4>2. Range(handled \o <<m>>) = Range(handled) \union Range(<<m>>)
        <5>1. \A p, q \in Seq(1..MaxLogs) : Range(p \o q) = Range(p) \union Range(q)
          BY RangeConcatenation
        <5> QED
          BY <1>0, <4>1, <5>1, Zenon
      <4>3. Range(<<m>>) = {m}
        BY DEF Range
      <4> QED
        BY <4>1, <4>2, <4>3
    <3>6. m \notin 1..MaxLogs => handled' = handled
      BY <2>1
    <3>7. LogsOn(s) \union Range(handled) \subseteq LogsOn(After(s)) \union Range(handled')
      BY <3>3, <3>4, <3>5, <3>6
    <3>8. Kept \subseteq Kept'
      BY <2>1, <3>7 DEF Kept, s
    <3> QED
      BY <1>0, <2>1, <2>2, <2>5, <3>2, <3>8 DEF EventAccount
  <2>6. CASE sock = "open" /\ ~ WholeLines(s)
    <3>1. torn /\ Glued(s, Sent) /\ Sent \subseteq Kept
      BY <1>0, <2>1, <2>6 DEF EventFrames, EventAccount
    <3> HIDE DEF s
    <3>2. m = Garbled /\ WholeLines(After(s))
      BY <2>1, <2>3, <3>1, GluedLine
    <3>3. PICK k \in Failure..MaxLogs :
             LogsOn(s) \intersect Sent \subseteq ({k} \ {Reply, Failure}) \union LogsOn(After(s))
      BY <2>1, <2>3, <3>1, GluedLine
    <3>4. handled' = handled
      BY <2>1, <3>2 DEF Garbled
    <3>5. Kept = LogsOn(s) \union Range(handled) /\ Kept' = LogsOn(After(s)) \union Range(handled)
      BY <2>1, <3>4 DEF Kept, s
    <3>6. Sent \subseteq Kept' \union ({k} \ {Reply, Failure})
      BY <3>1, <3>3, <3>5
    <3>7. k \in 1..MaxLogs \/ k \in {Reply, Failure}
      BY <3>3, StreamAssumption DEF Reply, Failure
    <3>8. Sent \subseteq Kept' \/ \E n \in 1..MaxLogs : Sent \subseteq Kept' \union {n}
      BY <3>6, <3>7
    <3>9. WholeLines(LogStream') /\ torn' /\ ePc' = "main"
      BY <2>1, <3>1, <3>2
    <3> QED
      BY <2>2, <3>8, <3>9 DEF EventAccount
  <2> QED
    BY <2>4, <2>5, <2>6
<1>6. CASE ~ SetupConnect /\ ~ SetupReplied /\ ~ SetupLeftover /\ ~ ListenerReconnects /\ ~ ListenerHandles
  <2>1. LogStream' = LogStream /\ handled' = handled
    BY <1>6, StreamStays
  <2>2. UNCHANGED <<sock, conn, sentIn, torn>> /\ (ePc = "main" => ePc' = "main")
    BY <1>6 DEF EventStep, SetupRequest, Request, Dies, SetupReceive, Receive, SetupParse, SetupReplied,
       SetupLog, SetupFails, SetupDone, ListenerReceive, streamVars
  <2>3. Sent' = Sent /\ Kept' = Kept
    BY <2>1, <2>2 DEF Sent, Kept
  <2> QED
    BY <1>0, <2>1, <2>2, <2>3 DEF EventAccount
<1> QED
  BY <1>1, <1>2, <1>3, <1>4, <1>5, <1>6

\* What the node does to all that is still to be handled.
LEMMA NodeOnStream ==
    ASSUME StreamTypeOK, EventTypeOK, GethStep, UNCHANGED eventVars
    PROVE  /\ LogStream \in Seq(Half) /\ LogStream' \in Seq(Half)
           /\ dead' = dead /\ conn' = conn
           /\ \/ /\ GethReplies /\ \E m \in {Reply, Failure} : LogStream' = LogStream \o Whole(m)
                 /\ UNCHANGED <<emitted, sentIn, sock>>
              \/ /\ LogStream' = LogStream \o Whole(emitted')
                 /\ sentIn' = [sentIn EXCEPT ![emitted'] = conn]
                 /\ emitted' = emitted + 1 /\ emitted' \in 1..MaxLogs
                 /\ sock = "open" /\ UNCHANGED <<sock, asked>>
              \/ /\ wire' = wire /\ LogStream' = LogStream
                 /\ emitted' \in {emitted, emitted + 1} /\ UNCHANGED <<sock, sentIn, asked>>
              \/ /\ \E l \in Seq(Half) : LogStream = LogStream' \o l
                 /\ sock = "open" /\ sock' = "eof" /\ UNCHANGED <<emitted, sentIn, asked>>
<1>0. /\ buf \in Seq(Half) /\ setupBuf \in Seq(Half) /\ wire \in Seq(Half) /\ <<>> \in Seq(Half)
      /\ LogStream \in Seq(Half) /\ UNCHANGED <<buf, setupBuf>>
  BY EventBuffers, StreamParts DEF eventVars
<1>1. StreamTypeOK'
  BY StreamOpType DEF StreamOp
<1>2. wire' \in Seq(Half)
  BY <1>1 DEF StreamTypeOK
<1>3. LogStream' \in Seq(Half)
  BY <1>0, <1>2 DEF LogStream, Pending
<1>4. \A w \in Seq(Half) : buf \o (setupBuf \o (wire \o w)) = LogStream \o w
  <2>1. \A p, q \in Seq(Half) : (buf \o p) \o q = buf \o (p \o q)
    BY <1>0, HalvesAssociative, Zenon
  <2>2. \A p, q \in Seq(Half) : (setupBuf \o p) \o q = setupBuf \o (p \o q)
    BY <1>0, HalvesAssociative, Zenon
  <2>3. setupBuf \o wire \in Seq(Half) /\ LogStream = buf \o (setupBuf \o wire)
    BY <1>0 DEF LogStream, Pending
  <2>4. ASSUME NEW w \in Seq(Half) PROVE buf \o (setupBuf \o (wire \o w)) = LogStream \o w
    <3>1. (setupBuf \o wire) \o w = setupBuf \o (wire \o w)
      BY <1>0, <2>2, Zenon
    <3>2. (buf \o (setupBuf \o wire)) \o w = buf \o ((setupBuf \o wire) \o w)
      BY <2>1, <2>3, Zenon
    <3> QED
      BY <2>3, <3>1, <3>2, Zenon
  <2> QED
    BY <2>4
<1>5. ASSUME NEW w \in Seq(Half), wire' = wire \o w PROVE LogStream' = LogStream \o w
  <2>1. LogStream' = buf \o (setupBuf \o wire')
    BY <1>0 DEF LogStream, Pending
  <2> QED
    BY <1>4, <1>5, <2>1, Zenon
<1>6. ASSUME wire' = wire PROVE LogStream' = LogStream
  BY <1>0, <1>6 DEF LogStream, Pending
<1>7. CASE GethReplies
  <2>1. PICK m \in {Reply, Failure} : wire' = wire \o Whole(m)
    BY <1>7 DEF GethReplies
  <2>2. m \in Failure..MaxLogs
    BY StreamAssumption DEF Reply, Failure
  <2>3. LogStream' = LogStream \o Whole(m)
    BY <1>5, <2>1, <2>2, WholeType
  <2> QED
    BY <1>0, <1>3, <1>7, <2>3 DEF GethReplies
<1>8. CASE GethLogs
  <2>0. emitted \in 0..MaxLogs /\ MaxLogs \in Nat
    BY StreamAssumption DEF StreamTypeOK
  <2>1. emitted' = emitted + 1 /\ emitted' \in 1..MaxLogs /\ UNCHANGED <<dead, conn, sock, asked>>
    BY <1>8, <2>0 DEF GethLogs
  <2>2. CASE sock = "open" /\ wire' = wire \o Whole(emitted') /\ sentIn' = [sentIn EXCEPT ![emitted'] = conn]
    <3>1. Whole(emitted') \in Seq(Half)
      BY <2>1, StreamAssumption, WholeType DEF Failure
    <3>2. LogStream' = LogStream \o Whole(emitted')
      BY <1>5, <2>2, <3>1
    <3> QED
      BY <1>0, <1>3, <2>1, <2>2, <3>2
  <2>3. CASE UNCHANGED <<wire, sentIn>>
    BY <1>0, <1>3, <1>6, <2>1, <2>3
  <2> QED
    BY <1>8, <2>2, <2>3 DEF GethLogs
<1>9. CASE GethCloses
  <2>1. sock = "open" /\ sock' = "eof" /\ UNCHANGED <<dead, conn, emitted, sentIn, asked>>
        /\ (wire' = wire \/ (wire # <<>> /\ wire' = Front(wire)))
    BY <1>9 DEF GethCloses
  <2>2. \E l \in Seq(Half) : wire = wire' \o l
    <3>1. wire \o <<>> = wire
      BY <1>0, ConcatEmptySeq
    <3> QED
      BY <1>0, <2>1, <3>1, FrontConcat
  <2>3. PICK l \in Seq(Half) : wire = wire' \o l
    BY <2>2
  <2>4. LogStream = LogStream' \o l
    <3>1. \A p, q \in Seq(Half) : (buf \o p) \o q = buf \o (p \o q)
      BY <1>0, HalvesAssociative, Zenon
    <3>2. \A p, q \in Seq(Half) : (setupBuf \o p) \o q = setupBuf \o (p \o q)
      BY <1>0, HalvesAssociative, Zenon
    <3>3. setupBuf \o wire' \in Seq(Half)
      BY <1>0, <1>2
    <3>4. LogStream' = buf \o (setupBuf \o wire') /\ LogStream = buf \o (setupBuf \o wire)
      BY <1>0 DEF LogStream, Pending
    <3>5. (setupBuf \o wire') \o l = setupBuf \o wire
      BY <1>2, <2>3, <3>2, Zenon
    <3>6. (buf \o (setupBuf \o wire')) \o l = buf \o ((setupBuf \o wire') \o l)
      BY <2>3, <3>1, <3>3, Zenon
    <3> QED
      BY <3>4, <3>5, <3>6, Zenon
  <2> QED
    BY <1>0, <1>3, <2>1, <2>4
<1> QED
  BY <1>7, <1>8, <1>9 DEF GethStep

LEMMA HandledLogs ==
    ASSUME EventTypeOK
    PROVE  Range(handled) \subseteq 1..MaxLogs
<1>1. handled \in Seq(1..MaxLogs)
  BY DEF EventTypeOK
<1>2. DOMAIN handled = 1..Len(handled)
  BY <1>1
<1>3. \A i \in 1..Len(handled) : handled[i] \in 1..MaxLogs
  BY <1>1, ElementOfSeq
<1> QED
  BY <1>2, <1>3 DEF Range

LEMMA NodeOrderStep ==
    ASSUME StreamTypeOK, EventInv, ePc # "off", ~ dead, GethStep, UNCHANGED eventVars
    PROVE  EventPhases' /\ EventReplies' /\ EventOrder'
<1>0. /\ EventPhases /\ EventReplies /\ EventOrder /\ EventTypeOK
      /\ UNCHANGED <<ePc, made, setupBuf, buf, handled, burst, torn>>
      /\ emitted \in Nat /\ LogStream \in Seq(Half)
  BY NodeOnStream DEF EventInv, EventFlow, eventVars, StreamTypeOK
<1>1. EventPhases'
  BY <1>0 DEF EventPhases, GethStep, GethReplies, GethLogs, GethCloses
<1>2. CASE /\ GethReplies /\ \E m \in {Reply, Failure} : LogStream' = LogStream \o Whole(m)
           /\ UNCHANGED <<emitted, sentIn, sock>>
  <2>1. PICK m \in {Reply, Failure} : LogStream' = LogStream \o Whole(m)
    BY <1>2
  <2>2. asked # 0 /\ asked' = 0
    BY <1>2 DEF GethReplies
  <2>3. ePc = "read" /\ ~ burst /\ NoReply(LogStream)
    BY <1>0, <2>2 DEF EventPhases, EventReplies
  <2>4. m \in Failure..MaxLogs /\ m <= 0 /\ ~ IsLog(m)
    BY StreamAssumption DEF Reply, Failure, IsLog
  <2>5. Whole(m) \in Seq(Half) /\ Range(Whole(m)) = {<<m, 1>>, <<m, 2>>} /\ Ordered(Whole(m))
    BY <2>4, WholeType, RangeOfWhole, OrderedWhole
  <2>6. \A a \in Range(LogStream), b \in Range(Whole(m)) : Rel(a, b)
    BY <2>3, <2>4, <2>5 DEF Rel, NoReply
  <2>7. Ordered(LogStream')
    BY <1>0, <2>1, <2>3, <2>5, <2>6, OrderedConcat DEF EventOrder
  <2>8. Range(LogStream') = Range(LogStream) \union {<<m, 1>>, <<m, 2>>}
    BY <1>0, <2>1, <2>5, RangeOfConcat
  <2>9. EventOrder'
    <3>1. m <= emitted
      BY <1>0, <2>4, StreamAssumption DEF Failure
    <3> QED
      BY <1>0, <1>2, <2>3, <2>4, <2>7, <2>8, <3>1 DEF EventOrder
  <2> QED
    BY <1>0, <1>1, <2>2, <2>3, <2>9 DEF EventReplies
<1>3. CASE /\ LogStream' = LogStream \o Whole(emitted')
           /\ emitted' = emitted + 1 /\ emitted' \in 1..MaxLogs
           /\ asked' = asked
  <2> DEFINE m == emitted'
  <2>1. m \in Failure..MaxLogs /\ m # Reply /\ IsLog(m) /\ emitted < m
    BY <1>0, <1>3, StreamAssumption DEF Reply, Failure, IsLog
  <2>2. Whole(m) \in Seq(Half) /\ Range(Whole(m)) = {<<m, 1>>, <<m, 2>>} /\ Ordered(Whole(m))
    BY <2>1, WholeType, RangeOfWhole, OrderedWhole
  <2> HIDE DEF m
  <2>3. Range(LogStream') = Range(LogStream) \union {<<m, 1>>, <<m, 2>>}
    BY <1>0, <1>3, <2>2, RangeOfConcat DEF m
  <2>4. EventReplies'
    BY <1>0, <1>3, <2>1, <2>3 DEF EventReplies, NoReply
  <2>5. Range(LogStream) \subseteq Half /\ \A h \in Half : h[1] \in Int
    BY <1>0, RangeIs, StreamAssumption DEF Half, Failure
  <2>6. /\ m = emitted + 1 /\ emitted' = m /\ LogStream' = LogStream \o Whole(m)
        /\ \A n \in Range(handled) : n <= emitted
    BY <1>0, <1>3 DEF EventOrder, m
  <2>7. Range(handled) \subseteq Nat
    BY <1>0, HandledLogs
  <2>8. \A n \in Range(handled) : n < m
    BY <1>0, <2>6, <2>7
  <2>9. ASSUME ~ burst
        PROVE  /\ Ordered(LogStream')
               /\ \A h \in Range(LogStream') : h[1] <= m
               /\ \A n \in Range(handled), h \in Range(LogStream') : IsLog(h[1]) => n < h[1]
    <3>1. /\ Ordered(LogStream) /\ \A h \in Range(LogStream) : h[1] <= emitted
          /\ \A n \in Range(handled), h \in Range(LogStream) : IsLog(h[1]) => n < h[1]
      BY <1>0, <2>9 DEF EventOrder
    <3>2. \A h \in Range(LogStream) : h[1] < m /\ h[1] # m /\ h[1] <= m
      BY <1>0, <2>5, <2>6, <3>1
    <3>3. \A a \in Range(LogStream), b \in Range(Whole(m)) : Rel(a, b)
      BY <2>2, <3>2 DEF Rel
    <3>4. Ordered(LogStream \o Whole(m))
      BY <1>0, <2>2, <3>1, <3>3, OrderedConcat
    <3>5. m <= m
      BY <1>0, <2>6
    <3> QED
      BY <2>3, <2>6, <2>8, <3>1, <3>2, <3>4, <3>5
  <2>10. \A n \in Range(handled) : n <= m
    BY <1>0, <2>6, <2>7, <2>8
  <2>11. EventOrder'
    BY <1>0, <2>6, <2>9, <2>10 DEF EventOrder
  <2> QED
    BY <1>1, <2>4, <2>11
<1>4. CASE LogStream' = LogStream /\ emitted' \in {emitted, emitted + 1} /\ asked' = asked
  <2>1. EventReplies'
    BY <1>0, <1>4 DEF EventReplies
  <2>2. \A k \in Int : k <= emitted => k <= emitted'
    BY <1>0, <1>4
  <2>3. Range(LogStream) \subseteq Half /\ \A h \in Half : h[1] \in Int
    BY <1>0, RangeIs, StreamAssumption DEF Half, Failure
  <2>4. Range(handled) \subseteq Int
    BY <1>0, HandledLogs
  <2>5. EventOrder'
    BY <1>0, <1>4, <2>2, <2>3, <2>4 DEF EventOrder
  <2> QED
    BY <1>1, <2>1, <2>5
<1>5. CASE /\ \E l \in Seq(Half) : LogStream = LogStream' \o l
           /\ UNCHANGED <<emitted, asked>>
  <2>1. PICK l \in Seq(Half) : LogStream = LogStream' \o l
    BY <1>5
  <2>2. LogStream' \in Seq(Half)
    BY <1>0, NodeOnStream
  <2>3. Range(LogStream) = Range(LogStream') \union Range(l)
    BY <2>1, <2>2, RangeOfConcat
  <2>4. Ordered(LogStream) => Ordered(LogStream')
    BY <2>1, <2>2, OrderedConcat
  <2>5. EventReplies'
    BY <1>0, <1>5, <2>3 DEF EventReplies, NoReply
  <2>6. EventOrder'
    BY <1>0, <1>5, <2>3, <2>4 DEF EventOrder
  <2> QED
    BY <1>1, <2>5, <2>6
<1> QED
  BY <1>0, <1>2, <1>3, <1>4, <1>5, NodeOnStream

LEMMA NodeOwnStep ==
    ASSUME StreamTypeOK, EventInv, ePc # "off", ~ dead, GethStep, UNCHANGED eventVars
    PROVE  EventOwn'
<1>0. /\ EventOwn /\ burst' = burst /\ conn' = conn /\ sentIn \in [1..MaxLogs -> 0..conn]
      /\ LogStream \in Seq(Half) /\ LogStream' \in Seq(Half)
  BY NodeOnStream DEF EventInv, EventFlow, eventVars, StreamTypeOK
<1>1. CASE sentIn' = sentIn /\ \E m \in {Reply, Failure} : LogStream' = LogStream \o Whole(m)
  <2>1. PICK m \in {Reply, Failure} : LogStream' = LogStream \o Whole(m)
    BY <1>1
  <2>2. m \in Failure..MaxLogs /\ ~ IsLog(m)
    BY StreamAssumption DEF Reply, Failure, IsLog
  <2>3. Range(LogStream') = Range(LogStream) \union {<<m, 1>>, <<m, 2>>}
    BY <1>0, <2>1, <2>2, WholeType, RangeOfWhole, RangeOfConcat
  <2> QED
    BY <1>0, <1>1, <2>2, <2>3 DEF EventOwn, Known
<1>2. CASE LogStream' = LogStream \o Whole(emitted') /\ emitted' \in 1..MaxLogs
           /\ sentIn' = [sentIn EXCEPT ![emitted'] = conn]
  <2> DEFINE m == emitted'
  <2>1. m \in Failure..MaxLogs
    BY <1>2, StreamAssumption DEF Failure
  <2>2. Whole(m) \in Seq(Half) /\ Range(Whole(m)) = {<<m, 1>>, <<m, 2>>}
    BY <2>1, WholeType, RangeOfWhole
  <2> HIDE DEF m
  <2>3. Range(LogStream') = Range(LogStream) \union {<<m, 1>>, <<m, 2>>}
    BY <1>0, <1>2, <2>2, RangeOfConcat DEF m
  <2>4. \A n \in 1..MaxLogs : sentIn'[n] = IF n = m THEN conn ELSE sentIn[n]
    BY <1>0, <1>2 DEF m
  <2>5. ASSUME ~ burst, NEW h \in Range(LogStream'), h[2] = 2, IsLog(h[1]) PROVE sentIn'[h[1]] = conn
    <3>1. CASE h \in Range(LogStream)
      <4>1. sentIn[h[1]] = conn
        BY <1>0, <2>5, <3>1 DEF EventOwn, Known
      <4> QED
        BY <2>4, <2>5, <4>1 DEF IsLog
    <3>2. CASE h[1] = m
      BY <2>4, <2>5, <3>2 DEF IsLog
    <3> QED
      BY <2>3, <2>5, <3>1, <3>2
  <2> QED
    BY <1>0, <2>5 DEF EventOwn, Known
<1>3. CASE LogStream' = LogStream /\ sentIn' = sentIn
  BY <1>0, <1>3 DEF EventOwn, Known
<1>4. CASE sentIn' = sentIn /\ \E l \in Seq(Half) : LogStream = LogStream' \o l
  <2>1. Range(LogStream') \subseteq Range(LogStream)
    BY <1>0, <1>4, RangeOfConcat
  <2> QED
    BY <1>0, <1>4, <2>1 DEF EventOwn, Known
<1> QED
  BY <1>1, <1>2, <1>3, <1>4, NodeOnStream DEF EventInv

LEMMA NodeFramesStep ==
    ASSUME StreamTypeOK, EventInv, ePc # "off", ~ dead, GethStep, UNCHANGED eventVars
    PROVE  EventFrames' /\ EventAccount'
<1>0. /\ buf \in Seq(Half) /\ setupBuf \in Seq(Half) /\ wire \in Seq(Half) /\ <<>> \in Seq(Half)
      /\ LogStream \in Seq(Half) /\ LogStream' \in Seq(Half)
      /\ EventFrames /\ EventAccount /\ EventPhases /\ EventOrder
      /\ UNCHANGED <<ePc, setupBuf, buf, handled, burst, torn>>
  BY EventBuffers, NodeOnStream DEF EventInv, EventFlow, eventVars
<1> DEFINE b == buf \o setupBuf
<1>1. b \in Seq(Half)
  BY <1>0
<1>2. LogStream = b \o wire /\ LogStream' = b \o wire'
  <2>1. \A p, q \in Seq(Half) : (buf \o p) \o q = buf \o (p \o q)
    BY <1>0, HalvesAssociative, Zenon
  <2>2. StreamTypeOK'
    BY StreamOpType DEF StreamOp
  <2>3. wire' \in Seq(Half)
    BY <2>2 DEF StreamTypeOK
  <2>4. LogStream = buf \o (setupBuf \o wire) /\ LogStream' = buf \o (setupBuf \o wire')
    BY <1>0 DEF LogStream, Pending
  <2> QED
    BY <1>0, <2>1, <2>3, <2>4, Zenon
<1> HIDE DEF b
<1>3. /\ sock' = "open" => sock = "open"
      /\ sock' = "open" /\ WholeLines(LogStream) => WholeLines(LogStream')
      /\ sock' = "open" => /\ LogsOn(LogStream) \subseteq LogsOn(LogStream')
                           /\ Sent' \subseteq Sent \union LogsOn(LogStream')
  BY <1>1, <1>2, NodeAdds DEF WholeLines
<1>4. /\ Framed(Pending) /\ (sock = "open" => WholeLines(Pending))
         => Framed(Pending') /\ (sock' = "open" => WholeLines(Pending'))
  <2>1. Pending' = setupBuf \o wire'
    BY <1>0 DEF Pending
  <2> QED
    BY <1>0, <2>1, NodeAdds DEF Pending
\* A log just sent is none of those that are in a buffer.
<1>5. ASSUME ~ burst PROVE LogsOn(LogStream) \intersect (Sent' \ Sent) = {}
  <2>1. \A h \in Range(LogStream) : h[1] <= emitted
    BY <1>0, <1>5 DEF EventOrder
  <2>2. \A n \in LogsOn(LogStream) : n <= emitted
    <3>1. \A n \in LogsOn(LogStream) : \E h \in Range(LogStream) : n = h[1]
      BY DEF LogsOn, Range
    <3> QED
      BY <2>1, <3>1
  <2>3. sentIn' = sentIn \/ (sentIn' = [sentIn EXCEPT ![emitted + 1] = conn])
    BY DEF GethStep, GethReplies, GethLogs, GethCloses
  <2>4. conn' = conn
    BY NodeOnStream DEF EventInv
  <2>5. Sent' \ Sent \subseteq {emitted + 1}
    BY <2>3, <2>4 DEF Sent, StreamTypeOK
  <2>6. emitted \in Nat
    BY DEF StreamTypeOK
  <2> QED
    BY <2>2, <2>5, <2>6
<1>6. ASSUME ~ burst, Glued(buf, Sent) PROVE Glued(buf, Sent')
  <2>1. buf \o <<>> = buf
    BY <1>0, ConcatEmptySeq
  <2>2. LogsOn(buf) \subseteq LogsOn(LogStream)
    BY <1>0, StreamParts
  <2>3. LogsOn(buf) \intersect (Sent' \ Sent) = {}
    BY <1>5, <1>6, <2>2
  <2>4. Glued(buf \o <<>>, Sent')
    BY <1>0, <1>6, <2>3, EmptyWhole, GluedConcat
  <2> QED
    BY <2>1, <2>4
<1>7. ASSUME ~ burst, sock' = "open", Glued(LogStream, Sent) PROVE Glued(LogStream', Sent')
  <2>1. \E w \in Seq(Half) : LogStream' = LogStream \o w /\ WholeLines(w)
    <3>1. \A m \in Failure..MaxLogs : Whole(m) \in Seq(Half) /\ WholeLines(Whole(m))
      BY WholeType, OneWhole
    <3>2. Reply \in Failure..MaxLogs /\ Failure \in Failure..MaxLogs /\ 1..MaxLogs \subseteq Failure..MaxLogs
      BY StreamAssumption DEF Reply, Failure
    <3>3. LogStream \o <<>> = LogStream
      BY <1>0, ConcatEmptySeq
    <3>4. \/ \E m \in Failure..MaxLogs : LogStream' = LogStream \o Whole(m)
          \/ LogStream' = LogStream
      BY <1>7, <3>2, NodeOnStream DEF EventInv
    <3> QED
      BY <1>0, <3>1, <3>3, <3>4, EmptyWhole
  <2>2. PICK w \in Seq(Half) : LogStream' = LogStream \o w /\ WholeLines(w)
    BY <2>1
  <2>3. LogsOn(LogStream) \intersect (Sent' \ Sent) = {}
    BY <1>5, <1>7
  <2>4. Glued(LogStream \o w, Sent')
    BY <1>0, <1>7, <2>2, <2>3, GluedConcat
  <2> QED
    BY <2>2, <2>4
<1>8. EventFrames'
  <2>1. ASSUME ~ burst, ePc \in {"request", "read", "leftover"}
        PROVE  /\ Framed(Pending') /\ (sock' = "open" => WholeLines(Pending'))
               /\ IF torn THEN Glued(buf, Sent') ELSE WholeLines(buf)
    <3>1. /\ Framed(Pending) /\ (sock = "open" => WholeLines(Pending))
          /\ IF torn THEN Glued(buf, Sent) ELSE WholeLines(buf)
      BY <1>0, <2>1 DEF EventFrames
    <3> QED
      BY <1>4, <1>6, <2>1, <3>1
  <2>2. ASSUME ePc = "main", sock' = "open" PROVE WholeLines(LogStream') \/ (torn /\ Glued(LogStream', Sent'))
    <3>1. ~ burst /\ sock = "open"
      BY <1>0, <1>3, <2>2 DEF EventPhases
    <3>2. WholeLines(LogStream) \/ (torn /\ Glued(LogStream, Sent))
      BY <1>0, <2>2, <3>1 DEF EventFrames
    <3> QED
      BY <1>3, <1>7, <2>2, <3>1, <3>2
  <2> QED
    BY <1>0, <2>1, <2>2 DEF EventFrames
<1>9. EventAccount'
  <2>1. ASSUME sock' = "open" PROVE \A m : Sent \subseteq Kept \union m => Sent' \subseteq Kept' \union m
    BY <1>0, <1>3, <2>1 DEF Kept
  <2>2. ASSUME sock' = "open" PROVE Sent \subseteq Kept => Sent' \subseteq Kept'
    BY <1>0, <1>3, <2>2 DEF Kept
  <2> QED
    BY <1>0, <1>3, <2>1, <2>2 DEF EventAccount
<1> QED
  BY <1>8, <1>9

-----------------------------------------------------------------------------
(* Both                                                                    *)

ListenersInv ==
    /\ StreamTypeOK
    /\ ePc = "off" \/ rPc = "off"
    /\ EventInv
    /\ ReceiverInv

LEMMA EventInvInit ==
    ASSUME StreamInit, NEW pc \in {"off", "connect"}, EventInit(pc)
    PROVE  EventInv
<1>0. /\ ePc = pc /\ made = 0 /\ setupBuf = <<>> /\ buf = <<>> /\ handled = <<>>
      /\ troubled = FALSE /\ burst = FALSE /\ torn = FALSE /\ undecoded = FALSE
      /\ sock = "closed" /\ wire = <<>> /\ asked = 0 /\ emitted = 0 /\ dead = FALSE
  BY DEF EventInit, StreamInit
<1>1. EventTypeOK
  <2>1. 0 \in 0..Events /\ <<>> \in Seq(Half) /\ <<>> \in Seq(1..MaxLogs)
    BY EventsAssumption
  <2>2. ePc \in {"off", "connect", "request", "read", "leftover", "main"}
    BY <1>0
  <2> QED
    BY <1>0, <2>1, <2>2 DEF EventTypeOK
<1>2. HandledInOrder /\ DeathExplained
  BY <1>0 DEF HandledInOrder, DeathExplained
<1>3. LogStream = <<>> /\ Range(LogStream) = {} /\ Range(handled) = {}
  <2>1. LogStream = <<>>
    BY <1>0 DEF LogStream, Pending
  <2>2. Range(<<>>) = {}
    BY DEF Range
  <2> QED
    BY <1>0, <2>1, <2>2
<1>4. EventPhases /\ EventReplies /\ EventFrames /\ EventAccount
  BY <1>0, <1>3, EventsAssumption DEF EventPhases, EventReplies, NoReply, EventFrames, EventAccount, HasLine
<1>5. EventOrder /\ EventOwn
  BY <1>0, <1>3 DEF EventOrder, Ordered, EventOwn
<1> QED
  BY <1>1, <1>2, <1>4, <1>5 DEF EventInv, EventFlow

LEMMA ListenersInvInit == ListenersInit => ListenersInv
<1> SUFFICES ASSUME ListenersInit PROVE ListenersInv
  OBVIOUS
<1>1. /\ StreamInit
      /\ \/ EventInit("connect") /\ ReceiverInit("off")
         \/ EventInit("off") /\ ReceiverInit("id")
  BY DEF ListenersInit
<1>2. StreamTypeOK
  <2>1. [n \in 1..MaxLogs |-> 0] \in [1..MaxLogs -> 0..0]
    OBVIOUS
  <2> QED
    <3>1. 0 \in 0..MaxLogs /\ 0 \in 0..MaxFaults /\ <<>> \in Seq(Half)
      BY StreamAssumption
    <3> QED
      BY <1>1, <2>1, <3>1 DEF StreamInit, StreamTypeOK
<1>3. EventInv
  BY <1>1, EventInvInit
<1>4. ReceiverInv
  BY <1>1, ReceiverInvInit
<1> QED
  BY <1>1, <1>2, <1>3, <1>4 DEF ListenersInv, EventInit, ReceiverInit

LEMMA EventsStep ==
    ASSUME ListenersInv, ~ dead, EventsNext
    PROVE  ListenersInv'
<1>0. StreamTypeOK /\ EventInv /\ ePc # "off" /\ rPc = "off" /\ UNCHANGED receiverVars
  BY DEF ListenersInv, EventsNext
<1>1. ReceiverInv' /\ rPc' = "off"
  <2>1. ReceiverTypeOK' /\ EmptyOnlyAfterClear' /\ rPc' = "off"
    BY <1>0 DEF ListenersInv, ReceiverInv, ReceiverTypeOK, EmptyOnlyAfterClear, receiverVars, clientVars
  <2> QED
    BY <2>1 DEF ReceiverInv, ReceiverFlow
<1>2. CASE EventStep
  <2>1. StreamTypeOK' /\ EventTypeOK'
    BY <1>0, <1>2, EventTypeStep, StreamOpType
  <2>2. DeathExplained' /\ (dead' => HandledInOrder')
    BY <1>0, <1>2, DeathStep
  <2>3. ASSUME ~ dead' PROVE EventFlow' /\ HandledInOrder'
    BY <1>0, <1>2, <2>3, PhasesStep, RepliesStep, OrderStep, OwnStep, FramesStep, AccountStep DEF EventFlow
  <2> QED
    BY <1>1, <2>1, <2>2, <2>3 DEF ListenersInv, EventInv
<1>3. CASE GethStep /\ UNCHANGED eventVars
  <2>1. StreamTypeOK'
    BY <1>0, <1>3, StreamOpType DEF StreamOp
  <2>2. EventTypeOK' /\ HandledInOrder'
    BY <1>0, <1>3 DEF EventInv, EventTypeOK, HandledInOrder, eventVars
  <2>3. ~ dead'
    BY <1>0, <1>3, NodeOnStream DEF EventInv
  <2>4. EventFlow'
    BY <1>0, <1>3, NodeOrderStep, NodeOwnStep, NodeFramesStep DEF EventFlow
  <2> QED
    BY <1>1, <2>1, <2>2, <2>3, <2>4 DEF ListenersInv, EventInv, DeathExplained
<1> QED
  BY <1>2, <1>3 DEF EventsNext

LEMMA UpdatesStep ==
    ASSUME ListenersInv, ~ dead, UpdatesNext
    PROVE  ListenersInv'
<1>0. StreamTypeOK /\ ReceiverInv /\ rPc # "off" /\ ePc = "off" /\ UNCHANGED eventVars
  BY DEF ListenersInv, UpdatesNext
<1>1. EventInv' /\ ePc' = "off"
  <2>1. EventTypeOK' /\ HandledInOrder' /\ ePc' = "off"
    BY <1>0 DEF ListenersInv, EventInv, EventTypeOK, HandledInOrder, eventVars
  <2> QED
    BY <2>1 DEF EventInv, DeathExplained
<1>2. CASE ReceiverStep
  <2>1. StreamTypeOK'
    BY <1>0, <1>2, ReceiverStreamOp, StreamOpType DEF ReceiverInv
  <2>2. ReceiverTypeOK' /\ (rPc' = "insert" => incoming' # 0) /\ EmptyOnlyAfterClear'
    BY <1>0, <1>2, ReceiverTypeStep, EmptyStep DEF ReceiverInv
  <2>3. ReceiverFlow'
    BY <1>0, <1>2, ReceiverFlowStep
  <2> QED
    BY <1>1, <2>1, <2>2, <2>3 DEF ListenersInv, ReceiverInv
<1>3. CASE ClientStep \/ ClientWakesSpuriously
  <2>1. UNCHANGED streamVars
    BY <1>3 DEF ClientStep, ClientWakesSpuriously, SizeLocked, SizeZero, SizeUnlocked, WaitForUpdate, TakeUpdates, Take
  <2>2. StreamTypeOK'
    BY <1>0, <2>1, StreamOpType DEF StreamOp
  <2>3. ReceiverTypeOK' /\ (rPc' = "insert" => incoming' # 0) /\ EmptyOnlyAfterClear'
    BY <1>0, <1>3, ClientTypeStep, EmptyStep DEF ReceiverInv
  <2>4. ReceiverFlow'
    BY <1>0, <1>3, ClientFlowStep DEF ReceiverInv
  <2> QED
    BY <1>1, <2>2, <2>3, <2>4 DEF ListenersInv, ReceiverInv
<1>4. CASE OwnIdChanges
  <2>1. /\ UNCHANGED <<rPc, rNext, subId, replyBuf, rBuf, incoming, updates, setups, uPc, tested, got, mishap>>
        /\ UNCHANGED <<sock, wire, conn, sentIn, dead>> /\ UNCHANGED streamVars
    BY <1>4 DEF OwnIdChanges, streamVars, clientVars
  <2>2. StreamTypeOK'
    BY <1>0, <2>1, StreamOpType DEF StreamOp
  <2>3. me' \in Topic \union {0} /\ moves' \in 0..MaxMoves
    BY <1>0, <1>4, MovesAssumption DEF OwnIdChanges, ReceiverInv, ReceiverTypeOK
  <2>4. ReceiverTypeOK' /\ (rPc' = "insert" => incoming' # 0) /\ EmptyOnlyAfterClear'
    BY <1>0, <2>1, <2>3 DEF ReceiverInv, ReceiverTypeOK, EmptyOnlyAfterClear
  <2>5. Sent' = Sent
    BY <2>1 DEF Sent
  <2>6. ReceiverFlow'
    BY <1>0, <2>1, <2>5 DEF ReceiverInv, ReceiverFlow
  <2> QED
    BY <1>1, <2>2, <2>4, <2>6 DEF ListenersInv, ReceiverInv
<1>5. CASE GethStep /\ UNCHANGED receiverVars
  <2>1. StreamTypeOK'
    BY <1>0, <1>5, StreamOpType DEF StreamOp
  <2> QED
    BY <1>0, <1>1, <1>5, <2>1, NodeFlowStep DEF ListenersInv
<1>6. CASE OwnIdUnread
  <2>1. Dies /\ UNCHANGED receiverVars
    BY <1>6 DEF OwnIdUnread
  <2>2. StreamTypeOK' /\ dead'
    BY <1>0, <2>1, StreamOpType DEF StreamOp, Dies
  <2>3. ReceiverTypeOK' /\ (rPc' = "insert" => incoming' # 0) /\ EmptyOnlyAfterClear'
    BY <1>0, <2>1 DEF ReceiverInv, ReceiverTypeOK, EmptyOnlyAfterClear, receiverVars, clientVars
  <2> QED
    BY <1>1, <2>2, <2>3 DEF ListenersInv, ReceiverInv, ReceiverFlow
<1> QED
  BY <1>2, <1>3, <1>4, <1>5, <1>6 DEF UpdatesNext

LEMMA ListenersInvNext == ListenersInv /\ [ListenersNext]_listenerVars => ListenersInv'
<1> SUFFICES ASSUME ListenersInv, [ListenersNext]_listenerVars PROVE ListenersInv'
  OBVIOUS
<1>1. CASE ListenersNext
  BY <1>1, EventsStep, UpdatesStep DEF ListenersNext
<1>2. CASE UNCHANGED listenerVars
  <2>0. UNCHANGED <<streamVars, eventVars, receiverVars>>
    BY <1>2 DEF listenerVars
  <2>1. StreamTypeOK'
    BY <2>0, StreamOpType DEF ListenersInv, StreamOp
  <2>2. LogStream' = LogStream /\ Pending' = Pending /\ Sent' = Sent /\ Kept' = Kept
    BY <2>0 DEF streamVars, eventVars, LogStream, Pending, Sent, Kept
  <2>3. EventTypeOK' /\ HandledInOrder' /\ DeathExplained'
    BY <2>0 DEF ListenersInv, EventInv, EventTypeOK, HandledInOrder, DeathExplained, streamVars, eventVars
  <2>4. ePc' # "off" /\ ~ dead' => EventFlow'
    <3> SUFFICES ASSUME ePc # "off", ~ dead PROVE EventFlow'
      BY <2>0 DEF streamVars, eventVars
    <3>1. EventPhases /\ EventReplies /\ EventOrder /\ EventOwn /\ EventFrames /\ EventAccount
      BY DEF ListenersInv, EventInv, EventFlow
    <3>2. EventPhases' /\ EventReplies' /\ EventOrder' /\ EventOwn'
      BY <2>0, <2>2, <3>1 DEF EventPhases, EventReplies, EventOrder, EventOwn, Known, streamVars, eventVars
    <3>3. EventFrames' /\ EventAccount'
      BY <2>0, <2>2, <3>1 DEF EventFrames, EventAccount, streamVars, eventVars
    <3> QED
      BY <3>2, <3>3 DEF EventFlow
  <2>5. ReceiverTypeOK' /\ EmptyOnlyAfterClear' /\ (rPc' = "insert" => incoming' # 0)
    BY <2>0 DEF ListenersInv, ReceiverInv, ReceiverTypeOK, EmptyOnlyAfterClear, receiverVars, clientVars
  <2>6. ReceiverFlow'
    BY <2>0, <2>2 DEF ListenersInv, ReceiverInv, ReceiverFlow, streamVars, receiverVars
  <2> QED
    BY <2>0, <2>1, <2>3, <2>4, <2>5, <2>6 DEF ListenersInv, EventInv, ReceiverInv, eventVars, receiverVars
<1> QED
  BY <1>1, <1>2

THEOREM ListenersInvariant == ListenersSpec => []ListenersInv
  BY ListenersInvInit, ListenersInvNext, PTL DEF ListenersSpec

\* Every variable of either thread and of its stream has its type.
THEOREM ListenersTypeCorrect == ListenersSpec => []ListenersTypeOK
<1>1. ListenersInv => ListenersTypeOK
  BY DEF ListenersInv, EventInv, ReceiverInv, ListenersTypeOK
<1> QED
  BY <1>1, ListenersInvariant, PTL

\* The logs are passed to setEventLog in the order in which the node emitted
\* them, none twice, over any number of connections.
THEOREM LogsInOrder == ListenersSpec => []HandledInOrder
<1>1. ListenersInv => HandledInOrder
  BY DEF ListenersInv, EventInv
<1> QED
  BY <1>1, ListenersInvariant, PTL

\* The event listener ends for a setup that the connection failed, something
\* behind the last reply or a log that ethabi fails on, and for no other reason:
\* no way of cutting the stream into reads ends it, and no log of a subscription
\* that it does not know.
THEOREM DeathsExplained == ListenersSpec => []DeathExplained
<1>1. ListenersInv => DeathExplained
  BY DEF ListenersInv, EventInv
<1> QED
  BY <1>1, ListenersInvariant, PTL

\* While a connection lasts the event listener loses no log, but one at most
\* behind a line that the previous connection left torn.
THEOREM NoLogMissing == ListenersSpec => []LogsAccounted
<1>1. ASSUME ListenersInv PROVE LogsAccounted
  <2> SUFFICES ASSUME ePc # "off", sock = "open", ~ dead
               PROVE  Cardinality(MissingLogs) <= IF torn THEN 1 ELSE 0
    BY DEF LogsAccounted
  <2>1. EventAccount /\ buf \in Seq(Half) /\ setupBuf \in Seq(Half) /\ wire \in Seq(Half)
    BY <1>1, EventBuffers DEF ListenersInv, EventInv, EventFlow
  <2>2. LogsOn(LogStream) = LogsOn(buf) \union LogsOn(setupBuf) \union LogsOn(wire)
    BY <2>1, StreamParts
  <2>3. MissingLogs = Sent \ Kept
    BY <2>2 DEF MissingLogs, Sent, Kept
  <2>4. CASE Sent \subseteq Kept
    <3>1. MissingLogs = {}
      BY <2>3, <2>4
    <3> QED
      BY <3>1, FS_EmptySet
  <2>5. CASE torn /\ \E m \in 1..MaxLogs : Sent \subseteq Kept \union {m}
    <3>1. PICK m \in 1..MaxLogs : Sent \subseteq Kept \union {m}
      BY <2>5
    <3>2. MissingLogs = {} \/ MissingLogs = {m}
      BY <2>3, <3>1
    <3>3. Cardinality({}) = 0 /\ Cardinality({m}) = 1
      BY FS_EmptySet, FS_Singleton
    <3> QED
      BY <2>5, <3>2, <3>3
  <2> QED
    BY <2>1, <2>4, <2>5 DEF EventAccount
<1> QED
  BY <1>1, ListenersInvariant, PTL

\* While a connection lasts an update that was not read together with the reply
\* is on its way to the client or with it.
THEOREM NoUpdateMissing == ListenersSpec => []UpdatesAccounted
<1>1. ASSUME ListenersInv PROVE UpdatesAccounted
  <2> SUFFICES ASSUME rPc # "off", sock = "open", ~ mishap, ~ dead
               PROVE  Sent \subseteq LogsOn(wire) \union LogsOn(replyBuf) \union LogsOn(rBuf) \union {incoming} \union updates \union got
    BY DEF UpdatesAccounted, Sent
  <2>1. ReceiverFlow /\ ReceiverTypeOK /\ wire \in Seq(Half) /\ replyBuf \in Seq(Half) /\ rBuf \in Seq(Half)
    BY <1>1 DEF ListenersInv, ReceiverInv, ReceiverTypeOK, StreamTypeOK
  <2>2. /\ LogsOn(replyBuf \o wire) = LogsOn(replyBuf) \union LogsOn(wire)
        /\ LogsOn(rBuf \o wire) = LogsOn(rBuf) \union LogsOn(wire)
    BY <2>1, LogsOfConcat
  <2>3. rPc \in {"request", "read"} \union Collecting
    BY <2>1 DEF ReceiverFlow, ReceiverTypeOK, Collecting
  <2>4. CASE rPc \in {"request", "read"}
    BY <2>1, <2>2, <2>4 DEF ReceiverFlow
  <2>5. CASE rPc \in Collecting
    BY <2>1, <2>2, <2>5 DEF ReceiverFlow
  <2> QED
    BY <2>3, <2>4, <2>5
<1> QED
  BY <1>1, ListenersInvariant, PTL

\* The client is given an empty set only where a setup cleared it.
THEOREM EmptyExplained == ListenersSpec => []EmptyOnlyAfterClear
<1>1. ListenersInv => EmptyOnlyAfterClear
  BY DEF ListenersInv, ReceiverInv
<1> QED
  BY <1>1, ListenersInvariant, PTL

-----------------------------------------------------------------------------
(* The feed                                                                *)

\* A log that is handled was emitted, and after those handled before.
LEMMA NextLog ==
    ASSUME StreamTypeOK, EventInv, ePc # "off", ~ dead, ListenerHandles, handled' # handled
    PROVE  \E m \in 1..emitted : handled' = Append(handled, m) /\ \A n \in Range(handled) : n < m
<1> DEFINE s == LogStream
           m == Parsed(Line(s))
<1>1. /\ ePc = "main" /\ s \in Seq(Half) /\ HasLine(s)
      /\ handled' = IF m \in 1..MaxLogs THEN Append(handled, m) ELSE handled
  <2>1. ~ dead'
    BY DEF ListenerHandles, ListenerDecodes, streamVars
  <2> QED
    BY <2>1, LineTaken
<1>2. ~ burst /\ EventOrder /\ emitted \in Nat
  BY <1>1 DEF EventInv, EventFlow, EventPhases, StreamTypeOK
<1>3. /\ Ordered(s) /\ \A h \in Range(s) : h[1] <= emitted
      /\ \A n \in Range(handled), h \in Range(s) : IsLog(h[1]) => n < h[1]
  BY <1>2 DEF EventOrder
<1> HIDE DEF s
<1>4. m \in 1..MaxLogs /\ m \notin {Failure, Garbled} /\ IsLog(m) /\ handled' = Append(handled, m)
  BY <1>1 DEF Failure, Garbled, IsLog
<1>5. \E h \in Range(s) : h[1] = m
  BY <1>1, <1>3, <1>4, OrderAfterWhole
<1> HIDE DEF m
<1>6. m \in 1..emitted /\ \A n \in Range(handled) : n < m
  BY <1>2, <1>3, <1>4, <1>5
<1> QED
  BY <1>4, <1>6

LEMMA NodeFeeds ==
    ASSUME GethStep, UNCHANGED handled
    PROVE  [Feed!Next]_(Feed!vars)
  BY DEF GethStep, GethReplies, GethLogs, GethCloses, Feed!Next, Feed!Emit, Feed!vars

LEMMA FeedStep == ListenersInv /\ [ListenersNext]_listenerVars => [Feed!Next]_(Feed!vars)
<1> SUFFICES ASSUME ListenersInv, [ListenersNext]_listenerVars PROVE [Feed!Next]_(Feed!vars)
  OBVIOUS
<1>1. CASE UNCHANGED <<emitted, handled>>
  BY <1>1 DEF Feed!vars
<1>2. CASE UNCHANGED listenerVars
  BY <1>1, <1>2 DEF listenerVars, streamVars, eventVars
<1>3. ASSUME ~ dead, ePc # "off", EventStep PROVE [Feed!Next]_(Feed!vars)
  <2>1. StreamTypeOK /\ EventInv
    BY DEF ListenersInv
  <2>2. emitted' = emitted
    BY <1>3 DEF EventStep, SetupConnect, SetupRequest, SetupReceive, SetupParse, SetupDone, SetupLeftover,
       SetupLog, SetupFails, ListenerReceive, ListenerReconnects, ListenerHandles, ListenerDecodes,
       Connect, Refused, Dies, Request, Receive, Close, streamVars
  <2>3. CASE ListenerHandles /\ handled' # handled
    <3>1. PICK m \in 1..emitted : handled' = Append(handled, m) /\ \A n \in Range(handled) : n < m
      BY <1>3, <2>1, <2>3, NextLog
    <3>2. \A i \in DOMAIN handled : handled[i] < m
      BY <3>1 DEF Range
    <3>3. Feed!HandOver(m)
      BY <2>2, <3>1, <3>2 DEF Feed!HandOver
    <3> QED
      BY <3>3 DEF Feed!Next
  <2>4. handled' = handled \/ ListenerHandles
    BY <1>3 DEF EventStep, SetupConnect, SetupRequest, SetupReceive, SetupParse, SetupDone, SetupLeftover,
       ListenerReceive, ListenerReconnects
  <2> QED
    BY <1>1, <2>2, <2>3, <2>4
<1>4. CASE GethStep /\ UNCHANGED eventVars
  BY <1>4, NodeFeeds DEF eventVars
<1>5. CASE UpdatesNext
  <2>1. handled' = handled
    BY <1>5 DEF UpdatesNext, eventVars
  <2>2. CASE GethStep
    BY <2>1, <2>2, NodeFeeds
  <2>3. CASE ReceiverStep
    <3>1. StreamOp
      BY <2>3, ReceiverStreamOp DEF ListenersInv, ReceiverInv
    <3>2. GethStep \/ emitted' = emitted
      BY <3>1 DEF StreamOp, Connect, Refused, Dies, Close, Request, Receive, streamVars
    <3> QED
      BY <1>1, <2>1, <2>2, <3>2
  <2>4. CASE ClientStep \/ ClientWakesSpuriously \/ OwnIdChanges \/ OwnIdUnread
    <3>1. emitted' = emitted
      BY <2>4 DEF ClientStep, ClientWakesSpuriously, SizeLocked, SizeZero, SizeUnlocked, WaitForUpdate, TakeUpdates,
         Take, OwnIdChanges, OwnIdUnread, Dies, streamVars
    <3> QED
      BY <1>1, <2>1, <3>1
  <2> QED
    BY <1>5, <2>2, <2>3, <2>4 DEF UpdatesNext
<1> QED
  BY <1>2, <1>3, <1>4, <1>5 DEF ListenersNext, EventsNext

LEMMA FeedInit == ListenersInit => Feed!Init
  BY DEF ListenersInit, StreamInit, EventInit, Feed!Init

\* The listener thread is a feed of logs: what it hands to setEventLog was
\* emitted, comes in the order of emission and never twice, whatever the reads
\* cut, the node closes and the thread connects to again.
THEOREM IsFeed == ListenersSpec => ImplementsFeed
  BY FeedInit, FeedStep, ListenersInvariant, PTL DEF ListenersSpec, ImplementsFeed, Feed!Spec

-----------------------------------------------------------------------------
(* Threads that wait for the node                                          *)

Answers == {Reply, Failure}

\* What reaches an open connection: an answer to the request that is out, or a
\* log of a topic subscribed to.
LEMMA NodeSends ==
    ASSUME StreamTypeOK, GethStep, sock' = "open"
    PROVE  /\ sock = "open" /\ UNCHANGED <<conn, dead>>
           /\ \/ UNCHANGED <<wire, asked, subs>>
              \/ asked # 0 /\ asked' = 0 /\ \E m \in Answers : wire' = wire \o Whole(m)
              \/ /\ subs # {} /\ UNCHANGED <<asked, subs>>
                 /\ emitted' \in 1..MaxLogs /\ wire' = wire \o Whole(emitted')
<1>1. CASE GethReplies
  BY <1>1 DEF GethReplies, Answers
<1>2. CASE GethLogs
  <2>1. emitted' \in 1..MaxLogs
    BY <1>2, StreamAssumption DEF GethLogs, StreamTypeOK
  <2> QED
    BY <1>2, <2>1 DEF GethLogs
<1> QED
  BY <1>1, <1>2 DEF GethStep, GethCloses

LEMMA WholeHalves ==
    ASSUME NEW m \in Answers \union (1..MaxLogs)
    PROVE  /\ m \in Failure..MaxLogs /\ Whole(m) \in Seq(Half) /\ Len(Whole(m)) = 2
           /\ Whole(m)[1] = <<m, 1>> /\ Range(Whole(m)) = {<<m, 1>>, <<m, 2>>}
<1>1. m \in Failure..MaxLogs
  BY StreamAssumption DEF Answers, Reply, Failure
<1> QED
  BY <1>1, WholeType, RangeOfWhole

\* Whole messages that are no line are none.
LEMMA NoLineNothing ==
    ASSUME NEW s \in Seq(Half), WholeLines(s), ~ HasLine(s)
    PROVE  s = <<>>
<1> SUFFICES ASSUME s # <<>> PROVE FALSE
  OBVIOUS
<1>1. Len(s) \in DOMAIN s
  OBVIOUS
<1> QED
  BY <1>1 DEF WholeLines, HasLine

\* While the setup waits for a reply that is not yet in subscribeParse, an
\* answer is on its way or the node owes it.
ReplyDue ==
    ePc = "read" /\ ~ burst /\ sock = "open" /\ asked = 0 /\ ~ dead =>
        \E h \in Range(Pending) : h[1] \in Answers

LEMMA ReplyDueEvent ==
    ASSUME StreamTypeOK, EventInv, ePc # "off", ~ dead, ReplyDue, EventStep
    PROVE  ReplyDue'
<1> SUFFICES ASSUME ePc' = "read", ~ burst', sock' = "open", asked' = 0, ~ dead'
             PROVE  \E h \in Range(Pending') : h[1] \in Answers
  BY DEF ReplyDue
<1>0. /\ buf \in Seq(Half) /\ setupBuf \in Seq(Half) /\ wire \in Seq(Half)
      /\ EventFrames /\ EventPhases
  BY EventBuffers DEF EventInv, EventFlow
<1>1. ~ SetupRequest
  BY DEF SetupRequest, Request, Dies, EventInv, EventTypeOK
<1>2. CASE SetupReceive
  <2>1. PICK n \in 1..Len(wire) : Receive(n) /\ setupBuf' = setupBuf \o SubSeq(wire, 1, n)
    BY <1>2 DEF SetupReceive, Dies
  <2>2. wire' = SubSeq(wire, n + 1, Len(wire)) /\ UNCHANGED <<sock, asked, ePc, burst>>
    BY <1>2, <2>1 DEF Receive, SetupReceive
  <2>3. Pending' = Pending
    BY <1>0, <2>1, <2>2, ReadMoves DEF Pending
  <2> QED
    BY <2>2, <2>3 DEF ReplyDue
<1>3. CASE SetupParse
  <2> DEFINE m == Parsed(Line(setupBuf))
  <2>1. /\ ePc = "read" /\ HasLine(setupBuf) /\ m \in 1..MaxLogs /\ setupBuf' = After(setupBuf)
        /\ UNCHANGED <<wire, sock, asked, burst>>
    BY <1>3, EventsAssumption DEF SetupParse, SetupLog, SetupFails, Dies, streamVars
  <2>2. Pending \in Seq(Half)
    BY <1>0, StreamParts
  <2>3. HasLine(Pending) /\ Line(Pending) = Line(setupBuf) /\ Pending' = After(Pending)
    BY <1>0, <2>1, SetupLine DEF Pending
  <2>4. Framed(Pending)
    BY <1>0, <2>1 DEF EventFrames
  <2> DEFINE s == Pending
  <2> HIDE DEF s
  <2>5. s \in Seq(Half) /\ HasLine(s) /\ Framed(s)
    BY <2>2, <2>3, <2>4 DEF s
  <2>6. LineEnd(s) = 2 /\ s[1][1] = m /\ Len(s) \in Nat /\ 2 <= Len(s)
    <3>1. LineEnd(s) = 2 /\ Parsed(Line(s)) = s[1][1]
      BY <2>5, FramedLine
    <3>2. LineEnd(s) \in 1..Len(s) /\ Len(s) \in Nat
      BY <2>5, FirstLine
    <3> QED
      BY <2>3, <3>1, <3>2 DEF s
  <2>7. s[2][1] = m
    <3>1. 1 \in 1..Len(s) /\ 1 \in 1..(Len(s) - 1)
      BY <2>6
    <3>2. s # <<>>
      BY <2>5, <2>6
    <3>3. s[1][2] = 1 /\ Follows(s[1], s[1 + 1])
      BY <2>5, <3>1, <3>2 DEF Framed
    <3> QED
      BY <2>6, <3>3 DEF Follows
  <2>8. PICK h \in Range(s) : h[1] \in Answers
    BY <2>1 DEF ReplyDue, s
  <2>9. PICK i \in 1..Len(s) : h = s[i]
    BY <2>5, RangeIs
  <2>10. m \notin Answers
    BY <2>1 DEF Answers, Reply, Failure
  <2> HIDE DEF m
  <2>11. i # 1 /\ i # 2
    BY <2>6, <2>7, <2>8, <2>9, <2>10
  <2>12. i - 2 \in 1..(Len(s) - 2) /\ 2 + (i - 2) = i
    BY <2>6, <2>9, <2>11
  <2>13. After(s) \in Seq(Half) /\ Len(After(s)) = Len(s) - 2 /\ After(s)[i - 2] = s[i]
    <3>1. /\ After(s) \in Seq(Half) /\ Len(After(s)) = Len(s) - LineEnd(s)
          /\ \A j \in 1..(Len(s) - LineEnd(s)) : After(s)[j] = s[LineEnd(s) + j]
      BY <2>5, LineParts
    <3>2. After(s)[i - 2] = s[2 + (i - 2)]
      BY <2>6, <2>12, <3>1
    <3> QED
      BY <2>6, <2>12, <3>1, <3>2
  <2>14. h \in Range(After(s))
    BY <2>9, <2>12, <2>13, RangeIs
  <2> QED
    BY <2>3, <2>8, <2>14 DEF s
<1>4. ~ SetupConnect /\ ~ SetupDone /\ ~ SetupLeftover /\ ~ ListenerReceive /\ ~ ListenerReconnects /\ ~ ListenerHandles
  BY DEF SetupConnect, SetupDone, SetupLeftover, ListenerReceive, ListenerReconnects, ListenerHandles
<1> QED
  BY <1>1, <1>2, <1>3, <1>4 DEF EventStep

LEMMA ReplyDueNode ==
    ASSUME StreamTypeOK, EventInv, ReplyDue, GethStep, UNCHANGED eventVars
    PROVE  ReplyDue'
<1> SUFFICES ASSUME ePc = "read", ~ burst, sock' = "open", asked' = 0, ~ dead'
             PROVE  \E h \in Range(Pending') : h[1] \in Answers
  BY DEF ReplyDue, eventVars
<1>0. /\ setupBuf \in Seq(Half) /\ wire \in Seq(Half) /\ setupBuf' = setupBuf
  BY EventBuffers DEF EventInv, eventVars
<1>1. sock = "open" /\ ~ dead
  BY NodeSends
<1>2. CASE UNCHANGED <<wire, asked>>
  BY <1>0, <1>1, <1>2 DEF ReplyDue, Pending
<1>3. ASSUME NEW m \in Answers \union (1..MaxLogs), wire' = wire \o Whole(m), asked = 0 \/ m \in Answers
      PROVE  \E h \in Range(Pending') : h[1] \in Answers
  <2>1. Whole(m) \in Seq(Half) /\ Range(Whole(m)) = {<<m, 1>>, <<m, 2>>}
    BY WholeHalves
  <2>2. wire' \in Seq(Half) /\ Range(wire') = Range(wire) \union Range(Whole(m))
    BY <1>0, <1>3, <2>1, RangeOfConcat, ConcatProperties
  <2>3. /\ Range(setupBuf \o wire) = Range(setupBuf) \union Range(wire)
        /\ Range(setupBuf \o wire') = Range(setupBuf) \union Range(wire')
    BY <1>0, <2>2, RangeOfConcat
  <2>4. Range(Pending') = Range(Pending) \union {<<m, 1>>, <<m, 2>>}
    BY <1>0, <2>1, <2>2, <2>3 DEF Pending
  <2> QED
    BY <1>1, <1>3, <2>4 DEF ReplyDue
<1> QED
  BY <1>2, <1>3, NodeSends

LEMMA ReplyDueStep == ListenersInv /\ ReplyDue /\ [ListenersNext]_listenerVars => ReplyDue'
<1> SUFFICES ASSUME ListenersInv, ReplyDue, [ListenersNext]_listenerVars PROVE ReplyDue'
  OBVIOUS
<1>1. CASE ListenersNext /\ EventsNext
  <2>1. StreamTypeOK /\ EventInv /\ ePc # "off" /\ ~ dead
    BY <1>1 DEF ListenersInv, EventsNext, ListenersNext
  <2> QED
    BY <1>1, <2>1, ReplyDueEvent, ReplyDueNode DEF EventsNext
<1>2. CASE UpdatesNext
  BY <1>2 DEF UpdatesNext, ListenersInv, eventVars, ReplyDue
<1>3. CASE UNCHANGED listenerVars
  BY <1>3 DEF listenerVars, streamVars, eventVars, ReplyDue, Pending
<1> QED
  BY <1>1, <1>2, <1>3 DEF ListenersNext

\* The listener or the node has a step to take on an open connection.
ListenerMoves ==
    \/ ePc \in {"connect", "request", "leftover"}
    \/ wire # <<>> \/ asked # 0
    \/ HasLine(IF ePc = "read" THEN setupBuf ELSE buf)

\* Each log the node sent in this connection has reached setEventLog, once nobody
\* has a step to take; excepted as in LogHandled.
FeedComplete ==
    ePc # "off" /\ ~ dead /\ sock = "open" /\ ~ burst /\ ~ torn /\ ~ ListenerMoves
        => \A n \in 1..MaxLogs : sentIn[n] = conn => n \in Range(handled)

\* Where neither the listener nor the node has anything left to do, each log of
\* the connection has reached setEventLog, but for what LogHandled excepts: the
\* setup does not starve and no log is left in a buffer.
THEOREM NoLogForgotten == ListenersSpec => []FeedComplete
<1>1. ASSUME ListenersInv, ReplyDue PROVE FeedComplete
  <2> SUFFICES ASSUME ePc # "off", ~ dead, sock = "open", ~ burst, ~ torn, ~ ListenerMoves
               PROVE  \A n \in 1..MaxLogs : sentIn[n] = conn => n \in Range(handled)
    BY DEF FeedComplete
  <2>0. /\ buf \in Seq(Half) /\ setupBuf \in Seq(Half) /\ wire \in Seq(Half)
        /\ EventFrames /\ EventPhases /\ EventAccount /\ EventTypeOK
    BY <1>1, EventBuffers DEF ListenersInv, EventInv, EventFlow
  <2>1. wire = <<>> /\ asked = 0 /\ ePc \in {"read", "main"}
    BY <1>1, <2>0 DEF ListenerMoves, EventTypeOK
  <2>2. Pending = setupBuf
    <3>1. \A w \in Seq(Half) : w \o <<>> = w
      BY ConcatEmptySeq
    <3> QED
      BY <2>0, <2>1, <3>1 DEF Pending
  <2>3. ePc = "main"
    <3> SUFFICES ASSUME ePc = "read" PROVE FALSE
      BY <2>1
    <3>1. WholeLines(setupBuf) /\ ~ HasLine(setupBuf)
      BY <1>1, <2>0, <2>2 DEF EventFrames, ListenerMoves
    <3>2. setupBuf = <<>>
      BY <2>0, <3>1, NoLineNothing
    <3>3. \E h \in Range(setupBuf) : h[1] \in Answers
      BY <1>1, <2>1, <2>2 DEF ReplyDue
    <3> QED
      BY <3>2, <3>3 DEF Range
  <2>4. LogStream = buf
    <3>1. \A w \in Seq(Half) : w \o <<>> = w
      BY ConcatEmptySeq
    <3> QED
      BY <2>0, <2>2, <2>3, <3>1 DEF LogStream, EventPhases
  <2>5. WholeLines(buf) /\ ~ HasLine(buf)
    BY <1>1, <2>0, <2>3, <2>4 DEF EventFrames, ListenerMoves
  <2>6. buf = <<>>
    BY <2>0, <2>5, NoLineNothing
  <2>7. Kept = Range(handled)
    BY <2>4, <2>6, LogsOfEmpty DEF Kept
  <2>8. Sent \subseteq Kept
    BY <1>1, <2>0 DEF EventAccount
  <2> QED
    BY <2>7, <2>8 DEF Sent
<1>2. ListenersInit => ReplyDue
  BY DEF ListenersInit, EventInit, ReplyDue
<1>3. ListenersSpec => []ReplyDue
  BY <1>2, ReplyDueStep, ListenersInvariant, PTL DEF ListenersSpec
<1> QED
  BY <1>1, <1>3, ListenersInvariant, PTL

\* What the receiver's setup still has to read.
ReplyStream == replyBuf \o wire

\* The setup asks for a topic, and what it reads first is the answer: the node
\* sends no log before.
AnswerFirst == rPc # "off" /\ ~ dead =>
    /\ rPc \in {"connect", "request"} => subId # 0
    /\ sock = "open" =>
          /\ rPc = "request" => asked = 0
          /\ rPc = "request" \/ (rPc = "read" /\ asked # 0) => ReplyStream = <<>> /\ subs = {}
          /\ rPc = "read" /\ asked = 0 => ReplyStream # <<>> /\ ReplyStream[1][1] \in Answers

LEMMA AnswerFirstReceiver ==
    ASSUME StreamTypeOK, ReceiverInv, rPc # "off", ~ dead, AnswerFirst, ReceiverStep
    PROVE  AnswerFirst'
<1> SUFFICES ASSUME ~ dead' PROVE AnswerFirst'
  BY DEF AnswerFirst
<1>0. /\ replyBuf \in Seq(Half) /\ wire \in Seq(Half) /\ subId \in Nat
      /\ ReceiverFlow /\ rNext \in {"check", "receive"}
  BY StreamAssumption DEF ReceiverInv, ReceiverTypeOK, StreamTypeOK
<1>1. CASE ReadOwnId
  BY <1>0, <1>1 DEF ReadOwnId, streamVars, ReceiverFlow, AnswerFirst
<1>2. CASE OpenStream
  <2>1. Connect /\ rPc = "connect" /\ rPc' = "request" /\ UNCHANGED <<replyBuf, subId>>
    BY <1>2 DEF OpenStream, Refused, Dies
  <2>2. wire' = <<>> /\ subs' = {} /\ asked' = 0 /\ replyBuf' = <<>> /\ subId # 0
    BY <1>0, <2>1 DEF Connect, ReceiverFlow, AnswerFirst
  <2>3. ReplyStream' = <<>>
    BY <2>2 DEF ReplyStream
  <2> QED
    BY <2>1, <2>2, <2>3 DEF AnswerFirst
<1>3. CASE RequestUpdates
  <2>1. Request(subId) /\ rPc = "request" /\ rPc' = "read" /\ UNCHANGED replyBuf
    BY <1>3 DEF RequestUpdates, Dies
  <2>2. asked' # 0 /\ UNCHANGED <<sock, subs>> /\ ReplyStream' = ReplyStream
    BY <2>1 DEF Request, AnswerFirst, ReplyStream
  <2> QED
    BY <2>1, <2>2 DEF AnswerFirst
<1>4. CASE ReadReply
  <2>1. CASE rPc' = "id"
    BY <1>0, <1>4, <2>1 DEF ReadReply, Receive, Dies, AtEnd, streamVars, AnswerFirst
  <2>2. CASE rPc' # "id"
    <3>1. PICK n \in 1..Len(wire) : Receive(n) /\ replyBuf' = replyBuf \o SubSeq(wire, 1, n) /\ rPc' = rPc
      BY <1>4, <2>2 DEF ReadReply, Dies
    <3>2. wire' = SubSeq(wire, n + 1, Len(wire)) /\ UNCHANGED <<sock, asked, subs, subId>>
      BY <1>4, <3>1 DEF ReadReply, Receive
    <3>3. ReplyStream' = ReplyStream
      BY <1>0, <3>1, <3>2, ReadMoves DEF ReplyStream
    <3> QED
      BY <3>1, <3>2, <3>3 DEF AnswerFirst
  <2> QED
    BY <2>1, <2>2
<1>5. CASE ParseReply
  <2>1. rPc' \in {"check", "receive"}
    BY <1>0, <1>5 DEF ParseReply, SubscribeReply, Dies
  <2> QED
    BY <2>1 DEF AnswerFirst
<1>6. CASE CheckOwnId \/ ReceiveUpdates
  <2>1. rPc' = "receive" \/ (rPc' = "id" /\ sock' = "closed")
    BY <1>6 DEF CheckOwnId, ReceiveUpdates, SetUpAgain, Close, Dies
  <2> QED
    BY <2>1 DEF AnswerFirst
<1>7. CASE ParseUpdate \/ InsertUpdate \/ NotifyUpdate
  <2>1. rPc' \in {"insert", "check", "notify"}
    BY <1>7 DEF ParseUpdate, Dies, InsertUpdate, NotifyUpdate
  <2> QED
    BY <2>1 DEF AnswerFirst
<1> QED
  BY <1>1, <1>2, <1>3, <1>4, <1>5, <1>6, <1>7 DEF ReceiverStep

LEMMA AnswerFirstNode ==
    ASSUME StreamTypeOK, ReceiverInv, rPc # "off", ~ dead, AnswerFirst, GethStep, UNCHANGED receiverVars
    PROVE  AnswerFirst'
<1>0. replyBuf \in Seq(Half) /\ wire \in Seq(Half) /\ UNCHANGED <<rPc, subId, replyBuf>>
  BY DEF ReceiverInv, ReceiverTypeOK, StreamTypeOK, receiverVars
<1> SUFFICES ASSUME sock' = "open", rPc \in {"request", "read"} PROVE AnswerFirst'
  BY <1>0 DEF AnswerFirst
<1>1. sock = "open" /\ dead' = dead
  BY NodeSends
<1>2. CASE UNCHANGED <<wire, asked, subs>>
  BY <1>0, <1>1, <1>2 DEF AnswerFirst, ReplyStream
<1>3. ASSUME NEW m \in Answers \union (1..MaxLogs), wire' = wire \o Whole(m)
      PROVE  /\ ReplyStream' # <<>>
             /\ ReplyStream = <<>> => ReplyStream'[1][1] = m
             /\ ReplyStream # <<>> => ReplyStream'[1] = ReplyStream[1]
  <2> DEFINE w == Whole(m)
             r == ReplyStream
  <2>1. w \in Seq(Half) /\ Len(w) = 2 /\ w[1] = <<m, 1>>
    BY <1>3, WholeHalves
  <2> HIDE DEF w
  <2>2. r \in Seq(Half) /\ ReplyStream' = r \o w
    <3>1. \A p, q, u \in Seq(Half) : p \o (q \o u) = (p \o q) \o u
      BY HalvesAssociative, Zenon
    <3>2. replyBuf \o (wire \o w) = (replyBuf \o wire) \o w
      BY <1>0, <2>1, <3>1, Zenon
    <3>3. ReplyStream' = replyBuf \o (wire \o w)
      BY <1>0, <1>3 DEF ReplyStream, w
    <3>4. replyBuf \o wire \in Seq(Half)
      BY <1>0, ConcatProperties
    <3> QED
      BY <3>2, <3>3, <3>4 DEF ReplyStream
  <2> HIDE DEF r
  <2>3. /\ Len(r \o w) = Len(r) + 2 /\ Len(r) \in Nat
        /\ \A i \in 1..(Len(r) + 2) : (r \o w)[i] = IF i <= Len(r) THEN r[i] ELSE w[i - Len(r)]
    <3>1. /\ r \o w \in Seq(Half) /\ Len(r \o w) = Len(r) + Len(w)
          /\ \A i \in 1..(Len(r) + Len(w)) : (r \o w)[i] = IF i <= Len(r) THEN r[i] ELSE w[i - Len(r)]
      BY <2>1, <2>2, ConcatProperties
    <3> QED
      BY <2>1, <2>2, <3>1
  <2>4. r = <<>> <=> Len(r) = 0
    BY <2>2, EmptySeq
  <2>5. r \o w # <<>>
    <3>1. Len(r \o w) # 0
      BY <2>3
    <3> QED
      BY <3>1
  <2>6. (r \o w)[1] = IF Len(r) = 0 THEN w[1] ELSE r[1]
    BY <2>3
  <2> QED
    BY <2>1, <2>2, <2>4, <2>5, <2>6 DEF r
<1>4. ASSUME NEW m \in Answers, wire' = wire \o Whole(m), asked # 0, asked' = 0 PROVE AnswerFirst'
  <2>1. rPc = "read" \/ rPc = "request"
    OBVIOUS
  <2>2. CASE rPc = "read"
    <3>1. ReplyStream = <<>>
      BY <1>1, <1>4, <2>2 DEF AnswerFirst
    <3>2. ReplyStream' # <<>> /\ ReplyStream'[1][1] = m
      BY <1>3, <1>4, <3>1
    <3> QED
      BY <1>0, <1>4, <2>2, <3>2 DEF AnswerFirst
  <2>3. rPc # "request"
    BY <1>1, <1>4 DEF AnswerFirst
  <2> QED
    BY <2>1, <2>2, <2>3
<1>5. ASSUME subs # {}, UNCHANGED <<asked, subs>>, emitted' \in 1..MaxLogs, wire' = wire \o Whole(emitted')
      PROVE  AnswerFirst'
  <2>1. rPc = "read" /\ asked = 0 /\ ReplyStream # <<>> /\ ReplyStream[1][1] \in Answers
    BY <1>1, <1>5 DEF AnswerFirst
  <2>2. ReplyStream' # <<>> /\ ReplyStream'[1] = ReplyStream[1]
    BY <1>3, <1>5, <2>1
  <2> QED
    BY <1>0, <1>5, <2>1, <2>2 DEF AnswerFirst
<1> QED
  BY <1>2, <1>4, <1>5, NodeSends

LEMMA AnswerFirstStep == ListenersInv /\ AnswerFirst /\ [ListenersNext]_listenerVars => AnswerFirst'
<1> SUFFICES ASSUME ListenersInv, AnswerFirst, [ListenersNext]_listenerVars PROVE AnswerFirst'
  OBVIOUS
<1>1. CASE ListenersNext /\ UpdatesNext
  <2>1. StreamTypeOK /\ ReceiverInv /\ rPc # "off" /\ ~ dead
    BY <1>1 DEF ListenersInv, UpdatesNext, ListenersNext
  <2>2. CASE ReceiverStep
    BY <2>1, <2>2, AnswerFirstReceiver
  <2>3. CASE GethStep /\ UNCHANGED receiverVars
    BY <2>1, <2>3, AnswerFirstNode
  <2>4. CASE ClientStep \/ ClientWakesSpuriously \/ OwnIdChanges
    <3>1. UNCHANGED <<streamVars, rPc, subId, replyBuf>>
      BY <2>4 DEF ClientStep, ClientWakesSpuriously, SizeLocked, SizeZero, SizeUnlocked, WaitForUpdate, TakeUpdates,
         Take, OwnIdChanges
    <3> QED
      BY <3>1 DEF streamVars, AnswerFirst, ReplyStream
  <2>5. CASE OwnIdUnread
    BY <2>5 DEF OwnIdUnread, Dies, AnswerFirst
  <2> QED
    BY <1>1, <2>2, <2>3, <2>4, <2>5 DEF UpdatesNext
<1>2. CASE EventsNext
  BY <1>2 DEF EventsNext, ListenersInv, receiverVars, AnswerFirst
<1>3. CASE UNCHANGED listenerVars
  BY <1>3 DEF listenerVars, streamVars, receiverVars, AnswerFirst, ReplyStream
<1> QED
  BY <1>1, <1>2, <1>3 DEF ListenersNext

\* The receiver or the node has a step to take on an open connection.
ReceiverMoves ==
    \/ rPc \notin {"read", "receive"}
    \/ wire # <<>> \/ asked # 0
    \/ HasLine(IF rPc = "read" THEN replyBuf ELSE rBuf)

\* Each update the node sent in this connection has reached receivedUpdates or the
\* client, once nobody has a step to take; excepted as in UpdateReported.
ReportComplete ==
    rPc # "off" /\ ~ dead /\ sock = "open" /\ ~ mishap /\ ~ ReceiverMoves
        => \A n \in 1..MaxLogs : sentIn[n] = conn => n \in updates \union got

\* Where neither the receiver nor the node has anything left to do, each update
\* sent in the connection is in receivedUpdates or was given to the client,
\* unless something was read together with the reply.
THEOREM NoUpdateLeftBehind == ListenersSpec => []ReportComplete
<1>1. ASSUME ListenersInv, AnswerFirst PROVE ReportComplete
  <2> SUFFICES ASSUME rPc # "off", ~ dead, sock = "open", ~ mishap, ~ ReceiverMoves
               PROVE  Sent \subseteq updates \union got
    BY DEF ReportComplete, Sent
  <2>0. /\ replyBuf \in Seq(Half) /\ rBuf \in Seq(Half) /\ wire \in Seq(Half) /\ ReceiverFlow
        /\ \A b \in Seq(Half) : b \o <<>> = b
    BY <1>1, ConcatEmptySeq DEF ListenersInv, ReceiverInv, ReceiverTypeOK, StreamTypeOK
  <2>1. wire = <<>> /\ asked = 0 /\ rPc \in {"read", "receive"}
    BY DEF ReceiverMoves
  <2>2. replyBuf \o wire = replyBuf /\ rBuf \o wire = rBuf
    BY <2>0, <2>1
  <2>3. rPc = "receive"
    <3> SUFFICES ASSUME rPc = "read" PROVE FALSE
      BY <2>1
    <3>1. WholeLines(replyBuf) /\ ~ HasLine(replyBuf)
      BY <2>0, <2>2 DEF ReceiverFlow, ReceiverMoves
    <3>2. replyBuf = <<>>
      BY <2>0, <3>1, NoLineNothing
    <3>3. replyBuf # <<>>
      BY <1>1, <2>1, <2>2 DEF AnswerFirst, ReplyStream
    <3> QED
      BY <3>2, <3>3
  <2>4. WholeLines(rBuf) /\ ~ HasLine(rBuf) /\ incoming = 0
        /\ Sent \subseteq LogsOn(rBuf) \union {incoming} \union updates \union got
    BY <2>0, <2>2, <2>3 DEF ReceiverFlow, ReceiverMoves, Collecting
  <2>5. LogsOn(rBuf) = {}
    BY <2>0, <2>4, NoLineNothing, LogsOfEmpty
  <2>6. 0 \notin Sent
    BY DEF Sent
  <2> QED
    BY <2>4, <2>5, <2>6
<1>2. ListenersInit => AnswerFirst
  BY DEF ListenersInit, StreamInit, ReceiverInit, AnswerFirst
<1>3. ListenersSpec => []AnswerFirst
  BY <1>2, AnswerFirstStep, ListenersInvariant, PTL DEF ListenersSpec
<1> QED
  BY <1>1, <1>3, ListenersInvariant, PTL

\* The client sleeps next to an update only stranded, or about to be woken.
ClientKnows ==
    updates # {} => \/ uPc \in {"size", "test", "block", "take", "stranded"}
                    \/ uPc = "asleep" /\ rPc = "notify"

\* An update in receivedUpdates has a client that looks for it: only the sleep
\* that WaitForUpdate begins after the notification misses it.
THEOREM NoUpdateForgotten == ListenersSpec => []ClientKnows
<1>1. ListenersInit => ClientKnows
  BY DEF ListenersInit, ReceiverInit, ClientKnows
<1>2. ASSUME ListenersInv, ClientKnows, [ListenersNext]_listenerVars PROVE ClientKnows'
  <2>1. CASE ReceiverStep
    <3>1. CASE InsertUpdate \/ NotifyUpdate
      BY <1>2, <2>1, <3>1 DEF InsertUpdate, NotifyUpdate, clientVars, ClientKnows, ListenersInv, ReceiverInv, ReceiverTypeOK
    <3>2. CASE ~ InsertUpdate /\ ~ NotifyUpdate
      <4>1. UNCHANGED uPc /\ updates' \in {updates, {}} /\ rPc # "notify"
        BY <2>1, <3>2 DEF ReceiverStep, ReadOwnId, OpenStream, RequestUpdates, ReadReply, ParseReply, SubscribeReply,
           CheckOwnId, ReceiveUpdates, ParseUpdate, clientVars
      <4> QED
        BY <1>2, <4>1 DEF ClientKnows
    <3> QED
      BY <3>1, <3>2
  <2>2. CASE ClientStep
    BY <1>2, <2>2 DEF ClientStep, SizeLocked, SizeZero, SizeUnlocked, WaitForUpdate, TakeUpdates, Take, ClientKnows
  <2>3. CASE ClientWakesSpuriously \/ OwnIdChanges
    BY <1>2, <2>3 DEF ClientWakesSpuriously, OwnIdChanges, clientVars, ClientKnows
  <2>4. CASE UNCHANGED receiverVars
    BY <1>2, <2>4 DEF receiverVars, clientVars, ClientKnows
  <2> QED
    BY <1>2, <2>1, <2>2, <2>3, <2>4 DEF ListenersNext, EventsNext, UpdatesNext, OwnIdUnread, listenerVars
<1> QED
  BY <1>1, <1>2, ListenersInvariant, PTL DEF ListenersSpec

\* An update leaves receivedUpdates only for the client, or where a setup clears
\* the set; and what the client was given it keeps.
UpdatesDelivered ==
    [][/\ \A n \in updates : n \in updates' \/ n \in got' \/ setups' = setups + 1
       /\ got \subseteq got']_listenerVars

THEOREM UpdatesGoToClient == ListenersSpec => UpdatesDelivered
<1>1. ASSUME ListenersNext
      PROVE  /\ \A n \in updates : n \in updates' \/ n \in got' \/ setups' = setups + 1
             /\ got \subseteq got'
  <2>1. CASE ReceiverStep
    BY <2>1 DEF ReceiverStep, ReadOwnId, OpenStream, RequestUpdates, ReadReply, ParseReply, SubscribeReply,
       CheckOwnId, ReceiveUpdates, ParseUpdate, InsertUpdate, NotifyUpdate, clientVars
  <2>2. CASE ClientStep
    BY <2>2 DEF ClientStep, SizeLocked, SizeZero, SizeUnlocked, WaitForUpdate, TakeUpdates, Take
  <2>3. CASE ClientWakesSpuriously \/ OwnIdChanges
    BY <2>3 DEF ClientWakesSpuriously, OwnIdChanges, clientVars
  <2>4. CASE UNCHANGED receiverVars
    BY <2>4 DEF receiverVars, clientVars
  <2> QED
    BY <1>1, <2>1, <2>2, <2>3, <2>4 DEF ListenersNext, EventsNext, UpdatesNext, OwnIdUnread
<1> QED
  BY <1>1, PTL DEF ListenersSpec, UpdatesDelivered

=============================================================================
