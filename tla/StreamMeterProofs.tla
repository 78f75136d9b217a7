--------------------------- MODULE StreamMeterProofs ---------------------------
(***************************************************************************)
(* StreamMeter for any lines, stream lengths and buffer sizes: its types,  *)
(* what the client gets, and what is billed.                               *)
(*                                                                         *)
(* What the client may get in a stream of which p bytes were read is the   *)
(* text of the p bytes and the trailer; Piece(p, a, b) is that text from   *)
(* place a + 1 to place b.  What was sent, the buffer and what is pending  *)
(* are always three pieces that follow each other.                         *)
(***************************************************************************)
EXTENDS StreamMeter, SequenceTheorems, WellFoundedInduction, TLAPS

Char(p, j) == IF j <= p THEN j ELSE j - p - 4
Piece(p, a, b) == [i \in 1..(b - a) |-> Char(p, a + i)]

(* A piece is a sequence of as many numbers as it has places.              *)
LEMMA PieceIsSeq ==
  ASSUME NEW p \in Nat, NEW a \in Nat, NEW b \in Nat, a <= b
  PROVE  /\ Piece(p, a, b) \in Seq(Int)
         /\ Len(Piece(p, a, b)) = b - a
         /\ \A i \in 1..(b - a) : Piece(p, a, b)[i] = Char(p, a + i)
<1>1. \A i \in 1..(b - a) : Char(p, a + i) \in Int
  BY DEF Char
<1>2. b - a \in Nat
  OBVIOUS
<1> QED
  BY <1>1, <1>2, IsASeq DEF Piece

(* What is at a place of a sequence.                                       *)
LEMMA PlaceOfSeq ==
  ASSUME NEW S, NEW s \in Seq(S), NEW i \in 1..Len(s)
  PROVE  s[i] \in S
OBVIOUS

(* A sequence with the length and the elements of a piece is that piece.   *)
LEMMA IsPiece ==
  ASSUME NEW p \in Nat, NEW a \in Nat, NEW b \in Nat, a <= b,
         NEW s \in Seq(Int), Len(s) = b - a,
         \A i \in 1..(b - a) : s[i] = Char(p, a + i)
  PROVE  s = Piece(p, a, b)
<1>1. s \in [1..(b - a) -> Int]
  BY LenProperties
<1> QED
  BY <1>1 DEF Piece

(* Two pieces that meet are one.                                           *)
LEMMA PiecesMeet ==
  ASSUME NEW p \in Nat, NEW a \in Nat, NEW b \in Nat, NEW c \in Nat, a <= b, b <= c
  PROVE  Piece(p, a, b) \o Piece(p, b, c) = Piece(p, a, c)
<1> DEFINE s == Piece(p, a, b)  t == Piece(p, b, c)
<1>1. /\ s \in Seq(Int) /\ Len(s) = b - a /\ \A i \in 1..(b - a) : s[i] = Char(p, a + i)
      /\ t \in Seq(Int) /\ Len(t) = c - b /\ \A i \in 1..(c - b) : t[i] = Char(p, b + i)
  BY PieceIsSeq
<1> HIDE DEF s, t
<1>2. /\ s \o t \in Seq(Int) /\ Len(s \o t) = c - a
      /\ \A i \in 1..(c - a) : (s \o t)[i] = Char(p, a + i)
  <2>1. /\ s \o t \in Seq(Int)
        /\ Len(s \o t) = Len(s) + Len(t)
        /\ \A i \in 1..Len(s) + Len(t) :
             (s \o t)[i] = IF i <= Len(s) THEN s[i] ELSE t[i - Len(s)]
    BY <1>1, ConcatProperties
  <2>2. ASSUME NEW i \in 1..(c - a) PROVE (s \o t)[i] = Char(p, a + i)
    <3>1. CASE i <= b - a
      <4>1. i \in 1..(b - a) /\ i \in 1..Len(s) + Len(t) /\ i <= Len(s)
        BY <1>1, <3>1
      <4> QED
        BY <1>1, <2>1, <4>1
    <3>2. CASE i > b - a
      <4>1. i - (b - a) \in 1..(c - b) /\ b + (i - (b - a)) = a + i
        BY <3>2
      <4> QED
        BY <1>1, <2>1, <3>2, <4>1
    <3>3. i <= b - a \/ i > b - a
      OBVIOUS
    <3> QED
      BY <3>1, <3>2, <3>3, Zenon
  <2>3. Len(s \o t) = c - a
    BY <1>1, <2>1
  <2> QED
    BY <2>1, <2>2, <2>3
<1>3. s \o t = Piece(p, a, c)
  <2>1. a <= c
    OBVIOUS
  <2> QED
    BY <1>2, <2>1, IsPiece
<1> QED
  BY <1>3 DEF s, t

(* A piece is cut into two.                                                *)
LEMMA PieceCut ==
  ASSUME NEW p \in Nat, NEW a \in Nat, NEW b \in Nat, a <= b, NEW n \in 0..(b - a)
  PROVE  /\ SubSeq(Piece(p, a, b), 1, n) = Piece(p, a, a + n)
         /\ SubSeq(Piece(p, a, b), n + 1, b - a) = Piece(p, a + n, b)
<1> DEFINE s == Piece(p, a, b)
<1>1. s \in Seq(Int) /\ Len(s) = b - a /\ \A i \in 1..(b - a) : s[i] = Char(p, a + i)
  BY PieceIsSeq
<1> HIDE DEF s
<1>2. SubSeq(s, 1, n) = Piece(p, a, a + n)
  <2>1. /\ SubSeq(s, 1, n) \in Seq(Int)
        /\ Len(SubSeq(s, 1, n)) = n
        /\ \A i \in 1..n : SubSeq(s, 1, n)[i] = Char(p, a + i)
    <3>1. /\ n \in Nat /\ \A i \in 1..n : s[i] \in Int
          /\ \A i \in 1..n : i \in 1..(b - a) /\ i \in 1..(n - 1 + 1) /\ (1 + i) - 1 = i
      BY <1>1, PlaceOfSeq
    <3>2. /\ SubSeq(s, 1, n) \in Seq(Int)
          /\ Len(SubSeq(s, 1, n)) = IF 1 <= n THEN n - 1 + 1 ELSE 0
          /\ \A i \in 1..(n - 1 + 1) : SubSeq(s, 1, n)[i] = s[(1 + i) - 1]
      BY <3>1, SubSeqProperties
    <3>3. Len(SubSeq(s, 1, n)) = n
      BY <3>1, <3>2
    <3> QED
      BY <1>1, <3>1, <3>2, <3>3
  <2> DEFINE r == SubSeq(s, 1, n)
  <2>2. a + n \in Nat /\ a <= a + n /\ (a + n) - a = n
    OBVIOUS
  <2> HIDE DEF r
  <2> QED
    BY <2>1, <2>2, IsPiece DEF r
<1>3. SubSeq(s, n + 1, b - a) = Piece(p, a + n, b)
  <2>1. /\ SubSeq(s, n + 1, b - a) \in Seq(Int)
        /\ Len(SubSeq(s, n + 1, b - a)) = b - (a + n)
        /\ \A i \in 1..(b - (a + n)) : SubSeq(s, n + 1, b - a)[i] = Char(p, (a + n) + i)
    <3>1. /\ n + 1 \in Int /\ b - a \in Int /\ b - (a + n) \in Nat /\ (b - a) - (n + 1) + 1 = b - (a + n)
          /\ \A i \in (n + 1)..(b - a) : i \in 1..(b - a)
      OBVIOUS
    <3>2. \A i \in (n + 1)..(b - a) : s[i] \in Int
      BY <1>1, <3>1, PlaceOfSeq
    <3>3. /\ SubSeq(s, n + 1, b - a) \in Seq(Int)
          /\ Len(SubSeq(s, n + 1, b - a)) = IF n + 1 <= b - a THEN (b - a) - (n + 1) + 1 ELSE 0
          /\ \A i \in 1..((b - a) - (n + 1) + 1) : SubSeq(s, n + 1, b - a)[i] = s[(n + 1 + i) - 1]
      BY <3>1, <3>2, SubSeqProperties
    <3>4. Len(SubSeq(s, n + 1, b - a)) = b - (a + n)
      BY <3>1, <3>3
    <3>5. \A i \in 1..(b - (a + n)) : /\ (n + 1 + i) - 1 = n + i /\ n + i \in 1..(b - a)
                                     /\ a + (n + i) = (a + n) + i
      OBVIOUS
    <3> QED
      BY <1>1, <3>1, <3>3, <3>4, <3>5
  <2> DEFINE r == SubSeq(s, n + 1, b - a)
  <2>2. a + n \in Nat /\ a + n <= b
    OBVIOUS
  <2> HIDE DEF r
  <2> QED
    BY <2>1, <2>2, IsPiece DEF r
<1> QED
  BY <1>2, <1>3 DEF s

(* The trailer follows the last byte; nothing lies between equal places.   *)
LEMMA TrailerPiece ==
  ASSUME NEW p \in Nat
  PROVE  Trailer = Piece(p, p, p + 3)
<1>1. Trailer = [i \in 1..3 |-> i - 4]
  BY DEF Trailer
<1>2. (p + 3) - p = 3 /\ \A i \in 1..3 : Char(p, p + i) = i - 4
  BY DEF Char
<1> QED
  BY <1>1, <1>2 DEF Piece

(* Nothing lies between equal places.                                      *)
LEMMA EmptyPiece ==
  ASSUME NEW p \in Nat, NEW a \in Nat
  PROVE  Piece(p, a, a) = <<>>
BY PieceIsSeq, EmptySeq

(* Bytes that were read are what they were when more are read.             *)
LEMMA PieceOfBytes ==
  ASSUME NEW p \in Nat, NEW q \in Nat, NEW a \in Nat, NEW b \in Nat, b <= p, p <= q
  PROVE  /\ Piece(p, a, b) = [i \in 1..(b - a) |-> a + i]
         /\ Piece(q, a, b) = Piece(p, a, b)
BY DEF Piece, Char

-----------------------------------------------------------------------------
(* Where the text stands, place by place: sent up to Len(sent), the buffer *)
(* next unless it was written, and the trailer, if it is pending, last.    *)
Handed == IF at \in {"failed", "write"} THEN Len(sent) + Len(buf) ELSE Len(sent)

OutputOK ==
  /\ sent \in Seq(Int) /\ buf \in Seq(Int)
  /\ sent = Piece(pos, 0, Len(sent))
  /\ at \in {"failed", "write"} => buf = Piece(pos, Len(sent), Handed)
  /\ Handed <= pos + 3
  /\ Handed > pos => ctxErr = "deadline"
  /\ at \in {"read", "write"} /\ pending # <<>> =>
       /\ ctxErr = "deadline"
       /\ Handed >= pos /\ Handed < pos + 3 /\ pending = Piece(pos, Handed, pos + 3)

(* What the copy loop knows: an error comes with the last bytes, and a     *)
(* connection that still takes writes has carried all there is.            *)
LoopOK ==
  /\ at = "read" => err = Nil /\ (pending = <<>> => Handed = pos)
  /\ at = "failed" => err # Nil /\ pending = <<>> /\ Handed = pos
  /\ at = "write" /\ err = Nil => (pending = <<>> => Handed = pos)
  /\ at = "write" /\ err # Nil =>
       /\ pending = <<>>
       /\ \/ Handed = pos
          \/ Handed = pos + 3 /\ err = "eof" /\ Len(sent) >= pos /\ Len(buf) > 0
  /\ at \in {"closing", "closed"} /\ ~gone =>
       \/ Len(sent) = pos /\ (Len(buf) > 0 => buf[1] > 0)
       \/ Len(sent) = pos + 3 /\ err = "eof" /\ Len(buf) > 0 /\ buf[1] < 0

OutputInv == StreamTypeOK /\ OutputOK /\ LoopOK

-----------------------------------------------------------------------------
(* What is billed for the lines up to n + 1, from what is billed up to n.  *)
Lines == IF upstream = "openai" THEN OpenAILines ELSE AnthropicLines
First(n) == SubSeq(script, 1, n)

(* A nonempty set of natural numbers has a least one.                      *)
LEMMA LeastNat ==
  ASSUME NEW T, T \subseteq Nat, T # {}
  PROVE  \E x \in T : \A y \in T : x <= y
<1>1. \A R : IsWellFoundedOn(R, Nat) => \E x \in T : \A y \in T : ~ (<<y, x>> \in R)
  BY WFMin
<1>2. IsWellFoundedOn({ss \in Nat \X Nat : ss[1] < ss[2]}, Nat)
  BY NatLessThanWellFounded, Zenon DEF OpToRel
<1>3. PICK x \in T : \A y \in T : ~ (<<y, x>> \in {ss \in Nat \X Nat : ss[1] < ss[2]})
  BY <1>1, <1>2
<1>4. \A y \in T : x <= y
  <2>1. ASSUME NEW y \in T, y < x PROVE FALSE
    <3>1. <<y, x>> \in Nat \X Nat /\ <<y, x>>[1] < <<y, x>>[2]
      BY <2>1
    <3> QED
      BY <1>3, <3>1
  <2> QED
    BY <2>1
<1> QED
  BY <1>4

(* The last of a set of places to which a greater one is added.            *)
LEMMA MaxAdded ==
  ASSUME NEW n \in Nat, NEW H, H \subseteq 1..n
  PROVE  Max(H \cup {n + 1}) = n + 1
<1>1. /\ n + 1 \in H \cup {n + 1}
      /\ \A y \in H \cup {n + 1} : n + 1 >= y
      /\ \A x \in H : ~ (x >= n + 1)
  OBVIOUS
<1> QED
  BY <1>1 DEF Max

(* The first of them: the new one only if there was none.                  *)
LEMMA MinAdded ==
  ASSUME NEW n \in Nat, NEW H, H \subseteq 1..n
  PROVE  Min(H \cup {n + 1}) = IF H = {} THEN n + 1 ELSE Min(H)
<1>1. CASE H = {}
  BY <1>1 DEF Min
<1>2. CASE H # {}
  <2>1. PICK x \in H : \A y \in H : x <= y
    <3>1. H \subseteq Nat
      OBVIOUS
    <3> QED
      BY <1>2, <3>1, LeastNat
  <2>2. \A z \in H : (\A y \in H : z <= y) => z = x
    BY <2>1
  <2>3. Min(H) = x
    BY <2>1, <2>2 DEF Min
  <2>4. /\ x \in H \cup {n + 1} /\ \A y \in H \cup {n + 1} : x <= y
        /\ \A z \in H \cup {n + 1} : (\A y \in H \cup {n + 1} : z <= y) => z = x
    BY <2>1
  <2>5. Min(H \cup {n + 1}) = x
    BY <2>4 DEF Min
  <2> QED
    BY <1>2, <2>3, <2>5
<1> QED
  BY <1>1, <1>2

(* A nonempty set of line numbers has a greatest and a least one.          *)
LEMMA Extremes ==
  ASSUME NEW n \in Nat, NEW H, H \subseteq 1..n, H # {}
  PROVE  Max(H) \in H /\ Min(H) \in H
<1>1. PICK x \in H : \A y \in H : x <= y
  <2>1. H \subseteq Nat
    OBVIOUS
  <2> QED
    BY <2>1, LeastNat
<1>2. PICK z \in H : \A y \in H : z >= y
  <2> DEFINE T == {n - y : y \in H}
  <2>1. T \subseteq Nat /\ T # {}
    OBVIOUS
  <2>2. PICK t \in T : \A u \in T : t <= u
    BY <2>1, LeastNat
  <2>3. PICK z \in H : t = n - z
    OBVIOUS
  <2>4. \A y \in H : n - z <= n - y
    BY <2>2, <2>3
  <2>5. \A y \in H : z >= y
    BY <2>4
  <2> QED
    BY <2>5
<1> QED
  BY <1>1, <1>2 DEF Max, Min

(* The first n lines as a function.                                        *)
LEMMA FirstLines ==
  ASSUME script \in Seq(Lines), NEW n \in 0..Len(script)
  PROVE  DOMAIN First(n) = 1..n /\ \A i \in 1..n : First(n)[i] = script[i]
<1>1. \A i \in 1..n : script[i] \in Lines
  OBVIOUS
<1>2. /\ First(n) \in Seq(Lines)
      /\ Len(First(n)) = IF 1 <= n THEN n - 1 + 1 ELSE 0
      /\ \A i \in 1..n - 1 + 1 : First(n)[i] = script[1 + i - 1]
  BY <1>1, SubSeqProperties DEF First
<1>3. Len(First(n)) = n
  BY <1>2
<1> QED
  BY <1>2, <1>3, LenProperties

(* One more line, as a step from what is billed for the lines before it.   *)
Grown(f, g, n, l) ==
  /\ n \in Nat
  /\ DOMAIN f = 1..n /\ DOMAIN g = 1..(n + 1)
  /\ \A i \in 1..n : g[i] = f[i]
  /\ g[n + 1] = l

(* The first model an OpenAI stream names counts, and its last usage.      *)
LEMMA OpenAIGrows ==
  ASSUME NEW f, NEW g, NEW n, NEW l, Grown(f, g, n, l)
  PROVE  /\ OpenAIUsage(g).model = IF OpenAIUsage(f).model = "" THEN l.model ELSE OpenAIUsage(f).model
         /\ OpenAIUsage(g).in = IF l.usage = Nil THEN OpenAIUsage(f).in ELSE l.usage.in
         /\ OpenAIUsage(g).out = IF l.usage = Nil THEN OpenAIUsage(f).out ELSE l.usage.out
<1> DEFINE U(h) == {i \in DOMAIN h : HasUsage(h[i])}
           M(h) == {i \in DOMAIN h : HasModel(h[i])}
<1>1. U(f) \subseteq 1..n /\ U(g) = IF HasUsage(l) THEN U(f) \cup {n + 1} ELSE U(f)
  BY DEF Grown
<1>2. M(f) \subseteq 1..n /\ M(g) = IF HasModel(l) THEN M(f) \cup {n + 1} ELSE M(f)
  BY DEF Grown
<1>3. \A h : /\ OpenAIUsage(h).model = IF M(h) = {} THEN "" ELSE h[Min(M(h))].model
             /\ OpenAIUsage(h).in = IF U(h) = {} THEN 0 ELSE h[Max(U(h))].usage.in
             /\ OpenAIUsage(h).out = IF U(h) = {} THEN 0 ELSE h[Max(U(h))].usage.out
  BY DEF OpenAIUsage, Newest, Oldest
<1>4. \A i \in M(f) : f[i].model # ""
  BY DEF HasModel
<1> HIDE DEF U, M
<1>5. n \in Nat /\ g[n + 1] = l /\ \A i \in 1..n : g[i] = f[i]
  BY DEF Grown
<1>6. /\ U(f) # {} => Max(U(f)) \in 1..n
      /\ HasUsage(l) => U(g) # {} /\ Max(U(g)) = n + 1
      /\ ~HasUsage(l) => U(g) = U(f)
  BY <1>1, <1>5, Extremes, MaxAdded
<1>7. /\ M(f) # {} => Min(M(f)) \in M(f) /\ Min(M(f)) \in 1..n /\ Min(M(g)) = Min(M(f))
      /\ M(f) = {} /\ HasModel(l) => M(g) # {} /\ Min(M(g)) = n + 1
      /\ ~HasModel(l) => M(g) = M(f)
      /\ M(f) # {} => M(g) # {}
  BY <1>2, <1>5, Extremes, MinAdded
<1>8. OpenAIUsage(g).model = IF OpenAIUsage(f).model = "" THEN l.model ELSE OpenAIUsage(f).model
  <2>1. CASE M(f) # {}
    BY <1>3, <1>4, <1>5, <1>7, <2>1
  <2>2. CASE M(f) = {} /\ HasModel(l)
    BY <1>3, <1>5, <1>7, <2>2
  <2>3. CASE M(f) = {} /\ ~HasModel(l)
    BY <1>3, <1>7, <2>3 DEF HasModel
  <2> QED
    BY <2>1, <2>2, <2>3
<1>9. ASSUME HasUsage(l)
      PROVE  OpenAIUsage(g).in = l.usage.in /\ OpenAIUsage(g).out = l.usage.out
  BY <1>3, <1>5, <1>6, <1>9
<1>10. ASSUME ~HasUsage(l)
       PROVE  OpenAIUsage(g).in = OpenAIUsage(f).in /\ OpenAIUsage(g).out = OpenAIUsage(f).out
  BY <1>3, <1>5, <1>6, <1>10
<1> QED
  BY <1>8, <1>9, <1>10 DEF HasUsage

(* Lines whose output total counts for Anthropic.                          *)
HasTotal(l) == HasUsage(l) /\ (Start(l) \/ (l.type = "message_delta" /\ l.usage.out > 0))

(* One more line of Anthropic.                                             *)
LEMMA AnthropicGrows ==
  ASSUME NEW f, NEW g, NEW n, NEW l, Grown(f, g, n, l)
  PROVE  LET a == AnthropicUsage(f)  b == AnthropicUsage(g) IN
         /\ b.model = IF Start(l) /\ HasModel(l) THEN l.model ELSE a.model
         /\ b.in = IF Start(l) /\ HasUsage(l) THEN l.usage.in ELSE a.in
         /\ b.out = IF HasTotal(l) THEN l.usage.out ELSE a.out
<1> DEFINE M(h) == {i \in DOMAIN h : Start(h[i]) /\ HasModel(h[i])}
           I(h) == {i \in DOMAIN h : Start(h[i]) /\ HasUsage(h[i])}
           O(h) == {i \in DOMAIN h : HasTotal(h[i])}
<1>1. M(f) \subseteq 1..n /\ M(g) = IF Start(l) /\ HasModel(l) THEN M(f) \cup {n + 1} ELSE M(f)
  BY DEF Grown
<1>2. I(f) \subseteq 1..n /\ I(g) = IF Start(l) /\ HasUsage(l) THEN I(f) \cup {n + 1} ELSE I(f)
  BY DEF Grown
<1>3. O(f) \subseteq 1..n /\ O(g) = IF HasTotal(l) THEN O(f) \cup {n + 1} ELSE O(f)
  BY DEF Grown
<1>4. \A h : /\ AnthropicUsage(h).model = IF M(h) = {} THEN "" ELSE h[Max(M(h))].model
             /\ AnthropicUsage(h).in = IF I(h) = {} THEN 0 ELSE h[Max(I(h))].usage.in
             /\ AnthropicUsage(h).out = IF O(h) = {} THEN 0 ELSE h[Max(O(h))].usage.out
  BY DEF AnthropicUsage, Newest, HasTotal
<1> HIDE DEF M, I, O
<1>5. n \in Nat /\ g[n + 1] = l /\ \A i \in 1..n : g[i] = f[i]
  BY DEF Grown
<1>7. AnthropicUsage(g).model = IF Start(l) /\ HasModel(l) THEN l.model ELSE AnthropicUsage(f).model
  <2>1. /\ M(f) # {} => Max(M(f)) \in 1..n
        /\ Start(l) /\ HasModel(l) => M(g) # {} /\ Max(M(g)) = n + 1
        /\ ~(Start(l) /\ HasModel(l)) => M(g) = M(f)
    BY <1>1, <1>5, Extremes, MaxAdded
  <2> QED
    BY <1>4, <1>5, <2>1
<1>8. AnthropicUsage(g).in = IF Start(l) /\ HasUsage(l) THEN l.usage.in ELSE AnthropicUsage(f).in
  <2>1. /\ I(f) # {} => Max(I(f)) \in 1..n
        /\ Start(l) /\ HasUsage(l) => I(g) # {} /\ Max(I(g)) = n + 1
        /\ ~(Start(l) /\ HasUsage(l)) => I(g) = I(f)
    BY <1>2, <1>5, Extremes, MaxAdded
  <2> QED
    BY <1>4, <1>5, <2>1
<1>9. AnthropicUsage(g).out = IF HasTotal(l) THEN l.usage.out ELSE AnthropicUsage(f).out
  <2>1. /\ O(f) # {} => Max(O(f)) \in 1..n
        /\ HasTotal(l) => O(g) # {} /\ Max(O(g)) = n + 1
        /\ ~(HasTotal(l)) => O(g) = O(f)
    BY <1>3, <1>5, Extremes, MaxAdded
  <2> QED
    BY <1>4, <1>5, <2>1
<1> QED
  BY <1>7, <1>8, <1>9

-----------------------------------------------------------------------------
(* What the meter has after p bytes of the script.                         *)
Half(p) == IF p % 2 = 1 THEN <<p>> ELSE <<>>

Record(h, u) == [partial |-> h, model |-> u.model, in |-> u.in, out |-> u.out]
Metered(p) == Record(Half(p), Billable(First(p \div 2)))

(* The record of the meter, field by field.                                *)
LEMMA MeterRecord ==
  ASSUME NEW r, r = [f \in {"partial", "model", "in", "out"} |-> r[f]]
  PROVE  r = [partial |-> r.partial, model |-> r.model, in |-> r.in, out |-> r.out]
OBVIOUS

(* Replacing the totals of a meter.                                        *)
LEMMA MeterUpdate ==
  ASSUME NEW h, NEW x, NEW i, NEW o, NEW a, NEW b, NEW c
  PROVE  [[partial |-> h, model |-> x, in |-> i, out |-> o] EXCEPT !.model = a, !.in = b, !.out = c] =
         [partial |-> h, model |-> a, in |-> b, out |-> c]
<1> DEFINE m == [partial |-> h, model |-> x, in |-> i, out |-> o]
           r == [m EXCEPT !.model = a, !.in = b, !.out = c]
<1>1. r = [f \in {"partial", "model", "in", "out"} |-> r[f]]
  OBVIOUS
<1>2. r.partial = h /\ r.model = a /\ r.in = b /\ r.out = c
  OBVIOUS
<1> HIDE DEF r
<1>3. r = [partial |-> h, model |-> a, in |-> b, out |-> c]
  BY <1>1, <1>2, MeterRecord
<1> QED
  BY <1>3 DEF r

(* Replacing the unfinished line of a meter.                               *)
LEMMA PartialUpdate ==
  ASSUME NEW h, NEW x, NEW i, NEW o, NEW g
  PROVE  [[partial |-> h, model |-> x, in |-> i, out |-> o] EXCEPT !.partial = g] =
         [partial |-> g, model |-> x, in |-> i, out |-> o]
<1> DEFINE m == [partial |-> h, model |-> x, in |-> i, out |-> o]
           r == [m EXCEPT !.partial = g]
<1>1. r = [f \in {"partial", "model", "in", "out"} |-> r[f]]
  OBVIOUS
<1>2. r.partial = g /\ r.model = x /\ r.in = i /\ r.out = o
  OBVIOUS
<1> HIDE DEF r
<1>3. r = [partial |-> g, model |-> x, in |-> i, out |-> o]
  BY <1>1, <1>2, MeterRecord
<1> QED
  BY <1>3 DEF r

(* One line is parsed, from the totals of the n lines before it.           *)
LEMMA OpenAIParsed ==
  ASSUME NEW f, NEW g, NEW n, NEW l, Grown(f, g, n, l), NEW h
  PROVE  ParseOpenAI(Record(h, OpenAIUsage(f)), l) = Record(h, OpenAIUsage(g))
<1> DEFINE x == OpenAIUsage(f).model  i == OpenAIUsage(f).in  o == OpenAIUsage(f).out
           a == OpenAIUsage(g).model  b == OpenAIUsage(g).in  c == OpenAIUsage(g).out
           m == [partial |-> h, model |-> x, in |-> i, out |-> o]
<1>1. /\ a = IF x = "" THEN l.model ELSE x
      /\ b = IF l.usage = Nil THEN i ELSE l.usage.in
      /\ c = IF l.usage = Nil THEN o ELSE l.usage.out
  BY OpenAIGrows
<1>2. /\ Record(h, OpenAIUsage(f)) = [partial |-> h, model |-> x, in |-> i, out |-> o]
      /\ Record(h, OpenAIUsage(g)) = [partial |-> h, model |-> a, in |-> b, out |-> c]
  BY DEF Record
<1> HIDE DEF x, i, o, a, b, c
<1>3. ParseOpenAI(m, l) =
        [m EXCEPT !.model = IF x = "" THEN l.model ELSE x,
                  !.in = IF l.usage = Nil THEN i ELSE l.usage.in,
                  !.out = IF l.usage = Nil THEN o ELSE l.usage.out]
  BY DEF ParseOpenAI
<1>4. ParseOpenAI(m, l) = [m EXCEPT !.model = a, !.in = b, !.out = c]
  BY <1>1, <1>3
<1> QED
  BY <1>2, <1>4, MeterUpdate

(* What an Anthropic line does to the meter is what it adds to the bill.   *)
LEMMA AnthropicParsed ==
  ASSUME NEW f, NEW g, NEW n, NEW l, Grown(f, g, n, l), NEW h
  PROVE  ParseAnthropic(Record(h, AnthropicUsage(f)), l) = Record(h, AnthropicUsage(g))
<1> DEFINE x == AnthropicUsage(f).model  i == AnthropicUsage(f).in  o == AnthropicUsage(f).out
           a == AnthropicUsage(g).model  b == AnthropicUsage(g).in  c == AnthropicUsage(g).out
           m == [partial |-> h, model |-> x, in |-> i, out |-> o]
<1>1. /\ a = IF Start(l) /\ HasModel(l) THEN l.model ELSE x
      /\ b = IF Start(l) /\ HasUsage(l) THEN l.usage.in ELSE i
      /\ c = IF HasTotal(l) THEN l.usage.out ELSE o
  BY AnthropicGrows
<1>2. /\ Record(h, AnthropicUsage(f)) = [partial |-> h, model |-> x, in |-> i, out |-> o]
      /\ Record(h, AnthropicUsage(g)) = [partial |-> h, model |-> a, in |-> b, out |-> c]
  BY DEF Record
<1> HIDE DEF x, i, o, a, b, c
<1>3. CASE l.type = "message_start"
  <2>1. ParseAnthropic(m, l) =
          [m EXCEPT !.model = IF l.model = "" THEN x ELSE l.model,
                    !.in = IF l.usage = Nil THEN i ELSE l.usage.in,
                    !.out = IF l.usage = Nil THEN o ELSE l.usage.out]
    BY <1>3 DEF ParseAnthropic
  <2>2. /\ a = IF l.model = "" THEN x ELSE l.model
        /\ b = IF l.usage = Nil THEN i ELSE l.usage.in
        /\ c = IF l.usage = Nil THEN o ELSE l.usage.out
    BY <1>1, <1>3 DEF Start, HasModel, HasUsage, HasTotal
  <2>3. ParseAnthropic(m, l) = [m EXCEPT !.model = a, !.in = b, !.out = c]
    BY <2>1, <2>2
  <2> QED
    BY <1>2, <2>3, MeterUpdate
<1>4. CASE l.type # "message_start" /\ HasTotal(l)
  <2>1. ParseAnthropic(m, l) = [m EXCEPT !.out = c]
    BY <1>1, <1>4 DEF ParseAnthropic, Start, HasUsage, HasTotal
  <2>2. a = x /\ b = i
    BY <1>1, <1>4 DEF Start
  <2> DEFINE r == [m EXCEPT !.out = c]
  <2>3. r = [f1 \in {"partial", "model", "in", "out"} |-> r[f1]]
    OBVIOUS
  <2>4. r.partial = h /\ r.model = x /\ r.in = i /\ r.out = c
    OBVIOUS
  <2> HIDE DEF r
  <2>5. r = [partial |-> h, model |-> x, in |-> i, out |-> c]
    BY <2>3, <2>4, MeterRecord
  <2>6. ParseAnthropic(m, l) = r
    BY <2>1 DEF r
  <2> QED
    BY <1>2, <2>2, <2>5, <2>6
<1>5. CASE l.type # "message_start" /\ ~HasTotal(l)
  <2>1. ParseAnthropic(m, l) = m
    BY <1>5 DEF ParseAnthropic, Start, HasUsage, HasTotal
  <2>2. a = x /\ b = i /\ c = o
    BY <1>1, <1>5 DEF Start
  <2> QED
    BY <1>2, <2>1, <2>2
<1> QED
  BY <1>3, <1>4, <1>5

(* One byte is fed.                                                        *)
LEMMA ByteFed ==
  ASSUME script \in Seq(Lines), NEW p \in Nat, p < 2 * Len(script)
  PROVE  Feed(Metered(p), p + 1) = Metered(p + 1)
<1> DEFINE n == p \div 2  u == Billable(First(n))
<1>0. Len(script) \in Nat
  OBVIOUS
<1>1. CASE p % 2 = 0
  <2>1. (p + 1) \div 2 = n /\ (p + 1) % 2 = 1 /\ ~IsNewline(p + 1)
    BY <1>1 DEF IsNewline
  <2>2. Metered(p) = Record(<<>>, u) /\ Metered(p + 1) = Record(<<p + 1>>, u)
    BY <1>1, <2>1 DEF Metered, Half
  <2> HIDE DEF u
  <2>3. Record(<<>>, u).partial = <<>> /\ Append(<<>>, p + 1) = <<p + 1>>
    <3>1. Append(<<>>, p + 1) = <<p + 1>>
      OBVIOUS
    <3> QED
      BY <3>1 DEF Record
  <2>4. Feed(Record(<<>>, u), p + 1) = [Record(<<>>, u) EXCEPT !.partial = <<p + 1>>]
    BY <2>1, <2>3 DEF Feed
  <2>5. [Record(<<>>, u) EXCEPT !.partial = <<p + 1>>] = Record(<<p + 1>>, u)
    BY PartialUpdate DEF Record
  <2> QED
    BY <2>2, <2>4, <2>5
<1>2. CASE p % 2 = 1
  <2> DEFINE v == Billable(First(n + 1))  l == script[n + 1]
  <2>1. /\ (p + 1) \div 2 = n + 1 /\ (p + 1) % 2 = 0 /\ IsNewline(p + 1)
        /\ n \in Nat /\ n < Len(script) /\ n + 1 \in 0..Len(script) /\ n \in 0..Len(script)
    BY <1>0, <1>2 DEF IsNewline
  <2>2. Metered(p) = Record(<<p>>, u) /\ Metered(p + 1) = Record(<<>>, v)
    BY <1>2, <2>1 DEF Metered, Half
  <2>3. Grown(First(n), First(n + 1), n, l)
    <3>1. DOMAIN First(n) = 1..n /\ \A i \in 1..n : First(n)[i] = script[i]
      BY <2>1, FirstLines
    <3>2. DOMAIN First(n + 1) = 1..(n + 1) /\ \A i \in 1..(n + 1) : First(n + 1)[i] = script[i]
      BY <2>1, FirstLines
    <3> HIDE DEF n
    <3> QED
      BY <2>1, <3>1, <3>2 DEF Grown
  <2> HIDE DEF n
  <2>4. IF upstream = "openai"
        THEN ParseOpenAI(Record(<<p>>, u), l) = Record(<<p>>, v)
        ELSE ParseAnthropic(Record(<<p>>, u), l) = Record(<<p>>, v)
    BY <2>3, OpenAIParsed, AnthropicParsed DEF Billable
  <2> HIDE DEF u, v
  <2>5. ParseLine(Record(<<p>>, u), <<p, p + 1>>) = Record(<<p>>, v)
    <3>1. Last(<<p, p + 1>>) = p + 1 /\ <<p, p + 1>> = <<(p + 1) - 1, p + 1>>
      BY DEF Last
    <3> QED
      BY <2>1, <2>4, <3>1 DEF ParseLine
  <2>6. Record(<<p>>, u).partial = <<p>> /\ Append(<<p>>, p + 1) = <<p, p + 1>>
    <3>1. Append(<<p>>, p + 1) = <<p, p + 1>>
      <4> DEFINE s == Append(<<p>>, p + 1)
      <4>1. <<p>> \in Seq(Nat) /\ Len(<<p>>) = 1 /\ <<p>>[1] = p
        OBVIOUS
      <4>2. s \in Seq(Nat) /\ Len(s) = 2 /\ s[1] = p /\ s[2] = p + 1
        BY <4>1, AppendProperties
      <4>3. s = [i \in 1..2 |-> IF i = 1 THEN p ELSE p + 1]
        <5> HIDE DEF s
        <5>1. s = [i \in 1..2 |-> s[i]]
          BY <4>2
        <5> QED
          BY <4>2, <5>1
      <4>4. <<p, p + 1>> = [i \in 1..2 |-> IF i = 1 THEN p ELSE p + 1]
        OBVIOUS
      <4> HIDE DEF s
      <4>5. s = <<p, p + 1>>
        BY <4>3, <4>4
      <4> QED
        BY <4>5 DEF s
    <3> QED
      BY <3>1 DEF Record
  <2>7. Feed(Record(<<p>>, u), p + 1) = [Record(<<p>>, v) EXCEPT !.partial = <<>>]
    BY <2>1, <2>5, <2>6 DEF Feed
  <2>8. [Record(<<p>>, v) EXCEPT !.partial = <<>>] = Record(<<>>, v)
    BY PartialUpdate DEF Record
  <2> QED
    BY <2>2, <2>7, <2>8
<1>3. p % 2 = 0 \/ p % 2 = 1
  OBVIOUS
<1> QED
  BY <1>1, <1>2, <1>3

(* A read of n bytes, however long, takes the meter from pos to pos + n.   *)
LEMMA ChunkConsumed ==
  ASSUME script \in Seq(Lines), pos \in Nat, NEW n \in Nat, pos + n <= 2 * Len(script),
         [partial |-> partial, model |-> model, in |-> inputTok, out |-> outputTok] = Metered(pos)
  PROVE  Consume([i \in 1..n |-> pos + i]) = Metered(pos + n)
<1> DEFINE chunk == [i \in 1..n |-> pos + i]
           m == [partial |-> partial, model |-> model, in |-> inputTok, out |-> outputTok]
           Eq(g) == g = [i \in 0..Len(chunk) |-> IF i = 0 THEN m ELSE Feed(g[i - 1], chunk[i])]
           c == CHOOSE g : Eq(g)
           w == [i \in 0..n |-> Metered(pos + i)]
<1>1. Consume(chunk) = c[Len(chunk)]
  BY DEF Consume
<1>2. Len(chunk) = n /\ \A i \in 1..n : chunk[i] = pos + i
  OBVIOUS
<1> HIDE DEF m, chunk
<1>3. \A i \in 1..n : Feed(Metered(pos + (i - 1)), pos + i) = Metered(pos + i)
  <2> SUFFICES ASSUME NEW i \in 1..n
               PROVE  Feed(Metered(pos + (i - 1)), pos + i) = Metered(pos + i)
    OBVIOUS
  <2> DEFINE p == pos + (i - 1)
  <2>1. p \in Nat /\ p < 2 * Len(script) /\ p + 1 = pos + i
    OBVIOUS
  <2> HIDE DEF p
  <2>2. Feed(Metered(p), p + 1) = Metered(p + 1)
    BY <2>1, ByteFed
  <2> QED
    BY <2>1, <2>2 DEF p
<1>4. Eq(w)
  <2>1. \A i \in 0..n : w[i] = IF i = 0 THEN m ELSE Feed(w[i - 1], chunk[i])
    <3>1. w[0] = m
      BY DEF m
    <3>2. ASSUME NEW i \in 1..n PROVE w[i] = Feed(w[i - 1], chunk[i])
      BY <1>2, <1>3
    <3> HIDE DEF w
    <3> QED
      BY <3>1, <3>2
  <2> QED
    BY <1>2, <2>1
<1> HIDE DEF w
<1>5. Eq(c)
  BY <1>4
<1>6. \A i \in 0..n : c[i] = Metered(pos + i)
  <2> DEFINE T == {i \in 0..n : c[i] # Metered(pos + i)}
  <2>1. \A i \in 0..n : c[i] = IF i = 0 THEN m ELSE Feed(c[i - 1], chunk[i])
    BY <1>2, <1>5
  <2> HIDE DEF c
  <2>2. SUFFICES ASSUME T # {} PROVE FALSE
    OBVIOUS
  <2>3. PICK x \in T : \A y \in T : x <= y
    <3>1. T \subseteq Nat
      OBVIOUS
    <3> QED
      BY <2>2, <3>1, LeastNat
  <2>4. CASE x = 0
    <3>1. c[0] = Metered(pos) /\ pos + 0 = pos
      BY <2>1 DEF m
    <3> QED
      BY <2>4, <3>1
  <2>5. CASE x # 0
    <3>1. x \in 1..n /\ x - 1 \in 0..n
      BY <2>5
    <3>2. c[x - 1] = Metered(pos + (x - 1))
      BY <2>3, <3>1
    <3>3. c[x] = Feed(Metered(pos + (x - 1)), pos + x)
      BY <1>2, <2>1, <3>1, <3>2
    <3> QED
      BY <1>3, <3>1, <3>3
  <2> QED
    BY <2>4, <2>5
<1>7. Consume(chunk) = Metered(pos + n)
  BY <1>1, <1>2, <1>6
<1> QED
  BY <1>7 DEF chunk

-----------------------------------------------------------------------------
(* The totals are those of the complete lines, at every moment.            *)
ScriptOK ==
  /\ upstream \in {"openai", "anthropic"}
  /\ script \in Seq(Lines)
  /\ len <= 2 * Len(script)

MeterOK == [partial |-> partial, model |-> model, in |-> inputTok, out |-> outputTok] = Metered(pos)

BillingInv == StreamTypeOK /\ ScriptOK /\ MeterOK /\ BilledAsReceived

(* What is billed for complete lines is a record with natural totals.      *)
LEMMA Billed ==
  ASSUME ScriptOK, NEW n \in 0..Len(script)
  PROVE  /\ Billable(First(n)).in \in Nat /\ Billable(First(n)).out \in Nat
         /\ Billable(First(n)) = [model |-> Billable(First(n)).model, in |-> Billable(First(n)).in,
                                  out |-> Billable(First(n)).out]
<1> DEFINE f == First(n)
<1>1. DOMAIN f = 1..n /\ \A i \in 1..n : f[i] \in Lines
  <2>1. script \in Seq(Lines) /\ \A i \in 1..n : script[i] \in Lines
    BY DEF ScriptOK
  <2> QED
    BY <2>1, FirstLines
<1> HIDE DEF f
<1>2. \A l \in Lines : l.usage # Nil => l.usage.in \in Nat /\ l.usage.out \in Nat
  BY StreamAssumption DEF Lines
<1>3. n \in Nat
  BY DEF ScriptOK
<1>4. \A H \in SUBSET (DOMAIN f) : H # {} => Max(H) \in H
  BY <1>1, <1>3, Extremes
<1>5. OpenAIUsage(f).in \in Nat /\ OpenAIUsage(f).out \in Nat
  <2> DEFINE U == {i \in DOMAIN f : HasUsage(f[i])}
  <2>1. /\ OpenAIUsage(f).in = IF U = {} THEN 0 ELSE f[Max(U)].usage.in
        /\ OpenAIUsage(f).out = IF U = {} THEN 0 ELSE f[Max(U)].usage.out
    BY DEF OpenAIUsage, Newest
  <2>2. U # {} => Max(U) \in U
    BY <1>4
  <2>3. \A i \in U : f[i].usage.in \in Nat /\ f[i].usage.out \in Nat
    BY <1>1, <1>2 DEF HasUsage
  <2> HIDE DEF U
  <2> QED
    BY <2>1, <2>2, <2>3
<1>6. AnthropicUsage(f).in \in Nat /\ AnthropicUsage(f).out \in Nat
  <2> DEFINE I == {i \in DOMAIN f : Start(f[i]) /\ HasUsage(f[i])}
             O == {i \in DOMAIN f : HasTotal(f[i])}
  <2>1. /\ AnthropicUsage(f).in = IF I = {} THEN 0 ELSE f[Max(I)].usage.in
        /\ AnthropicUsage(f).out = IF O = {} THEN 0 ELSE f[Max(O)].usage.out
    BY DEF AnthropicUsage, Newest, HasTotal
  <2>2. (I # {} => Max(I) \in I) /\ (O # {} => Max(O) \in O)
    BY <1>4
  <2>3. I # {} => f[Max(I)] \in Lines /\ f[Max(I)].usage # Nil
    BY <1>1, <2>2 DEF HasUsage
  <2>4. O # {} => f[Max(O)] \in Lines /\ f[Max(O)].usage # Nil
    BY <1>1, <2>2 DEF HasUsage, HasTotal
  <2> HIDE DEF I, O
  <2> QED
    BY <1>2, <2>1, <2>3, <2>4
<1>7. Billable(f) = [model |-> Billable(f).model, in |-> Billable(f).in, out |-> Billable(f).out]
  BY DEF Billable, OpenAIUsage, AnthropicUsage
<1>8. Billable(f).in \in Nat /\ Billable(f).out \in Nat
  BY <1>5, <1>6 DEF Billable
<1> QED
  BY <1>7, <1>8 DEF f

(* Nothing was read, nothing is billed.                                    *)
LEMMA BillingInit == StreamInit => BillingInv
<1> SUFFICES ASSUME StreamInit PROVE BillingInv
  OBVIOUS
<1>0. /\ upstream \in {"openai", "anthropic"} /\ len \in 0..2 * Len(script)
      /\ pos = 0 /\ partial = <<>> /\ model = "" /\ inputTok = 0 /\ outputTok = 0
      /\ ctxErr = Nil /\ gone = FALSE /\ at = "read" /\ buf = <<>> /\ err = Nil
  BY DEF StreamInit
<1>1. ScriptOK /\ Len(script) \in Nat /\ Len(script) <= MaxLines
  <2>1. PICK m \in 0..MaxLines : script \in [1..m -> Lines]
    BY DEF StreamInit, Lines, BoundedSeq, SeqOf
  <2>2. script \in Seq(Lines) /\ Len(script) = m
    BY <2>1, StreamAssumption
  <2>3. Len(script) \in Nat /\ Len(script) <= MaxLines
    BY <2>1, <2>2, StreamAssumption
  <2>4. len \in Nat /\ len <= 2 * Len(script)
    <3>1. len \in 0..2 * Len(script)
      BY <1>0
    <3> QED
      BY <2>3, <3>1
  <2>5. ScriptOK
    BY <1>0, <2>2, <2>4 DEF ScriptOK
  <2> QED
    BY <2>3, <2>5
<1>2. StreamTypeOK
  <2>1. len \in 0..2 * MaxLines /\ Len(<<>>) = 0
    <3>1. MaxLines \in Nat /\ Len(script) \in Nat /\ Len(script) <= MaxLines /\ len \in 0..2 * Len(script)
      BY <1>0, <1>1, StreamAssumption
    <3>2. Len(<<>>) = 0
      OBVIOUS
    <3> QED
      BY <3>1, <3>2
  <2>2. 0 \in 0..len /\ 0 <= BufSize
    BY <2>1, StreamAssumption
  <2> QED
    BY <1>0, <2>1, <2>2 DEF StreamTypeOK
<1>3. MeterOK
  <2>1. DOMAIN First(0) = {}
    <3>1. 0 \in 0..Len(script) /\ 1..0 = {}
      BY <1>1
    <3> QED
      BY <1>1, <3>1, FirstLines DEF ScriptOK
  <2>2. /\ OpenAIUsage(First(0)).model = ""
        /\ OpenAIUsage(First(0)).in = 0
        /\ OpenAIUsage(First(0)).out = 0
    BY <2>1 DEF OpenAIUsage, Newest, Oldest
  <2>3. /\ AnthropicUsage(First(0)).model = ""
        /\ AnthropicUsage(First(0)).in = 0
        /\ AnthropicUsage(First(0)).out = 0
    BY <2>1 DEF AnthropicUsage, Newest
  <2>4. 0 \div 2 = 0 /\ 0 % 2 = 0
    OBVIOUS
  <2> DEFINE u == Billable(First(0))
  <2>5. u.model = "" /\ u.in = 0 /\ u.out = 0
    BY <2>2, <2>3 DEF Billable
  <2> HIDE DEF u
  <2>6. Metered(0) = [partial |-> <<>>, model |-> u.model, in |-> u.in, out |-> u.out]
    BY <2>4 DEF Metered, Record, Half, u
  <2> QED
    BY <1>0, <2>5, <2>6 DEF MeterOK
<1> QED
  BY <1>0, <1>1, <1>2, <1>3 DEF BillingInv, BilledAsReceived

(* Nothing that was read or parsed changes.                                *)
LEMMA MeterKept ==
  ASSUME ScriptOK, MeterOK, UNCHANGED <<response, meterVars, pos>>
  PROVE  ScriptOK' /\ MeterOK'
<1>1. ScriptOK'
  BY DEF ScriptOK, Lines, response
<1>2. Metered(pos)' = Metered(pos)
  BY DEF Metered, Record, Half, Billable, First, response
<1>3. MeterOK'
  <2>1. /\ partial' = partial /\ model' = model /\ inputTok' = inputTok /\ outputTok' = outputTok
        /\ [partial |-> partial, model |-> model, in |-> inputTok, out |-> outputTok] = Metered(pos)
    BY DEF MeterOK, meterVars
  <2>2. [partial |-> partial', model |-> model', in |-> inputTok', out |-> outputTok'] = Metered(pos)'
    BY <1>2, <2>1
  <2> QED
    BY <2>2 DEF MeterOK
<1> QED
  BY <1>1, <1>3

(* A Read of the body feeds the meter what it returns.                     *)
LEMMA ReadBodyBilled ==
  ASSUME BillingInv, NEW n \in Readable, NEW e \in {Nil, "eof", "error"}, ReadBody(n, e)
  PROVE  BillingInv'
<1> DEFINE chunk == [i \in 1..n |-> pos + i]
           q == pos + n
           u == Billable(First(q \div 2))
<1>1. /\ pos \in Nat /\ n \in Nat /\ q \in Nat /\ q <= len /\ n <= BufSize
      /\ len \in Nat /\ len <= 2 * MaxLines /\ len <= 2 * Len(script)
      /\ script \in Seq(Lines) /\ Len(script) \in Nat
  BY StreamAssumption DEF BillingInv, StreamTypeOK, ScriptOK, Readable, Least
<1>2. Consume(chunk) = Metered(q)
  <2>1. q <= 2 * Len(script)
    BY <1>1
  <2> QED
    BY <1>1, <2>1, ChunkConsumed DEF BillingInv, MeterOK
<1>3. /\ pos' = q /\ UNCHANGED <<upstream, script, len>>
      /\ partial' = Metered(q).partial /\ model' = Metered(q).model
      /\ inputTok' = Metered(q).in /\ outputTok' = Metered(q).out
      /\ at' = (IF e = Nil THEN "write" ELSE "failed") /\ err' = e /\ buf' = chunk
      /\ UNCHANGED <<ctxErr, gone>>
  BY <1>2 DEF ReadBody, response
<1>4. ScriptOK'
  BY <1>3 DEF ScriptOK, Lines, BillingInv
<1>5. Metered(q).partial = Half(q) /\ Metered(q).model = u.model /\ Metered(q).in = u.in /\ Metered(q).out = u.out
  BY DEF Metered, Record
<1>6. MeterOK'
  <2>1. Billable(First(pos \div 2))' = u
    BY <1>3 DEF Billable, First
  <2>2. Half(pos)' = Half(q)
    BY <1>3 DEF Half
  <2>3. Metered(pos)' = [partial |-> Half(q), model |-> u.model, in |-> u.in, out |-> u.out]
    BY <2>1, <2>2 DEF Metered, Record
  <2> HIDE DEF u
  <2> QED
    BY <1>3, <1>5, <2>3 DEF MeterOK
<1>7. StreamTypeOK'
  <2>1. q \div 2 \in 0..Len(script)
    BY <1>1
  <2>2. u.in \in Nat /\ u.out \in Nat
    BY <2>1, Billed DEF BillingInv
  <2>3. Len(chunk) = n
    BY <1>1
  <2> HIDE DEF u, chunk
  <2>4. inputTok' \in Nat /\ outputTok' \in Nat
    BY <1>3, <1>5, <2>2
  <2>5. Len(buf') <= BufSize
    BY <1>1, <1>3, <2>3
  <2>6. pos' \in 0..len'
    BY <1>1, <1>3
  <2> QED
    BY <1>1, <1>3, <2>4, <2>5, <2>6 DEF StreamTypeOK, BillingInv
<1>8. BilledAsReceived'
  <2>1. at' # "closed"
    BY <1>3
  <2> QED
    BY <2>1 DEF BilledAsReceived
<1> QED
  BY <1>4, <1>6, <1>7, <1>8 DEF BillingInv

(* Closing the body reports the totals of the meter.                       *)
LEMMA CloseBilled ==
  ASSUME BillingInv, Close
  PROVE  BillingInv'
<1>1. ScriptOK' /\ MeterOK'
  BY MeterKept DEF BillingInv, Close
<1>2. StreamTypeOK'
  BY DEF BillingInv, StreamTypeOK, Close, response, meterVars
<1>3. BilledAsReceived'
  <2> DEFINE n == pos \div 2  u == Billable(First(n))
  <2>1. n \in 0..Len(script)
    BY DEF BillingInv, StreamTypeOK, ScriptOK
  <2>2. u = [model |-> u.model, in |-> u.in, out |-> u.out]
    BY <2>1, Billed DEF BillingInv
  <2>3. Billable(First(n))' = u
    BY DEF Close, response, Billable, First
  <2>4. model = u.model /\ inputTok = u.in /\ outputTok = u.out
    BY DEF BillingInv, MeterOK, Metered, Record
  <2> HIDE DEF u
  <2>5. report' = IF u.in > 0 \/ u.out > 0 THEN [model |-> u.model, in |-> u.in, out |-> u.out] ELSE Nil
    BY <2>4 DEF Close
  <2>6. report' = IF u.in > 0 \/ u.out > 0 THEN u ELSE Nil
    BY <2>2, <2>5
  <2> QED
    BY <2>3, <2>6 DEF BilledAsReceived, First
<1> QED
  BY <1>1, <1>2, <1>3 DEF BillingInv

(* The next bytes of the trailer.                                          *)
LEMMA Places ==
  ASSUME StreamTypeOK, OutputOK
  PROVE  /\ pos \in Nat /\ Len(sent) \in Nat /\ Len(buf) \in Nat /\ Handed \in Nat
         /\ Len(sent) <= Handed
BY DEF StreamTypeOK, OutputOK, Handed

(* The next bytes of the trailer.                                          *)
LEMMA PendingHandedOut ==
  ASSUME StreamTypeOK, OutputOK, ReadPending
  PROVE  \E n \in 1..((pos + 3) - Len(sent)) :
           /\ pos <= Len(sent) /\ n <= BufSize
           /\ buf' = Piece(pos, Len(sent), Len(sent) + n) /\ Len(buf') = n
           /\ pending' = Piece(pos, Len(sent) + n, pos + 3)
           /\ pending' = <<>> <=> n = (pos + 3) - Len(sent)
           /\ err' = IF n = (pos + 3) - Len(sent) THEN "eof" ELSE Nil
           /\ ctxErr = "deadline"
<1> DEFINE h == Len(sent)
           z == pos + 3
           k == z - h
           n == Least(BufSize, k)
<1>0. k = (pos + 3) - Len(sent) /\ h = Len(sent) /\ z = pos + 3
  OBVIOUS
<1>1. /\ Handed = h /\ h >= pos /\ h < z /\ pending = Piece(pos, h, z)
      /\ ctxErr = "deadline"
  BY DEF ReadPending, OutputOK, Handed
<1>2. pos \in Nat /\ h \in Nat /\ z \in Nat /\ h <= z
  BY <1>1, Places
<1>3. n \in 1..k /\ n \in 0..(z - h) /\ n <= BufSize /\ h + n \in Nat /\ h + n <= z
  BY <1>1, <1>2, StreamAssumption DEF Least
<1> HIDE DEF h, z
<1>4. Len(pending) = k
  BY <1>1, <1>2, PieceIsSeq
<1>5. /\ buf' = SubSeq(pending, 1, n)
      /\ pending' = SubSeq(pending, n + 1, k)
      /\ err' = IF n = k THEN "eof" ELSE Nil
  BY <1>4 DEF ReadPending
<1> HIDE DEF n
<1>6. buf' = Piece(pos, h, h + n) /\ pending' = Piece(pos, h + n, z)
  <2>1. /\ SubSeq(Piece(pos, h, z), 1, n) = Piece(pos, h, h + n)
        /\ SubSeq(Piece(pos, h, z), n + 1, z - h) = Piece(pos, h + n, z)
    BY <1>2, <1>3, PieceCut
  <2> QED
    BY <1>1, <1>5, <2>1
<1>7. Len(buf') = n
  <2>1. h <= h + n /\ (h + n) - h = n
    BY <1>2, <1>3
  <2> QED
    BY <1>2, <1>3, <1>6, <2>1, PieceIsSeq
<1>8. pending' = <<>> <=> n = k
  <2>1. Len(pending') = z - (h + n) /\ pending' \in Seq(Int)
    BY <1>2, <1>3, <1>6, PieceIsSeq
  <2>2. pending' = <<>> <=> Len(pending') = 0
    BY <2>1, EmptySeq
  <2> QED
    BY <1>2, <1>3, <2>1, <2>2
<1>9. pos <= h
  BY <1>1, <1>2
<1> HIDE DEF k
<1>10. n \in 1..k /\ pos <= h /\ n <= BufSize /\ ctxErr = "deadline"
  BY <1>1, <1>3, <1>9
<1>11. /\ buf' = Piece(pos, h, h + n) /\ Len(buf') = n
       /\ pending' = Piece(pos, h + n, z)
  BY <1>6, <1>7
<1>12. err' = IF n = k THEN "eof" ELSE Nil
  BY <1>5
<1>13. n \in 1..((pos + 3) - Len(sent))
  BY <1>0, <1>10
<1> WITNESS n \in 1..((pos + 3) - Len(sent))
<1>14. pending' = <<>> <=> n = (pos + 3) - Len(sent)
  BY <1>8, <1>0
<1>15. err' = IF n = (pos + 3) - Len(sent) THEN "eof" ELSE Nil
  BY <1>12, <1>0
<1> QED
  BY <1>10, <1>11, <1>0, <1>14, <1>15

(* Every other step leaves the meter alone.                                *)
LEMMA OthersBilled ==
  ASSUME BillingInv, OutputOK,
         \/ CheckDeadline \/ ReadPending \/ Write \/ WriteFails \/ Deadline \/ ClientLeaves
         \/ WriteTimeout
         \/ UNCHANGED streamVars
  PROVE  BillingInv'
<1>1. UNCHANGED <<response, meterVars, pos>>
  BY DEF CheckDeadline, ReadPending, Write, WriteFails, Deadline, ClientLeaves, WriteTimeout,
         streamVars
<1>2. ScriptOK' /\ MeterOK'
  BY <1>1, MeterKept DEF BillingInv
<1>3. BilledAsReceived'
  <2>1. at' # "closed" \/ UNCHANGED <<at, report>>
    BY DEF CheckDeadline, ReadPending, Write, WriteFails, Deadline, ClientLeaves, WriteTimeout,
         streamVars
  <2>2. Billable(SubSeq(script, 1, pos \div 2))' = Billable(SubSeq(script, 1, pos \div 2))
    BY <1>1 DEF Billable, response
  <2>3. CASE at' # "closed"
    BY <2>3 DEF BilledAsReceived
  <2>4. CASE at' = "closed" /\ UNCHANGED <<at, report>>
    BY <2>2, <2>4 DEF BilledAsReceived, BillingInv
  <2> QED
    BY <2>1, <2>3, <2>4
<1>4. StreamTypeOK'
  <2>1. UNCHANGED <<pos, len, inputTok, outputTok>>
    BY <1>1 DEF response, meterVars
  <2>2. StreamTypeOK
    BY DEF BillingInv
  <2>3. CASE CheckDeadline
    BY <2>1, <2>2, <2>3 DEF StreamTypeOK, CheckDeadline
  <2>4. CASE ReadPending
    BY <2>1, <2>2, <2>4, PendingHandedOut DEF StreamTypeOK, ReadPending
  <2>5. CASE Write
    BY <2>1, <2>2, <2>5 DEF StreamTypeOK, Write
  <2>6. CASE WriteFails
    BY <2>1, <2>2, <2>6 DEF StreamTypeOK, WriteFails
  <2>7. CASE Deadline
    BY <2>1, <2>2, <2>7 DEF StreamTypeOK, Deadline
  <2>8. CASE ClientLeaves
    BY <2>1, <2>2, <2>8 DEF StreamTypeOK, ClientLeaves
  <2>9. CASE WriteTimeout
    BY <2>1, <2>2, <2>9 DEF StreamTypeOK, WriteTimeout
  <2>10. CASE UNCHANGED streamVars
    BY <2>1, <2>2, <2>10 DEF StreamTypeOK, streamVars
  <2> QED
    BY <2>3, <2>4, <2>5, <2>6, <2>7, <2>8, <2>9, <2>10
<1> QED
  BY <1>2, <1>3, <1>4 DEF BillingInv

(* What the client gets, one step of the copy loop at a time.              *)
LEMMA ReadBodyOutput ==
  ASSUME StreamTypeOK, OutputOK, LoopOK,
         NEW n \in Readable, NEW e \in {Nil, "eof", "error"}, ReadBody(n, e)
  PROVE  OutputOK' /\ LoopOK'
<1> DEFINE q == pos + n
<1>1. pos \in Nat /\ n \in Nat /\ q \in Nat /\ pos <= q
  BY StreamAssumption DEF StreamTypeOK, Readable, Least
<1>2. /\ at = "read" /\ pending = <<>> /\ pending' = <<>> /\ sent' = sent
      /\ pos' = q /\ buf' = [i \in 1..n |-> pos + i] /\ err' = e
      /\ at' = IF e = Nil THEN "write" ELSE "failed"
  BY DEF ReadBody
<1>3. Len(sent) = pos /\ sent \in Seq(Int) /\ sent = Piece(pos, 0, pos)
  BY <1>2 DEF OutputOK, LoopOK, Handed
<1>4. sent' = Piece(q, 0, pos) /\ buf' = Piece(q, pos, q)
  <2>1. Piece(q, pos, q) = [i \in 1..(q - pos) |-> pos + i] /\ q - pos = n
    BY <1>1, PieceOfBytes
  <2>2. Piece(q, 0, pos) = Piece(pos, 0, pos)
    BY <1>1, PieceOfBytes
  <2> QED
    BY <1>2, <1>3, <2>1, <2>2
<1>5. buf' \in Seq(Int) /\ Len(buf') = n
  <2>1. q - pos = n
    BY <1>1
  <2> HIDE DEF q
  <2> QED
    BY <1>1, <1>4, <2>1, PieceIsSeq
<1> HIDE DEF q
<1>6. Handed' = q
  BY <1>1, <1>2, <1>3, <1>5 DEF Handed, q
<1>7. OutputOK'
  BY <1>1, <1>2, <1>3, <1>4, <1>5, <1>6 DEF OutputOK
<1>8. LoopOK'
  BY <1>2, <1>6 DEF LoopOK
<1> QED
  BY <1>7, <1>8

(* After a deadline the trailer stands behind the last byte.               *)
LEMMA CheckDeadlineOutput ==
  ASSUME StreamTypeOK, OutputOK, LoopOK, CheckDeadline
  PROVE  OutputOK' /\ LoopOK'
<1>1. /\ at = "failed" /\ at' = "write" /\ UNCHANGED <<sent, buf, pos, ctxErr>>
      /\ Handed = pos /\ err # Nil /\ pending = <<>>
  BY DEF CheckDeadline, response, LoopOK
<1>2. pos \in Nat /\ Handed' = Handed
  BY <1>1, Places DEF Handed
<1>3. CASE ctxErr = "deadline"
  <2>1. pending' = Piece(pos, pos, pos + 3) /\ pending' # <<>> /\ err' = Nil
    <3>1. pending' = Trailer /\ err' = Nil
      BY <1>3 DEF CheckDeadline
    <3>2. Trailer # <<>>
      BY DEF Trailer
    <3> QED
      BY <1>2, <3>1, <3>2, TrailerPiece
  <2>2. OutputOK'
    BY <1>1, <1>2, <1>3, <2>1 DEF OutputOK
  <2>3. LoopOK'
    BY <1>1, <1>2, <2>1 DEF LoopOK
  <2> QED
    BY <2>2, <2>3
<1>4. CASE ctxErr # "deadline"
  <2>1. UNCHANGED <<pending, err>>
    BY <1>4 DEF CheckDeadline
  <2>2. OutputOK'
    BY <1>1, <1>2, <2>1 DEF OutputOK
  <2>3. LoopOK'
    BY <1>1, <1>2, <2>1 DEF LoopOK
  <2> QED
    BY <2>2, <2>3
<1> QED
  BY <1>3, <1>4

(* The buffer is the next piece of the trailer.                            *)
LEMMA ReadPendingOutput ==
  ASSUME StreamTypeOK, OutputOK, LoopOK, ReadPending
  PROVE  OutputOK' /\ LoopOK'
<1> DEFINE h == Len(sent)
<1>1. /\ at' = "write" /\ UNCHANGED <<sent, pos, ctxErr>>
      /\ sent \in Seq(Int) /\ sent = Piece(pos, 0, h)
  BY DEF ReadPending, response, OutputOK
<1>2. pos \in Nat /\ h \in Nat
  BY Places
<1>3. PICK n \in 1..((pos + 3) - h) :
           /\ pos <= h /\ n <= BufSize
           /\ buf' = Piece(pos, h, h + n) /\ Len(buf') = n
           /\ pending' = Piece(pos, h + n, pos + 3)
           /\ pending' = <<>> <=> n = (pos + 3) - h
           /\ err' = IF n = (pos + 3) - h THEN "eof" ELSE Nil
           /\ ctxErr = "deadline"
  BY PendingHandedOut
<1>4. n \in Nat /\ h + n \in Nat /\ h <= h + n /\ h + n <= pos + 3
  BY <1>2, <1>3
<1>5. Handed' = h + n
  BY <1>1, <1>3 DEF Handed
<1>6. buf' \in Seq(Int)
  BY <1>2, <1>3, <1>4, PieceIsSeq
<1>7. OutputOK'
  <2>1. pending' # <<>> => h + n >= pos /\ h + n < pos + 3
    BY <1>2, <1>3, <1>4
  <2> QED
    BY <1>1, <1>3, <1>4, <1>5, <1>6, <2>1 DEF OutputOK
<1>8. LoopOK'
  <2>1. CASE n = (pos + 3) - h
    <3>1. pending' = <<>> /\ err' = "eof" /\ Handed' = pos + 3 /\ h >= pos /\ Len(buf') > 0
      BY <1>2, <1>3, <1>5, <2>1
    <3> QED
      BY <1>1, <3>1, StreamAssumption DEF LoopOK
  <2>2. CASE n # (pos + 3) - h
    <3>1. pending' # <<>> /\ err' = Nil
      BY <1>3, <2>2
    <3> QED
      BY <1>1, <3>1 DEF LoopOK
  <2> QED
    BY <2>1, <2>2
<1> QED
  BY <1>7, <1>8

(* What is written follows what was sent.                                  *)
LEMMA WriteOutput ==
  ASSUME StreamTypeOK, OutputOK, LoopOK, Write
  PROVE  OutputOK' /\ LoopOK'
<1> DEFINE s == Len(sent)
<1>1. /\ at = "write" /\ sent' = sent \o buf /\ at' = IF err = Nil THEN "read" ELSE "closing"
      /\ UNCHANGED <<pos, pending, ctxErr, gone, buf, err>>
      /\ sent \in Seq(Int) /\ buf \in Seq(Int)
      /\ sent = Piece(pos, 0, s) /\ buf = Piece(pos, s, Handed)
      /\ Handed = s + Len(buf) /\ Handed <= pos + 3
  BY DEF Write, response, OutputOK, Handed
<1>2. pos \in Nat /\ s \in Nat /\ Handed \in Nat /\ s <= Handed /\ Len(buf) \in Nat
  BY Places
<1>a. err # Nil => \/ Handed = pos
                   \/ Handed = pos + 3 /\ err = "eof" /\ s >= pos /\ Len(buf) > 0
  BY <1>1 DEF LoopOK
<1>c. Handed = s + Len(buf)
  BY <1>1
<1>b. err = Nil => (pending = <<>> => Handed = pos)
  BY <1>1 DEF LoopOK
<1> HIDE DEF s
<1>3. sent' = Piece(pos, 0, Handed) /\ sent' \in Seq(Int) /\ Len(sent') = Handed
  <2>1. sent \o buf = Piece(pos, 0, Handed)
    <3>1. Piece(pos, 0, s) \o Piece(pos, s, Handed) = Piece(pos, 0, Handed)
      <4>1. 0 \in Nat /\ 0 <= s
        BY <1>2
      <4> QED
        BY <1>2, <4>1, PiecesMeet
    <3> QED
      BY <1>1, <3>1
  <2>2. 0 \in Nat /\ 0 <= Handed /\ Handed - 0 = Handed
    BY <1>2
  <2>3. Piece(pos, 0, Handed) \in Seq(Int) /\ Len(Piece(pos, 0, Handed)) = Handed - 0
    BY <1>2, <2>2, PieceIsSeq
  <2> QED
    BY <1>1, <2>1, <2>2, <2>3
<1>4. Handed' = Handed
  BY <1>1, <1>3 DEF Handed
<1>5. OutputOK'
  BY <1>1, <1>3, <1>4 DEF OutputOK
<1>6. LoopOK'
  <2>1. CASE err = Nil
    BY <1>1, <1>4, <1>b, <2>1 DEF LoopOK
  <2>2. CASE err # Nil
    <3>1. \/ Handed = pos
          \/ Handed = pos + 3 /\ err = "eof" /\ s >= pos /\ Len(buf) > 0
      BY <1>a, <2>2
    <3>2. Len(buf) > 0 => buf[1] = Char(pos, s + 1)
      <4>1. Len(buf) > 0 => 1 \in 1..(Handed - s)
        BY <1>1, <1>2
      <4>2. \A i \in 1..(Handed - s) : Piece(pos, s, Handed)[i] = Char(pos, s + i)
        BY <1>2, PieceIsSeq
      <4> QED
        BY <1>1, <4>1, <4>2
    <3>3. ASSUME Len(buf) > 0, Handed = pos PROVE buf[1] > 0
      <4>1. s + 1 <= pos /\ s + 1 > 0
        <5>1. s < pos
          BY <1>2, <1>c, <3>3
        <5> QED
          BY <1>2, <5>1
      <4>2. Char(pos, s + 1) = s + 1
        BY <4>1 DEF Char
      <4> QED
        BY <3>2, <3>3, <4>1, <4>2
    <3>4. Len(buf) > 0 /\ Handed = pos + 3 /\ s >= pos => buf[1] < 0
      <4>1. Len(buf) > 0 /\ Handed = pos + 3 /\ s >= pos =>
              ~(s + 1 <= pos) /\ ((s + 1) - pos) - 4 < 0
        <5>1. Len(buf) > 0 /\ Handed = pos + 3 => s < pos + 3
          BY <1>1, <1>2
        <5> QED
          BY <1>2, <5>1
      <4> QED
        BY <3>2, <4>1 DEF Char
    <3>5. at' = "closing" /\ Len(sent') = Handed /\ UNCHANGED <<pos, buf, err>>
      BY <1>1, <1>3, <2>2
    <3> QED
      BY <3>1, <3>3, <3>4, <3>5 DEF LoopOK
  <2> QED
    BY <2>1, <2>2
<1> QED
  BY <1>5, <1>6

(* The other steps move no byte.                                           *)
LEMMA OthersOutput ==
  ASSUME StreamTypeOK, OutputOK, LoopOK,
         WriteFails \/ Close \/ Deadline \/ ClientLeaves \/ WriteTimeout \/ UNCHANGED streamVars
  PROVE  OutputOK' /\ LoopOK'
<1>1. CASE WriteFails
  <2>1. /\ at = "write" /\ at' = "closing" /\ gone /\ gone'
        /\ UNCHANGED <<sent, buf, pos, pending, ctxErr, err>>
    BY <1>1 DEF WriteFails, response
  <2>2. Handed' = Len(sent) /\ Len(sent) <= Handed /\ Handed \in Nat /\ Len(sent) \in Nat /\ pos \in Nat
    BY <2>1, Places DEF Handed
  <2>3. OutputOK'
    BY <2>1, <2>2 DEF OutputOK
  <2>4. LoopOK'
    BY <2>1 DEF LoopOK
  <2> QED
    BY <2>3, <2>4
<1>2. CASE Close
  <2>1. /\ at = "closing" /\ at' = "closed" /\ UNCHANGED <<sent, buf, pos, pending, ctxErr, err, gone>>
    BY <1>2 DEF Close, response
  <2>2. Handed' = Handed
    BY <2>1 DEF Handed
  <2> QED
    BY <2>1, <2>2 DEF OutputOK, LoopOK
<1>3. CASE Deadline
  <2>1. ctxErr' = "deadline" /\ UNCHANGED <<sent, buf, pos, pending, at, err, gone>>
    BY <1>3 DEF Deadline, response
  <2>2. Handed' = Handed
    BY <2>1 DEF Handed
  <2> QED
    BY <2>1, <2>2 DEF OutputOK, LoopOK
<1>4. CASE ClientLeaves
  <2>1. /\ ctxErr = "deadline" => ctxErr' = "deadline"
        /\ gone' = TRUE /\ UNCHANGED <<sent, buf, pos, pending, at, err>>
    BY <1>4, StreamAssumption DEF ClientLeaves, response
  <2>2. Handed' = Handed
    BY <2>1 DEF Handed
  <2> QED
    BY <2>1, <2>2 DEF OutputOK, LoopOK
<1>w. CASE WriteTimeout
  <2>1. gone' = TRUE /\ UNCHANGED <<sent, buf, pos, pending, at, err, ctxErr>>
    BY <1>w DEF WriteTimeout, response
  <2>2. Handed' = Handed
    BY <2>1 DEF Handed
  <2> QED
    BY <2>1, <2>2 DEF OutputOK, LoopOK
<1>5. CASE UNCHANGED streamVars
  <2>1. UNCHANGED <<sent, buf, pos, pending, at, err, gone, ctxErr>>
    BY <1>5 DEF streamVars, response
  <2>2. Handed' = Handed
    BY <2>1 DEF Handed
  <2> QED
    BY <2>1, <2>2 DEF OutputOK, LoopOK
<1> QED
  BY <1>1, <1>2, <1>3, <1>4, <1>w, <1>5

-----------------------------------------------------------------------------
StreamInv == BillingInv /\ OutputOK /\ LoopOK

(* Before the first Read nothing was sent.                                 *)
LEMMA StreamInvInit == StreamInit => StreamInv
<1> SUFFICES ASSUME StreamInit PROVE StreamInv
  OBVIOUS
<1>1. /\ pos = 0 /\ pending = <<>> /\ at = "read" /\ buf = <<>> /\ err = Nil /\ sent = <<>>
  BY DEF StreamInit
<1>2. Len(sent) = 0 /\ Handed = 0 /\ sent \in Seq(Int) /\ buf \in Seq(Int)
  BY <1>1 DEF Handed
<1>3. Piece(0, 0, 0) = <<>>
  BY EmptyPiece
<1>4. OutputOK
  BY <1>1, <1>2, <1>3 DEF OutputOK
<1>5. LoopOK
  BY <1>1, <1>2 DEF LoopOK
<1> QED
  BY <1>4, <1>5, BillingInit DEF StreamInv

(* Every step of the meter and the copy loop keeps the bill and the text.  *)
LEMMA StreamInvStep == StreamInv /\ [StreamNext]_streamVars => StreamInv'
<1> SUFFICES ASSUME StreamInv, [StreamNext]_streamVars PROVE StreamInv'
  OBVIOUS
<1>1. BillingInv /\ StreamTypeOK /\ OutputOK /\ LoopOK
  BY DEF StreamInv, BillingInv
<1>2. CASE \E n \in Readable, e \in {Nil, "eof", "error"} : ReadBody(n, e)
  <2>1. PICK n \in Readable, e \in {Nil, "eof", "error"} : ReadBody(n, e)
    BY <1>2
  <2> QED
    BY <1>1, <2>1, ReadBodyBilled, ReadBodyOutput DEF StreamInv
<1>3. CASE CheckDeadline
  BY <1>1, <1>3, OthersBilled, CheckDeadlineOutput DEF StreamInv
<1>4. CASE ReadPending
  BY <1>1, <1>4, OthersBilled, ReadPendingOutput DEF StreamInv
<1>5. CASE Write
  BY <1>1, <1>5, OthersBilled, WriteOutput DEF StreamInv
<1>6. CASE Close
  BY <1>1, <1>6, CloseBilled, OthersOutput DEF StreamInv
<1>7. CASE WriteFails \/ Deadline \/ ClientLeaves \/ WriteTimeout \/ UNCHANGED streamVars
  BY <1>1, <1>7, OthersBilled, OthersOutput DEF StreamInv
<1> QED
  BY <1>2, <1>3, <1>4, <1>5, <1>6, <1>7 DEF StreamNext

(* The text sent so far, read as the client reads it: the bytes of the     *)
(* upstream, then a prefix of the trailer.                                 *)
LEMMA SentIsText ==
  ASSUME NEW p \in Nat, NEW h \in Nat, h <= p + 3
  PROVE  /\ h <= p => Piece(p, 0, h) = Bytes(h)
         /\ h > p  => Piece(p, 0, h) = Bytes(p) \o SubSeq(Trailer, 1, h - p)
         /\ SubSeq(Trailer, 1, 3) = Trailer
<1>1. ASSUME h <= p PROVE Piece(p, 0, h) = Bytes(h)
  <2>1. Piece(p, 0, h) = [i \in 1..(h - 0) |-> 0 + i]
    BY <1>1, PieceOfBytes
  <2> QED
    BY <2>1 DEF Bytes
<1>2. ASSUME h > p PROVE Piece(p, 0, h) = Bytes(p) \o SubSeq(Trailer, 1, h - p)
  <2>1. Piece(p, 0, p) = Bytes(p)
    <3>1. Piece(p, 0, p) = [i \in 1..(p - 0) |-> 0 + i]
      BY PieceOfBytes
    <3> QED
      BY <3>1 DEF Bytes
  <2> DEFINE k == h - p  z == p + 3
  <2>2. k \in 0..(z - p) /\ z \in Nat /\ p <= z /\ p + k = h /\ 0 \in Nat /\ 0 <= p /\ p <= h
    BY <1>2
  <2>3. Trailer = Piece(p, p, z)
    BY TrailerPiece
  <2> HIDE DEF k, z
  <2>a. z \in Nat /\ p <= z /\ k \in 0..(z - p) /\ p + k = h
    BY <2>2
  <2>b. 0 \in Nat /\ 0 <= p /\ p <= h
    BY <2>2
  <2>4. SubSeq(Trailer, 1, k) = Piece(p, p, p + k)
    <3>1. SubSeq(Piece(p, p, z), 1, k) = Piece(p, p, p + k)
      <4>1. ASSUME NEW y \in Nat, p <= y, NEW j \in 0..(y - p)
            PROVE  SubSeq(Piece(p, p, y), 1, j) = Piece(p, p, p + j)
        BY <4>1, PieceCut
      <4> QED
        BY <2>a, <4>1
    <3> QED
      BY <2>3, <3>1
  <2>5. Piece(p, 0, p) \o Piece(p, p, h) = Piece(p, 0, h)
    BY <2>b, PiecesMeet
  <2>6. Piece(p, 0, h) = Bytes(p) \o SubSeq(Trailer, 1, k)
    BY <2>1, <2>2, <2>4, <2>5
  <2> QED
    BY <2>6 DEF k
<1>3. SubSeq(Trailer, 1, 3) = Trailer
  <2>1. Trailer \in Seq(Int) /\ Len(Trailer) = 3
    BY DEF Trailer
  <2> HIDE DEF Trailer
  <2> QED
    BY <2>1, SubSeqFull
<1> QED
  BY <1>1, <1>2, <1>3

(* The invariant says what the client sees.                                *)
LEMMA ClientSees == StreamInv => ClientSeesUpstream
<1> SUFFICES ASSUME StreamInv PROVE ClientSeesUpstream
  OBVIOUS
<1> DEFINE h == Len(sent)
<1>1. /\ pos \in Nat /\ h \in Nat /\ h <= Handed /\ Handed \in Nat /\ Handed <= pos + 3
      /\ Handed > pos => ctxErr = "deadline"
      /\ sent = Piece(pos, 0, h)
  BY Places DEF StreamInv, BillingInv, OutputOK
<1>2. h > pos => ctxErr = "deadline"
  BY <1>1
<1>3. at \in {"closing", "closed"} /\ ~gone =>
        \/ h = pos /\ (Len(buf) > 0 => buf[1] > 0)
        \/ h = pos + 3 /\ err = "eof" /\ Len(buf) > 0 /\ buf[1] < 0
  BY DEF StreamInv, LoopOK
<1>4. Len(buf) > 0 => buf[1] \in Int
  BY DEF StreamInv, OutputOK
<1>5. h = Len(sent)
  OBVIOUS
<1> HIDE DEF h
<1>6. /\ h <= pos => sent = Bytes(h)
      /\ h > pos  => sent = Bytes(pos) \o SubSeq(Trailer, 1, h - pos)
      /\ SubSeq(Trailer, 1, 3) = Trailer
  <2>1. h <= pos + 3
    BY <1>1
  <2> QED
    BY <1>1, <2>1, SentIsText
<1>7. sent \in {Bytes(n) : n \in 0..pos}
              \cup {Bytes(pos) \o SubSeq(Trailer, 1, n) : n \in 1..Len(Trailer)}
  <2>1. Len(Trailer) = 3
    BY DEF Trailer
  <2>2. CASE h <= pos
    <3>1. h \in 0..pos /\ sent = Bytes(h)
      BY <1>1, <1>6, <2>2
    <3> QED
      BY <3>1, Zenon
  <2>3. CASE h > pos
    <3>1. h - pos \in 1..Len(Trailer)
      BY <1>1, <2>1, <2>3
    <3>2. sent = Bytes(pos) \o SubSeq(Trailer, 1, h - pos)
      BY <1>6, <2>3
    <3> QED
      BY <3>1, <3>2, Zenon
  <2>4. h <= pos \/ h > pos
    BY <1>1
  <2> QED
    BY <2>2, <2>3, <2>4
<1>8. ASSUME at \in {"closing", "closed"}, ~gone
      PROVE  sent = Bytes(pos) \o IF err = "eof" /\ Len(buf) > 0 /\ buf[1] < 0 THEN Trailer ELSE <<>>
  <2>1. CASE h = pos /\ (Len(buf) > 0 => buf[1] > 0)
    <3>1. sent = Bytes(pos) /\ ~(Len(buf) > 0 /\ buf[1] < 0)
      BY <1>1, <1>4, <1>6, <2>1
    <3>2. sent \in Seq(Int)
      BY DEF StreamInv, OutputOK
    <3>3. Bytes(pos) \o <<>> = Bytes(pos)
      BY <3>1, <3>2, ConcatEmptySeq
    <3> QED
      BY <3>1, <3>3
  <2>2. CASE h = pos + 3 /\ err = "eof" /\ Len(buf) > 0 /\ buf[1] < 0
    <3>1. h > pos /\ h - pos = 3
      BY <1>1, <2>2
    <3>2. sent = Bytes(pos) \o Trailer
      BY <1>6, <3>1
    <3> QED
      BY <2>2, <3>2
  <2> QED
    BY <1>3, <1>8, <2>1, <2>2
<1> QED
  BY <1>2, <1>5, <1>7, <1>8 DEF ClientSeesUpstream

(* The variables of the stream keep their types.                           *)
THEOREM StreamTypesKept == StreamSpec => []StreamTypeOK
<1>1. StreamInv => StreamTypeOK
  BY DEF StreamInv, BillingInv
<1> QED
  BY <1>1, StreamInvInit, StreamInvStep, PTL DEF StreamSpec

(* streamMeter.consume and Close: however an upstream's lines are cut into *)
(* reads, and however the stream ends, onDone is called with the usage of  *)
(* the complete lines that were read, and called with nothing when that is *)
(* zero.                                                                   *)
THEOREM BilledHoweverCut == StreamSpec => []BilledAsReceived
<1>1. StreamInv => BilledAsReceived
  BY DEF StreamInv, BillingInv
<1> QED
  BY <1>1, StreamInvInit, StreamInvStep, PTL DEF StreamSpec

(* streamMeter.Read: whatever the size of the caller's buffer and wherever *)
(* the deadline falls, the client gets the upstream's bytes in order, each *)
(* once, and after them a prefix of the trailer, all of it as long as the  *)
(* connection takes writes.                                                *)
THEOREM ClientSeesUpstreamAlways == StreamSpec => []ClientSeesUpstream
<1> QED
  BY ClientSees, StreamInvInit, StreamInvStep, PTL DEF StreamSpec
=============================================================================
