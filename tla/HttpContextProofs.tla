-------------------------- MODULE HttpContextProofs -------------------------
(***************************************************************************)
(* Proofs about HttpContext, for any requests, any noise and any width of  *)
(* unsigned numbers.                                                       *)
(***************************************************************************)
EXTENDS HttpContext, ListFacts, TLAPS

-----------------------------------------------------------------------------
(* Numbers *)

\* The first of some positions between a and the end.
IsFirst(m, S, a, end) ==
  /\ m \in a..end /\ m \in S \cup {end}
  /\ \A i \in S : m <= i
  /\ \A i \in a..end : i < m => i \notin S

\* First returns a position of the set, or the end, and none of the set comes before it.
LEMMA FirstFacts ==
  ASSUME NEW a \in Nat, NEW end \in Nat, a <= end, NEW S, S \subseteq a..end
  PROVE  IsFirst(First(S, end), S, a, end)
<1> DEFINE I == S \cup {end}
<1>1. I \subseteq a..end /\ I \subseteq Nat /\ I # {}
  OBVIOUS
<1>2. Min(I) \in I /\ \A j \in I : Min(I) <= j
  <2> HIDE DEF I
  <2> QED BY <1>1, MinIsLeast
<1>3. PICK m : m = First(S, end) /\ m = Min(I)
  BY DEF First
<1>4. m \in S \cup {end} /\ \A j \in S : m <= j
  BY <1>2, <1>3
<1>5. m \in a..end
  BY <1>4
<1>6. \A i \in a..end : i < m => i \notin S
  BY <1>4, <1>5
<1> QED BY <1>3, <1>4, <1>5, <1>6 DEF IsFirst

\* A digit has a number.
LEMMA DigitFacts == \A c \in Range(Digits) : DigitValue(c) \in Int
<1> TAKE c \in Range(Digits)
<1>1. DOMAIN Digits \subseteq Int
  BY DEF Digits
<1>2. \E i \in DOMAIN Digits : Digits[i] = c
  BY DEF Range
<1>3. (CHOOSE i \in DOMAIN Digits : Digits[i] = c) \in DOMAIN Digits
  BY <1>2
<1> QED BY <1>1, <1>3 DEF DigitValue

\* A sequence of digits has a number: the recursion on its length is well defined.
LEMMA ValueType ==
  ASSUME NEW digits, NEW n \in Nat, Len(digits) = n,
         \A k \in 1..n : digits[k] \in Range(Digits)
  PROVE  Value(digits) \in Int
<1> DEFINE Eq(v) == v = [k \in 0..Len(digits) |->
                           IF k = 0 THEN 0 ELSE 10 * v[k - 1] + DigitValue(digits[k])]
           step == [p \in (0..n) \X Int |->
                      IF p[1] = 0 THEN 0 ELSE 10 * p[2] + DigitValue(digits[p[1]])]
<1>1. \A k \in 1..n : DigitValue(digits[k]) \in Int
  BY DigitFacts
<1>2. step \in [(0..n) \X Int -> Int]
  <2>1. ASSUME NEW p \in (0..n) \X Int
        PROVE  (IF p[1] = 0 THEN 0 ELSE 10 * p[2] + DigitValue(digits[p[1]])) \in Int
    <3>1. p[1] # 0 => p[1] \in 1..n
      OBVIOUS
    <3>2. p[1] # 0 => DigitValue(digits[p[1]]) \in Int
      BY <1>1, <3>1
    <3> QED BY <3>2
  <2> QED BY <2>1
<1>3. PICK f \in [0..n -> Int] :
        \A k \in 0..n : f[k] = IF k = 0 THEN 0 ELSE step[<<k, f[k - 1]>>]
  <2> HIDE DEF step
  <2>1. 0 \in Nat /\ 0 <= n /\ 0 \in Int
    OBVIOUS
  <2>2. PICK z \in Int : z = 0 /\ z \in Nat /\ z <= n
    BY <2>1
  <2>3. step \in [(z..n) \X Int -> Int]
    BY <1>2, <2>2
  <2>4. IsDefined(z, n, Int, z, step)
    BY <2>2, <2>3, RecursiveFunction
  <2> QED BY <2>2, <2>4 DEF IsDefined
<1>4. Eq(f)
  <2>1. ASSUME NEW k \in 0..n, k # 0
        PROVE  step[<<k, f[k - 1]>>] = 10 * f[k - 1] + DigitValue(digits[k])
    <3>1. <<k, f[k - 1]>> \in (0..n) \X Int
      BY <2>1
    <3> QED BY <2>1, <3>1
  <2> HIDE DEF step
  <2>2. \A k \in 0..n : f[k] = IF k = 0 THEN 0 ELSE 10 * f[k - 1] + DigitValue(digits[k])
    BY <1>3, <2>1
  <2> QED BY <2>2
<1> DEFINE v == CHOOSE w : Eq(w)
<1>5. Eq(v)
  <2> HIDE DEF Eq
  <2> QED BY <1>4
<1>6. Value(digits) = v[n]
  BY DEF Value
<1> HIDE DEF v
<1>7. \A k \in 0..n : v[k] = IF k = 0 THEN 0 ELSE 10 * v[k - 1] + DigitValue(digits[k])
  BY <1>5
<1> DEFINE P == {k \in Nat : v[k] \in Int}
<1>8. 0 \in P
  BY <1>7
<1>9. ASSUME NEW k \in 0..n, k \in P, k < n PROVE k + 1 \in P
  <2>1. k + 1 \in 0..n /\ k + 1 # 0 /\ (k + 1) - 1 = k /\ k + 1 \in 1..n
    BY <1>9
  <2>2. v[k + 1] = 10 * v[(k + 1) - 1] + DigitValue(digits[k + 1])
    BY <1>7, <2>1
  <2>3. v[k + 1] = 10 * v[k] + DigitValue(digits[k + 1])
    BY <2>1, <2>2
  <2>4. v[k + 1] \in Int
    BY <1>1, <1>9, <2>1, <2>3
  <2> QED BY <2>1, <2>4
<1>10. 0..n \subseteq P
  <2> HIDE DEF P
  <2> QED BY <1>8, <1>9, IntervalInduction
<1>11. n \in P
  BY <1>10
<1> QED BY <1>6, <1>11

\* What stands before the first token that is no digit consists of digits.
LEMMA DigitsType ==
  ASSUME NEW C, NEW text \in Seq(C), NEW first \in 1..(Len(text) + 1)
  PROVE  Value(SubSeq(text, first,
                      First({i \in first..Len(text) : text[i] \notin Range(Digits)},
                            Len(text) + 1) - 1)) \in Int
<1>1. PICK n \in Nat : n = Len(text)
  OBVIOUS
<1>2. PICK S : S = {i \in first..n : text[i] \notin Range(Digits)}
  OBVIOUS
<1>3. PICK end \in Nat : end = n + 1
  OBVIOUS
<1>a. first \in Nat /\ first <= end /\ S \subseteq first..end
  BY <1>1, <1>2, <1>3
<1>4. PICK stop \in first..end : /\ stop = First(S, end)
                                 /\ \A i \in first..end : i < stop => i \notin S
  <2>1. IsFirst(First(S, end), S, first, end)
    BY <1>a, FirstFacts
  <2> QED BY <2>1 DEF IsFirst
<1>5. PICK d : d = SubSeq(text, first, stop - 1)
  OBVIOUS
<1>6. ASSUME NEW i \in first..(stop - 1) PROVE i \in 1..n /\ text[i] \in Range(Digits)
  <2>1. i \in first..n /\ i \in first..end /\ i < stop /\ i \in 1..n
    BY <1>1, <1>3, <1>4
  <2>2. i \notin S
    BY <1>4, <2>1
  <2> QED BY <1>2, <2>1, <2>2
<1>7. stop \in Int /\ stop - 1 \in Int /\ first \in Int /\ first <= stop
  BY <1>a, <1>4
<1>8. /\ Len(d) = IF first <= stop - 1 THEN (stop - 1) - first + 1 ELSE 0
      /\ \A k \in 1..((stop - 1) - first + 1) : d[k] = text[first + k - 1]
  BY <1>5, <1>6, <1>7, SubSeqProperties
<1>9. Len(d) = stop - first /\ Len(d) \in Nat
  BY <1>7, <1>8
<1>10. ASSUME NEW k \in 1..Len(d) PROVE d[k] \in Range(Digits)
  <2>1. k \in 1..((stop - 1) - first + 1) /\ first + k - 1 \in first..(stop - 1)
    BY <1>7, <1>9
  <2> QED BY <1>6, <1>8, <2>1
<1>11. Value(d) \in Int
  BY <1>9, <1>10, ValueType
<1> QED BY <1>1, <1>2, <1>3, <1>4, <1>5, <1>11

\* A number stays one within the range of a long.
LEMMA ClampType == ASSUME NEW n \in Int PROVE Clamp(n) \in Int
BY ParserAssumption DEF Clamp

\* strtol returns a number for any text.
LEMMA NumberType == ASSUME NEW C, NEW text \in Seq(C) PROVE Number(text) \in Int
<1>1. PICK n \in Nat : n = Len(text)
  OBVIOUS
<1>2. PICK S : S = {i \in 1..n : text[i] \notin Spaces}
  OBVIOUS
<1>3. PICK end \in Nat : end = n + 1 /\ 1 <= end
  OBVIOUS
<1>a. S \subseteq 1..end
  <2>1. \A i \in S : i \in 1..n
    BY <1>2
  <2> QED BY <1>3, <2>1
<1>4. PICK start \in 1..end : start = First(S, end)
  <2>1. PICK one \in Nat : one = 1
    OBVIOUS
  <2>2. IsFirst(First(S, end), S, one, end)
    BY <1>3, <1>a, <2>1, FirstFacts
  <2> QED BY <2>1, <2>2 DEF IsFirst
<1> DEFINE signed == start < end /\ text[start] \in {"-", "+"}
<1>6. PICK first : first = IF signed THEN start + 1 ELSE start
  OBVIOUS
<1>7. first \in 1..(Len(text) + 1)
  <2>1. signed => start < end
    OBVIOUS
  <2> HIDE DEF signed
  <2>2. CASE signed
    BY <1>1, <1>3, <1>4, <1>6, <2>1, <2>2
  <2>3. CASE ~signed
    BY <1>1, <1>3, <1>4, <1>6, <2>3
  <2> QED BY <2>2, <2>3
<1>8. PICK v \in Int :
        v = Value(SubSeq(text, first,
                         First({i \in first..Len(text) : text[i] \notin Range(Digits)},
                               Len(text) + 1) - 1))
  BY <1>7, DigitsType
<1>9. Number(text) = Clamp(IF signed /\ text[start] = "-" THEN -v ELSE v)
  BY <1>1, <1>2, <1>3, <1>4, <1>6, <1>8 DEF Number
<1>10. PICK w \in Int : w = IF signed /\ text[start] = "-" THEN -v ELSE v
  <2> DEFINE minus == signed /\ text[start] = "-"
  <2> HIDE DEF minus
  <2>1. (IF minus THEN -v ELSE v) \in Int
    BY <1>8
  <2> QED BY <2>1 DEF minus
<1> QED BY <1>9, <1>10, ClampType

\* What is stored in bodySize is within the width of an unsigned int.
LEMMA AtoiType == ASSUME NEW C, NEW text \in Seq(C) PROVE Atoi(text) \in Nat
<1>1. Number(text) \in Int
  BY NumberType
<1> QED BY <1>1, ParserAssumption DEF Atoi

-----------------------------------------------------------------------------
(* Lines *)

\* A line ends here.
EndsAt(buf, i) == buf[i] = CR /\ buf[i + 1] = LF

\* What std::search returns: the first CRLF, or the end.
IsSearch(c, buf, it) ==
  /\ c \in 0..(Len(buf) + 1)
  /\ c <= Len(buf) => c \in it..(Len(buf) - 1) /\ EndsAt(buf, c)
  /\ \A i \in it..(Len(buf) - 1) : i < c => ~EndsAt(buf, i)

\* std::search returns the first CRLF at or after its start, or the end of the buffer.
LEMMA SearchFacts ==
  ASSUME NEW C, NEW buf \in Seq(C), NEW it \in Nat
  PROVE  IsSearch(Search(buf, it), buf, it)
<1>1. PICK n \in Nat : n = Len(buf)
  OBVIOUS
<1>2. PICK S : S = {i \in it..(n - 1) : EndsAt(buf, i)}
  OBVIOUS
<1>3. PICK end \in Nat : end = n + 1
  OBVIOUS
<1>4. PICK z \in Nat : z = 0 /\ z <= end
  OBVIOUS
<1>5. \A i \in S : i \in it..(n - 1) /\ EndsAt(buf, i)
  BY <1>2
<1>6. S \subseteq z..end
  BY <1>3, <1>4, <1>5
<1>7. IsFirst(First(S, end), S, z, end)
  BY <1>4, <1>6, FirstFacts
<1>8. PICK c : c = Search(buf, it) /\ c = First(S, end)
  BY <1>1, <1>2, <1>3 DEF Search, EndsAt
<1>9. c \in z..end /\ c \in S \cup {end} /\ \A i \in z..end : i < c => i \notin S
  BY <1>7, <1>8 DEF IsFirst
<1>10. c <= n => c \in it..(n - 1) /\ EndsAt(buf, c)
  BY <1>3, <1>5, <1>9
<1>11. \A i \in it..(n - 1) : i < c => ~EndsAt(buf, i)
  BY <1>2, <1>3, <1>4, <1>9
<1>12. c \in 0..(n + 1)
  BY <1>3, <1>4, <1>9
<1> QED BY <1>1, <1>8, <1>10, <1>11, <1>12 DEF IsSearch

\* There is only one.
LEMMA SearchIs ==
  ASSUME NEW C, NEW buf \in Seq(C), NEW it \in Nat, NEW c \in it..(Len(buf) - 1),
         EndsAt(buf, c), \A i \in it..(c - 1) : ~EndsAt(buf, i)
  PROVE  Search(buf, it) = c
<1>1. PICK n \in Nat : n = Len(buf)
  OBVIOUS
<1>2. PICK d : d = Search(buf, it) /\ IsSearch(d, buf, it)
  BY SearchFacts
<1>3. /\ d \in 0..(n + 1) /\ (d <= n => d \in it..(n - 1) /\ EndsAt(buf, d))
      /\ \A i \in it..(n - 1) : i < d => ~EndsAt(buf, i)
  BY <1>1, <1>2 DEF IsSearch
<1>4. ~(c < d)
  BY <1>1, <1>3
<1>5. ~(d < c)
  BY <1>1, <1>3
<1> QED BY <1>2, <1>3, <1>4, <1>5

IsColon(k, buf, it, crlf) ==
  /\ k \in it..crlf
  /\ k < crlf => buf[k] = ":"
  /\ \A i \in it..(crlf - 1) : i < k => buf[i] # ":"

\* std::find returns a colon of the line, or the end of the line.
LEMMA ColonFacts ==
  ASSUME NEW buf, NEW it \in Nat, NEW crlf \in Nat, it <= crlf
  PROVE  IsColon(Colon(buf, it, crlf), buf, it, crlf)
<1>1. PICK S : S = {i \in it..(crlf - 1) : buf[i] = ":"}
  OBVIOUS
<1>2. \A i \in S : i \in it..(crlf - 1) /\ buf[i] = ":"
  BY <1>1
<1>3. S \subseteq it..crlf
  BY <1>2
<1>4. IsFirst(First(S, crlf), S, it, crlf)
  BY <1>3, FirstFacts
<1>5. PICK k : k = Colon(buf, it, crlf) /\ k = First(S, crlf)
  BY <1>1 DEF Colon
<1>6. k \in it..crlf /\ k \in S \cup {crlf} /\ \A i \in it..crlf : i < k => i \notin S
  BY <1>4, <1>5 DEF IsFirst
<1>7. k < crlf => buf[k] = ":"
  BY <1>2, <1>6
<1>8. \A i \in it..(crlf - 1) : i < k => buf[i] # ":"
  BY <1>1, <1>6
<1> QED BY <1>5, <1>6, <1>7, <1>8 DEF IsColon

\* A header leaves a number in bodySize.
LEMMA BodySizeType ==
  ASSUME NEW C, NEW buf \in Seq(C), NEW s \in Loop, NEW crlf \in s.it..Len(buf)
  PROVE  /\ BodySize(buf, s, crlf) \in Int
         /\ s.bodySize \in Nat => BodySize(buf, s, crlf) \in Nat
<1>1. s.it \in Nat /\ s.bodySize \in Int /\ crlf \in Nat /\ s.it <= crlf /\ Len(buf) \in Nat
  BY DEF Loop
<1>2. PICK it \in Nat : it = s.it
  BY <1>1
<1>3. IsColon(Colon(buf, it, crlf), buf, it, crlf)
  BY <1>1, <1>2, ColonFacts
<1>4. PICK k : k = Colon(buf, s.it, crlf) /\ k \in it..crlf
  BY <1>2, <1>3 DEF IsColon
<1>5. PICK text : text = SubSeq(buf, k + 1, crlf - 1)
  OBVIOUS
<1>6. k + 1 \in Int /\ crlf - 1 \in Int /\ \A i \in (k + 1)..(crlf - 1) : buf[i] \in C
  <2>1. \A i \in (k + 1)..(crlf - 1) : i \in 1..Len(buf)
    BY <1>1, <1>2, <1>4
  <2> QED BY <1>1, <1>4, <2>1
<1>7. text \in Seq(C)
  BY <1>5, <1>6, SubSeqProperties
<1>8. Atoi(text) \in Nat
  BY <1>7, AtoiType
<1>9. BodySize(buf, s, crlf) \in {Atoi(text), s.bodySize}
  BY <1>4, <1>5 DEF BodySize
<1> QED BY <1>1, <1>8, <1>9

-----------------------------------------------------------------------------
(* The loop over the headers is well defined. *)

IsScan(f, buf) ==
  \A s \in Loop :
    f[s] = LET crlf == Search(buf, s.it)
           IN IF crlf > Len(buf) THEN Incomplete
              ELSE IF Colon(buf, s.it, crlf) = crlf THEN ExpectBody(buf, crlf + 2, s.bodySize)
              ELSE f[At(crlf + 2, BodySize(buf, s, crlf))]

\* A state of the loop and its parts.
LEMMA AtFacts ==
  ASSUME NEW it \in Nat, NEW b \in Int
  PROVE  At(it, b) \in Loop /\ At(it, b).it = it /\ At(it, b).bodySize = b
BY DEF At, Loop

\* Where the loop is after a line.
After(buf, s) == At(Search(buf, s.it) + 2, BodySize(buf, s, Search(buf, s.it)))
Stops(buf, s) ==
  Search(buf, s.it) > Len(buf) \/ Colon(buf, s.it, Search(buf, s.it)) = Search(buf, s.it)

\* The state after a header line is a state of the loop, further on in the buffer.
LEMMA AfterFacts ==
  ASSUME NEW C, NEW buf \in Seq(C), NEW s \in Loop, ~(Search(buf, s.it) > Len(buf))
  PROVE  /\ Search(buf, s.it) \in s.it..(Len(buf) - 1)
         /\ After(buf, s) \in Loop
         /\ After(buf, s).it = Search(buf, s.it) + 2
         /\ After(buf, s).bodySize = BodySize(buf, s, Search(buf, s.it))
         /\ s.bodySize \in Nat => After(buf, s).bodySize \in Nat
<1>1. s.it \in Nat /\ Len(buf) \in Nat
  BY DEF Loop
<1>2. PICK c : c = Search(buf, s.it) /\ IsSearch(c, buf, s.it)
  BY <1>1, SearchFacts
<1>3. c \in s.it..(Len(buf) - 1) /\ c \in Nat
  BY <1>1, <1>2 DEF IsSearch
<1>4. c \in s.it..Len(buf)
  BY <1>1, <1>3
<1>5. PICK b \in Int : b = BodySize(buf, s, c) /\ (s.bodySize \in Nat => b \in Nat)
  BY <1>4, BodySizeType
<1>6. c + 2 \in Nat
  BY <1>3
<1>7. At(c + 2, b) \in Loop /\ At(c + 2, b).it = c + 2 /\ At(c + 2, b).bodySize = b
  BY <1>6, AtFacts
<1> QED BY <1>2, <1>3, <1>5, <1>7 DEF After

\* Bytes that are left.
Left(buf, s) == IF s.it <= Len(buf) + 1 THEN Len(buf) + 1 - s.it ELSE 0

\* Each turn of the loop leaves less of the buffer: this is why it ends.
LEMMA LeftFacts ==
  ASSUME NEW C, NEW buf \in Seq(C), NEW s \in Loop
  PROVE  /\ Left(buf, s) \in Nat /\ Left(buf, s) <= Len(buf) + 1
         /\ ~(Search(buf, s.it) > Len(buf)) => Left(buf, After(buf, s)) < Left(buf, s)
<1>1. s.it \in Nat /\ Len(buf) \in Nat
  BY DEF Loop
<1>2. Left(buf, s) \in Nat /\ Left(buf, s) <= Len(buf) + 1
  BY <1>1 DEF Left
<1>3. ASSUME ~(Search(buf, s.it) > Len(buf))
      PROVE  Left(buf, After(buf, s)) < Left(buf, s)
  <2>1. PICK c \in s.it..(Len(buf) - 1) : c = Search(buf, s.it) /\ After(buf, s).it = c + 2
    BY <1>3, AfterFacts
  <2>2. Left(buf, After(buf, s)) = Len(buf) + 1 - (c + 2)
    BY <1>1, <2>1 DEF Left
  <2>3. Left(buf, s) = Len(buf) + 1 - s.it
    BY <1>1, <2>1 DEF Left
  <2> QED BY <1>1, <2>1, <2>2, <2>3
<1> QED BY <1>2, <1>3

\* The header loop is well defined: ExpectHeaders satisfies its own equation.
LEMMA ScanEquation ==
  ASSUME NEW C, NEW buf \in Seq(C)
  PROVE  IsScan(ExpectHeaders(buf), buf)
<1> DEFINE out(s) == IF Search(buf, s.it) > Len(buf) THEN Incomplete
                     ELSE ExpectBody(buf, Search(buf, s.it) + 2, s.bodySize)
           res == [s \in Loop |-> out(s)]
           R == {out(s) : s \in Loop}
           Done == {s \in Loop : Stops(buf, s)}
           next == [s \in Loop |-> IF Stops(buf, s) THEN s ELSE After(buf, s)]
           size == [s \in Loop |-> Left(buf, s)]
           Eq(f) == f = [s \in Loop |->
                      LET crlf == Search(buf, s.it)
                      IN IF crlf > Len(buf) THEN Incomplete
                         ELSE IF Colon(buf, s.it, crlf) = crlf
                              THEN ExpectBody(buf, crlf + 2, s.bodySize)
                         ELSE f[At(crlf + 2, BodySize(buf, s, crlf))]]
<1>1. PICK n \in Nat : n = Len(buf) + 1
  OBVIOUS
<1>2. size \in [Loop -> Nat] /\ \A s \in Loop : size[s] <= n
  BY <1>1, LeftFacts
<1>3. res \in [Loop -> R]
  OBVIOUS
<1>4. \A s \in Loop : ~Stops(buf, s) => ~(Search(buf, s.it) > Len(buf))
  BY DEF Stops
<1>5. next \in [Loop -> Loop]
  <2>1. \A s \in Loop : ~Stops(buf, s) => After(buf, s) \in Loop
    BY <1>4, AfterFacts
  <2> QED BY <2>1
<1>6. \A s \in Loop : s \notin Done => size[next[s]] < size[s]
  <2>1. ASSUME NEW s \in Loop, ~Stops(buf, s) PROVE Left(buf, After(buf, s)) < Left(buf, s)
    BY <1>4, <2>1, LeftFacts
  <2>2. ASSUME NEW s \in Loop, ~Stops(buf, s)
        PROVE  size[s] = Left(buf, s) /\ size[next[s]] = Left(buf, After(buf, s))
    <3>1. After(buf, s) \in Loop
      BY <1>4, <2>2, AfterFacts
    <3> QED BY <2>2, <3>1
  <2> HIDE DEF size, next
  <2> QED BY <2>1, <2>2
<1>7. PICK f \in [Loop -> R] :
        \A s \in Loop : f[s] = IF s \in Done THEN res[s] ELSE f[next[s]]
  <2> HIDE DEF size, next, res, R, Done
  <2>1. EndsSomewhere(Loop, R, res, Done, next)
    BY <1>2, <1>3, <1>5, <1>6, LoopFunction
  <2> QED BY <2>1 DEF EndsSomewhere
<1>8. Eq(f)
  <2>1. ASSUME NEW s \in Loop
        PROVE  f[s] = LET crlf == Search(buf, s.it)
                      IN IF crlf > Len(buf) THEN Incomplete
                         ELSE IF Colon(buf, s.it, crlf) = crlf
                              THEN ExpectBody(buf, crlf + 2, s.bodySize)
                         ELSE f[At(crlf + 2, BodySize(buf, s, crlf))]
    BY <1>7 DEF Stops, After
  <2>2. f = [s \in Loop |-> f[s]]
    OBVIOUS
  <2> QED BY <2>1, <2>2
<1> DEFINE g == CHOOSE h : Eq(h)
<1>9. Eq(g)
  <2> HIDE DEF Eq
  <2> QED BY <1>8
<1>10. ExpectHeaders(buf) = g
  BY DEF ExpectHeaders
<1> HIDE DEF g
<1>11. IsScan(g, buf)
  BY <1>9 DEF IsScan
<1> QED BY <1>10, <1>11

\* The three ways a turn of the loop ends: no line, a line without a colon, a header.
LEMMA ScanFacts ==
  ASSUME NEW C, NEW buf \in Seq(C), NEW s \in Loop
  PROVE  /\ Search(buf, s.it) > Len(buf) => ExpectHeaders(buf)[s] = Incomplete
         /\ Stops(buf, s) /\ ~(Search(buf, s.it) > Len(buf)) =>
              ExpectHeaders(buf)[s] = ExpectBody(buf, Search(buf, s.it) + 2, s.bodySize)
         /\ ~Stops(buf, s) => ExpectHeaders(buf)[s] = ExpectHeaders(buf)[After(buf, s)]
<1>1. PICK f : f = ExpectHeaders(buf) /\ IsScan(f, buf)
  BY ScanEquation
<1>2. f[s] = LET crlf == Search(buf, s.it)
             IN IF crlf > Len(buf) THEN Incomplete
                ELSE IF Colon(buf, s.it, crlf) = crlf THEN ExpectBody(buf, crlf + 2, s.bodySize)
                ELSE f[At(crlf + 2, BodySize(buf, s, crlf))]
  BY <1>1 DEF IsScan
<1> QED BY <1>1, <1>2 DEF Stops, After

\* Induction along the loop.
LEMMA LoopInduction ==
  ASSUME NEW C, NEW buf \in Seq(C), NEW S, S \subseteq Loop, NEW P,
         \A s \in S : ~Stops(buf, s) => After(buf, s) \in S,
         \A s \in S : Stops(buf, s) \/ After(buf, s) \in P => s \in P
  PROVE  S \subseteq P
<1>1. PICK size : size = [s \in S |-> Left(buf, s)]
  OBVIOUS
<1>2. \A s \in S : s \in Loop
  OBVIOUS
<1>3. size \in [S -> Nat]
  BY <1>1, <1>2, LeftFacts
<1>4. ASSUME NEW s \in S, \A y \in S : size[y] < size[s] => y \in P PROVE s \in P
  <2>1. CASE Stops(buf, s)
    BY <2>1
  <2>2. CASE ~Stops(buf, s)
    <3>1. After(buf, s) \in S /\ ~(Search(buf, s.it) > Len(buf))
      BY <2>2 DEF Stops
    <3>2. Left(buf, After(buf, s)) < Left(buf, s)
      BY <1>2, <3>1, LeftFacts
    <3>3. size[After(buf, s)] < size[s]
      BY <1>1, <3>1, <3>2
    <3> QED BY <1>4, <3>1, <3>3
  <2> QED BY <2>1, <2>2
<1> QED BY <1>3, <1>4, SizeInduction

\* What a parse returns: a length only when there is one, within the buffer.
Within(r, buf) ==
  /\ r \in [ok : BOOLEAN, length : Nat]
  /\ r.ok => r.length \in 1..Len(buf)

\* "Not yet" announces nothing.
LEMMA IncompleteWithin == \A buf : Within(Incomplete, buf) /\ ~Incomplete.ok
BY DEF Within, Incomplete

\* kExpectBody announces no more than the buffer has.
LEMMA BodyWithin ==
  ASSUME NEW C, NEW buf \in Seq(C), NEW c \in Nat, c < Len(buf), NEW b \in Nat
  PROVE  Within(ExpectBody(buf, c + 2, b), buf)
<1>1. Len(buf) \in Nat
  OBVIOUS
<1>2. CASE b = 0 \/ Len(buf) - (c + 2 - 1) >= b
  <2>1. PICK n : n = c + 2 - 1 + b
    OBVIOUS
  <2>2. ExpectBody(buf, c + 2, b) = [ok |-> TRUE, length |-> n]
    BY <1>2, <2>1 DEF ExpectBody
  <2>3. n \in Nat /\ n \in 1..Len(buf)
    BY <1>1, <1>2, <2>1
  <2>4. [ok |-> TRUE, length |-> n] \in [ok : BOOLEAN, length : Nat]
    BY <2>3
  <2>5. PICK r : r = ExpectBody(buf, c + 2, b) /\ r = [ok |-> TRUE, length |-> n]
    BY <2>2
  <2>6. Within(r, buf)
    <3>1. r \in [ok : BOOLEAN, length : Nat]
      BY <2>4, <2>5
    <3>2. r.length = n
      BY <2>5
    <3>3. r.length \in 1..Len(buf)
      BY <2>3, <3>2
    <3> QED BY <3>1, <3>3 DEF Within
  <2> QED BY <2>5, <2>6
<1>3. CASE ~(b = 0 \/ Len(buf) - (c + 2 - 1) >= b)
  <2>1. ExpectBody(buf, c + 2, b) = Incomplete
    BY <1>3 DEF ExpectBody
  <2> QED BY <2>1, IncompleteWithin
<1> QED BY <1>2, <1>3

\* So does the header loop, by induction on what is left of the buffer.
LEMMA ScanWithin ==
  ASSUME NEW C, NEW buf \in Seq(C), NEW s \in Loop, s.bodySize \in Nat
  PROVE  Within(ExpectHeaders(buf)[s], buf)
<1> DEFINE S == {x \in Loop : x.bodySize \in Nat}
           P == {x \in Loop : Within(ExpectHeaders(buf)[x], buf)}
<1>1. \A x \in S : ~Stops(buf, x) => After(buf, x) \in S
  BY AfterFacts DEF Stops
<1>2. ASSUME NEW x \in S, Stops(buf, x) \/ After(buf, x) \in P PROVE x \in P
  <2>1. CASE Search(buf, x.it) > Len(buf)
    BY <2>1, ScanFacts, IncompleteWithin
  <2>2. CASE Stops(buf, x) /\ ~(Search(buf, x.it) > Len(buf))
    <3>0. x \in Loop /\ x.it \in Nat /\ Len(buf) \in Nat
      BY DEF Loop
    <3>1. Search(buf, x.it) \in x.it..(Len(buf) - 1)
      BY <2>2, <3>0, AfterFacts
    <3>2. PICK c \in Nat : c = Search(buf, x.it) /\ c < Len(buf)
      BY <3>0, <3>1
    <3>3. Within(ExpectBody(buf, c + 2, x.bodySize), buf)
      BY <3>2, BodyWithin
    <3> QED BY <2>2, <3>2, <3>3, ScanFacts
  <2>3. CASE ~Stops(buf, x)
    BY <1>2, <2>3, ScanFacts
  <2> QED BY <2>1, <2>2, <2>3
<1>3. S \subseteq P
  <2>1. S \subseteq Loop
    OBVIOUS
  <2> HIDE DEF S, P
  <2> QED BY <1>1, <1>2, <2>1, LoopInduction
<1>4. s \in S
  OBVIOUS
<1> QED BY <1>3, <1>4

\* For any buffer at all, the length parseRequest returns is within it.
THEOREM ParseWithinBuffer ==
  ASSUME NEW C, NEW buf \in Seq(C), NEW ctx
  PROVE  Within(ParseRequest(ctx, buf).info, buf)
<1>1. PICK c : c = Search(buf, 1) /\ IsSearch(c, buf, 1)
  BY SearchFacts
<1>2. c \in 0..(Len(buf) + 1) /\ Len(buf) \in Nat
  BY <1>1 DEF IsSearch
<1>3. PICK s : s = At(c + 2, 0) /\ s \in Loop /\ s.bodySize = 0
  BY <1>2, AtFacts
<1>4. Within(ExpectHeaders(buf)[s], buf)
  BY <1>3, ScanWithin
<1>5. ParseRequest(ctx, buf).info \in {Incomplete, ExpectHeaders(buf)[s]}
  BY <1>1, <1>3 DEF ParseRequest
<1> QED BY <1>4, <1>5, IncompleteWithin

-----------------------------------------------------------------------------
(* More bytes *)

\* b2 starts with b1.
Starts(b1, b2) == Len(b1) <= Len(b2) /\ \A i \in 1..Len(b1) : b2[i] = b1[i]

\* Equal parts of two sequences, d apart.
SamePart(s, t, m, n, d) == SubSeq(s, m, n) = SubSeq(t, m + d, n + d)

\* Where two sequences agree, d apart, so do their parts.
LEMMA SameParts ==
  ASSUME NEW s, NEW t, NEW m \in Int, NEW n \in Int, NEW d \in Int,
         \A i \in m..n : t[i + d] = s[i]
  PROVE  SamePart(s, t, m, n, d)
<1>0. PICK C : \A i \in m..n : s[i] \in C
  <2>1. \A i \in m..n : s[i] \in {s[j] : j \in m..n}
    OBVIOUS
  <2> QED BY <2>1
<1>1. PICK u : u = SubSeq(s, m, n)
  OBVIOUS
<1>2. PICK v : v = SubSeq(t, m + d, n + d)
  OBVIOUS
<1>3. PICK md \in Int : md = m + d
  OBVIOUS
<1>4. PICK nd \in Int : nd = n + d
  OBVIOUS
<1>5. /\ u \in Seq(C) /\ Len(u) = IF m <= n THEN n - m + 1 ELSE 0
      /\ \A i \in 1..(n - m + 1) : u[i] = s[m + i - 1]
  BY <1>0, <1>1, SubSeqProperties
<1>6. ASSUME NEW i \in md..nd PROVE t[i] \in C
  <2>1. i - d \in m..n /\ (i - d) + d = i
    BY <1>3, <1>4
  <2>2. s[i - d] \in C /\ t[(i - d) + d] = s[i - d]
    BY <1>0, <2>1
  <2> QED BY <2>1, <2>2
<1>7. /\ v \in Seq(C) /\ Len(v) = IF md <= nd THEN nd - md + 1 ELSE 0
      /\ \A i \in 1..(nd - md + 1) : v[i] = t[md + i - 1]
  BY <1>2, <1>3, <1>4, <1>6, SubSeqProperties
<1>8. Len(u) = Len(v)
  BY <1>3, <1>4, <1>5, <1>7
<1>9. ASSUME NEW i \in 1..Len(u) PROVE u[i] = v[i]
  <2>1. i \in 1..(n - m + 1) /\ i \in 1..(nd - md + 1) /\ i \in Int
    BY <1>3, <1>4, <1>5
  <2>2. m + i - 1 \in m..n /\ (m + i - 1) + d = md + i - 1
    BY <1>3, <2>1
  <2>3. t[(m + i - 1) + d] = s[m + i - 1]
    BY <2>2
  <2> QED BY <1>5, <1>7, <2>1, <2>2, <2>3
<1>10. u = v
  BY <1>5, <1>7, <1>8, <1>9, SeqEqual
<1> QED BY <1>1, <1>2, <1>10 DEF SamePart

\* A part of the shorter buffer is the same part of the longer one.
LEMMA SameStart ==
  ASSUME NEW C, NEW b1 \in Seq(C), NEW b2, Starts(b1, b2),
         NEW m \in Nat \ {0}, NEW n \in Int, n <= Len(b1)
  PROVE  SubSeq(b1, m, n) = SubSeq(b2, m, n)
<1>1. PICK z \in Int : z = 0
  OBVIOUS
<1>2. \A i \in m..n : b2[i + z] = b1[i]
  <2>1. \A i \in m..n : i \in 1..Len(b1) /\ i + z = i
    BY <1>1
  <2> QED BY <2>1 DEF Starts
<1>3. SamePart(b1, b2, m, n, z)
  BY <1>2, SameParts
<1>4. m + z = m /\ n + z = n
  BY <1>1
<1> QED BY <1>3, <1>4 DEF SamePart

\* A CRLF found in the shorter buffer is found in the longer one.
LEMMA SearchSame ==
  ASSUME NEW C, NEW b1 \in Seq(C), NEW b2 \in Seq(C), Starts(b1, b2),
         NEW it \in Nat \ {0}, ~(Search(b1, it) > Len(b1))
  PROVE  Search(b2, it) = Search(b1, it)
<1>1. Len(b1) \in Nat /\ Len(b2) \in Nat /\ Len(b1) <= Len(b2)
  BY DEF Starts
<1>2. PICK c : c = Search(b1, it) /\ IsSearch(c, b1, it)
  BY SearchFacts
<1>3. /\ c \in it..(Len(b1) - 1) /\ EndsAt(b1, c)
      /\ \A i \in it..(Len(b1) - 1) : i < c => ~EndsAt(b1, i)
  BY <1>1, <1>2 DEF IsSearch
<1>4. ASSUME NEW i \in it..c PROVE EndsAt(b2, i) <=> EndsAt(b1, i)
  <2>1. i \in 1..Len(b1) /\ i + 1 \in 1..Len(b1)
    BY <1>1, <1>3
  <2> QED BY <2>1 DEF EndsAt, Starts
<1>5. c \in it..(Len(b2) - 1) /\ EndsAt(b2, c)
  BY <1>1, <1>3, <1>4
<1>6. \A i \in it..(c - 1) : ~EndsAt(b2, i)
  BY <1>1, <1>3, <1>4
<1>7. Search(b2, it) = c
  BY <1>5, <1>6, SearchIs
<1> QED BY <1>2, <1>7

\* So is the colon of a line.
LEMMA ColonSame ==
  ASSUME NEW C, NEW b1 \in Seq(C), NEW b2, Starts(b1, b2),
         NEW it \in Nat \ {0}, NEW c \in it..Len(b1)
  PROVE  Colon(b2, it, c) = Colon(b1, it, c)
<1>1. \A i \in it..(c - 1) : b2[i] = b1[i]
  <2>1. \A i \in it..(c - 1) : i \in 1..Len(b1)
    OBVIOUS
  <2> QED BY <2>1 DEF Starts
<1>2. {i \in it..(c - 1) : b2[i] = ":"} = {i \in it..(c - 1) : b1[i] = ":"}
  BY <1>1
<1> QED BY <1>2 DEF Colon

\* A header line leaves the same state in both.
LEMMA AfterSame ==
  ASSUME NEW C, NEW b1 \in Seq(C), NEW b2 \in Seq(C), Starts(b1, b2),
         NEW s \in Loop, s.it # 0, ~(Search(b1, s.it) > Len(b1))
  PROVE  /\ Search(b2, s.it) = Search(b1, s.it) /\ ~(Search(b2, s.it) > Len(b2))
         /\ Stops(b2, s) <=> Stops(b1, s)
         /\ After(b2, s) = After(b1, s)
<1>1. PICK it \in Nat \ {0} : it = s.it
  BY DEF Loop
<1>2. PICK c \in it..(Len(b1) - 1) : c = Search(b1, it)
  BY <1>1, AfterFacts
<1>3. Search(b2, it) = c
  BY <1>1, <1>2, SearchSame
<1>4. c \in it..Len(b1) /\ Len(b1) \in Nat /\ Len(b2) \in Nat /\ Len(b1) <= Len(b2)
      /\ ~(c > Len(b2)) /\ ~(c > Len(b1))
  BY <1>2 DEF Starts
<1>5. PICK k : k = Colon(b1, it, c) /\ k = Colon(b2, it, c)
  BY <1>4, ColonSame
<1>6. k \in it..c
  <2>1. c \in Nat /\ it <= c
    BY <1>2
  <2>2. IsColon(Colon(b1, it, c), b1, it, c)
    BY <2>1, ColonFacts
  <2> QED BY <1>5, <2>2 DEF IsColon
<1>7. k - 1 \in Int /\ k - 1 <= Len(b1) /\ k + 1 \in Nat \ {0}
      /\ c - 1 \in Int /\ c - 1 <= Len(b1)
  BY <1>4, <1>6
<1>8. SubSeq(b1, it, k - 1) = SubSeq(b2, it, k - 1)
  BY <1>7, SameStart
<1>9. SubSeq(b1, k + 1, c - 1) = SubSeq(b2, k + 1, c - 1)
  BY <1>7, SameStart
<1>10. BodySize(b2, s, c) = BodySize(b1, s, c)
  BY <1>1, <1>5, <1>8, <1>9 DEF BodySize
<1> QED BY <1>1, <1>2, <1>3, <1>4, <1>5, <1>10 DEF Stops, After

\* A body that is complete stays complete.
LEMMA BodySame ==
  ASSUME NEW b1, NEW b2, Len(b1) \in Nat, Len(b2) \in Nat, Len(b1) <= Len(b2),
         NEW it \in Nat, NEW n \in Int, ExpectBody(b1, it, n).ok
  PROVE  ExpectBody(b2, it, n) = ExpectBody(b1, it, n)
<1>1. n = 0 \/ Len(b1) - (it - 1) >= n
  BY DEF ExpectBody, Incomplete
<1>2. n = 0 \/ Len(b2) - (it - 1) >= n
  BY <1>1
<1> QED BY <1>1, <1>2 DEF ExpectBody

\* The header loop gives the same answer for both, by induction on what is left.
LEMMA ScanSame ==
  ASSUME NEW C, NEW b1 \in Seq(C), NEW b2 \in Seq(C), Starts(b1, b2),
         NEW s \in Loop, s.it # 0, ExpectHeaders(b1)[s].ok
  PROVE  ExpectHeaders(b2)[s] = ExpectHeaders(b1)[s]
<1> DEFINE S == {x \in Loop : x.it # 0}
           P == {x \in Loop : ExpectHeaders(b1)[x].ok =>
                                 ExpectHeaders(b2)[x] = ExpectHeaders(b1)[x]}
<1>1. Len(b1) \in Nat /\ Len(b2) \in Nat /\ Len(b1) <= Len(b2)
  BY DEF Starts
<1>2. ASSUME NEW x \in S, ~(Search(b1, x.it) > Len(b1)) PROVE After(b1, x) \in S
  <2>1. x \in Loop /\ x.it \in Nat
    BY DEF Loop
  <2>2. After(b1, x) \in Loop /\ After(b1, x).it = Search(b1, x.it) + 2
        /\ Search(b1, x.it) \in x.it..(Len(b1) - 1)
    BY <1>2, <2>1, AfterFacts
  <2>3. After(b1, x).it # 0
    BY <1>1, <2>1, <2>2
  <2> QED BY <2>2, <2>3
<1>3. \A x \in S : ~Stops(b1, x) => After(b1, x) \in S
  BY <1>2 DEF Stops
<1>4. ASSUME NEW x \in S, Stops(b1, x) \/ After(b1, x) \in P PROVE x \in P
  <2>1. x \in Loop /\ x.it # 0 /\ x.it \in Nat /\ x.bodySize \in Int
    BY DEF Loop
  <2>2. CASE Search(b1, x.it) > Len(b1)
    <3>1. ExpectHeaders(b1)[x] = Incomplete
      BY <2>1, <2>2, ScanFacts
    <3> QED BY <2>1, <3>1, IncompleteWithin
  <2>3. CASE ~(Search(b1, x.it) > Len(b1))
    <3>1. /\ Search(b2, x.it) = Search(b1, x.it) /\ ~(Search(b2, x.it) > Len(b2))
          /\ Stops(b2, x) <=> Stops(b1, x)
          /\ After(b2, x) = After(b1, x)
      BY <2>1, <2>3, AfterSame
    <3>2. Search(b1, x.it) \in x.it..(Len(b1) - 1)
      BY <2>1, <2>3, AfterFacts
    <3>3. CASE Stops(b1, x)
      <4>1. PICK it \in Nat : it = Search(b1, x.it) + 2
        BY <1>1, <2>1, <3>2
      <4>2. /\ ExpectHeaders(b1)[x] = ExpectBody(b1, it, x.bodySize)
            /\ ExpectHeaders(b2)[x] = ExpectBody(b2, it, x.bodySize)
        BY <2>1, <2>3, <3>1, <3>3, <4>1, ScanFacts
      <4>3. ExpectBody(b1, it, x.bodySize).ok =>
              ExpectBody(b2, it, x.bodySize) = ExpectBody(b1, it, x.bodySize)
        BY <1>1, <2>1, BodySame
      <4> QED BY <2>1, <4>2, <4>3
    <3>4. CASE ~Stops(b1, x)
      <4>1. /\ ExpectHeaders(b1)[x] = ExpectHeaders(b1)[After(b1, x)]
            /\ ExpectHeaders(b2)[x] = ExpectHeaders(b2)[After(b1, x)]
        BY <2>1, <3>1, <3>4, ScanFacts
      <4> QED BY <1>4, <2>1, <3>4, <4>1
    <3> QED BY <3>3, <3>4
  <2> QED BY <2>2, <2>3
<1>5. S \subseteq P
  <2>1. S \subseteq Loop
    OBVIOUS
  <2> HIDE DEF S, P
  <2> QED BY <1>3, <1>4, <2>1, LoopInduction
<1>6. s \in S
  OBVIOUS
<1> QED BY <1>5, <1>6

\* Once a request is complete, what comes behind it in the buffer changes nothing.
THEOREM ParseIsStable ==
  ASSUME NEW C, NEW b1 \in Seq(C), NEW b2 \in Seq(C), Starts(b1, b2),
         NEW ctx, ParseRequest(ctx, b1).info.ok
  PROVE  ParseRequest(ctx, b2) = ParseRequest(ctx, b1)
<1>1. Len(b1) \in Nat /\ Len(b2) \in Nat /\ Len(b1) <= Len(b2)
  BY DEF Starts
<1>2. PICK one \in Nat \ {0} : one = 1
  OBVIOUS
<1>3. ~(Search(b1, 1) > Len(b1))
  <2>1. Search(b1, 1) > Len(b1) => ParseRequest(ctx, b1).info = Incomplete
    BY DEF ParseRequest
  <2> QED BY <2>1, IncompleteWithin
<1>4. PICK c : c = Search(b1, 1) /\ IsSearch(c, b1, 1)
  BY SearchFacts
<1>5. c \in 1..(Len(b1) - 1)
  BY <1>1, <1>3, <1>4 DEF IsSearch
<1>6. Search(b2, 1) = c
  BY <1>2, <1>3, <1>4, SearchSame
<1>7. PICK line : line = SubSeq(b1, 1, c - 1) /\ line = SubSeq(b2, 1, c - 1)
  <2>1. c - 1 \in Int /\ c - 1 <= Len(b1)
    BY <1>1, <1>5
  <2>2. SubSeq(b1, one, c - 1) = SubSeq(b2, one, c - 1)
    BY <2>1, SameStart
  <2> QED BY <1>2, <2>2
<1>8. PICK s : s = At(c + 2, 0) /\ s \in Loop /\ s.it # 0
  <2>1. c + 2 \in Nat /\ c + 2 # 0 /\ 0 \in Int
    BY <1>1, <1>5
  <2> QED BY <2>1, AtFacts
<1>9. PICK r : r = PraseRequestLine(ctx, line)
  OBVIOUS
<1>10. ~(c > Len(b1)) /\ ~(c > Len(b2))
  BY <1>1, <1>5
<1>11. ParseRequest(ctx, b1) =
         [info |-> IF r.ok THEN ExpectHeaders(b1)[s] ELSE Incomplete, context |-> r.context]
  BY <1>4, <1>7, <1>8, <1>9, <1>10 DEF ParseRequest
<1>12. ParseRequest(ctx, b2) =
         [info |-> IF r.ok THEN ExpectHeaders(b2)[s] ELSE Incomplete, context |-> r.context]
  BY <1>6, <1>7, <1>8, <1>9, <1>10 DEF ParseRequest
<1>13. r.ok /\ ExpectHeaders(b1)[s].ok
  BY <1>11, IncompleteWithin
<1>14. ExpectHeaders(b2)[s] = ExpectHeaders(b1)[s]
  BY <1>8, <1>13, ScanSame
<1> QED BY <1>11, <1>12, <1>14

-----------------------------------------------------------------------------
(* Requests as bytes *)

Chars == STRING \cup {CR, LF, " ", "HTTP/1.1"}

\* One and two tokens as sequences.
LEMMA TupleFacts ==
  ASSUME NEW C, NEW a \in C, NEW b \in C
  PROVE  /\ <<a>> \in Seq(C) /\ Len(<<a>>) = 1 /\ <<a>>[1] = a
         /\ <<a, b>> \in Seq(C) /\ Len(<<a, b>>) = 2 /\ <<a, b>>[1] = a /\ <<a, b>>[2] = b
OBVIOUS

\* All tokens the parser meets are strings.
LEMMA CharFacts ==
  /\ \A s \in Seq(STRING) : s \in Seq(Chars)
  /\ <<" ">> \in Seq(Chars) /\ <<" ", "HTTP/1.1">> \in Seq(Chars) /\ Crlf \in Seq(Chars)
<1>1. STRING \subseteq Chars /\ " " \in Chars /\ "HTTP/1.1" \in Chars /\ CR \in Chars
      /\ LF \in Chars
  BY DEF Chars
<1>2. \A s \in Seq(STRING) : s \in Seq(Chars)
  BY <1>1, SeqMonotonic
<1>3. <<" ">> \in Seq(Chars) /\ <<" ", "HTTP/1.1">> \in Seq(Chars) /\ <<CR, LF>> \in Seq(Chars)
  <2>1. PICK blank \in Chars : blank = " "
    BY <1>1
  <2>2. PICK version \in Chars : version = "HTTP/1.1"
    BY <1>1
  <2>3. <<blank>> \in Seq(Chars) /\ <<blank, version>> \in Seq(Chars)
    BY TupleFacts
  <2>4. <<CR, LF>> \in Seq(Chars)
    BY <1>1, TupleFacts
  <2> QED BY <2>1, <2>2, <2>3, <2>4
<1> QED BY <1>2, <1>3 DEF Crlf

\* The headers of a request, each with its CRLF.
Lines(m) == [i \in DOMAIN m.headers |-> m.headers[i] \o Crlf]

\* The headers with their CRLF are as many sequences of tokens.
LEMMA LinesType ==
  ASSUME NEW m \in Requests
  PROVE  Len(m.headers) \in Nat /\ Lines(m) \in [1..Len(m.headers) -> Seq(Chars)]
<1>1. m.headers \in Seq(Seq(STRING))
  BY ParserAssumption
<1>2. Len(m.headers) \in Nat /\ DOMAIN m.headers = 1..Len(m.headers)
  BY <1>1, LenProperties
<1>3. ASSUME NEW i \in 1..Len(m.headers) PROVE m.headers[i] \o Crlf \in Seq(Chars)
  <2>1. m.headers[i] \in Seq(STRING)
    BY <1>1, <1>2
  <2>2. m.headers[i] \in Seq(Chars) /\ Crlf \in Seq(Chars)
    BY <2>1, CharFacts
  <2> QED BY <2>2, ConcatProperties
<1> QED BY <1>2, <1>3 DEF Lines

\* A request is a sequence of tokens, and not an empty one.
LEMMA RenderType ==
  ASSUME NEW m \in Requests
  PROVE  Render(m) \in Seq(Chars) /\ Len(Render(m)) \in Nat /\ Len(Render(m)) > 0
<1>1. m.method \in Seq(STRING) /\ m.target \in Seq(STRING) /\ m.body \in Seq(STRING)
  BY ParserAssumption
<1>2. m.method \in Seq(Chars) /\ m.target \in Seq(Chars) /\ m.body \in Seq(Chars)
  BY <1>1, CharFacts
<1>3. FlattenSeq(Lines(m)) \in Seq(Chars)
  BY LinesType, FlatAll
<1>4. PICK a \in Seq(Chars) : a = m.method \o <<" ">> \o m.target \o <<" ", "HTTP/1.1">> \o Crlf
  BY <1>2, CharFacts, ConcatProperties
<1>5. PICK b \in Seq(Chars) : b = a \o FlattenSeq(Lines(m))
  BY <1>3, <1>4, ConcatProperties
<1>6. PICK c \in Seq(Chars) : c = b \o Crlf
  BY <1>5, CharFacts, ConcatProperties
<1>7. Render(m) = c \o m.body
  BY <1>4, <1>5, <1>6 DEF Render, Lines
<1>8. Len(c) = Len(b) + Len(Crlf) /\ Len(Crlf) = 2 /\ Len(b) \in Nat
  <2>1. PICK e \in Seq(Chars) : e = Crlf
    BY CharFacts
  <2>2. Len(c) = Len(b) + Len(e) /\ Len(b) \in Nat
    BY <1>6, <2>1, ConcatProperties
  <2>3. Len(Crlf) = 2
    BY TupleFacts DEF Crlf
  <2> QED BY <2>1, <2>2, <2>3
<1>9. Render(m) \in Seq(Chars) /\ Len(Render(m)) = Len(c) + Len(m.body) /\ Len(m.body) \in Nat
  BY <1>2, <1>7, ConcatProperties
<1>10. Len(Render(m)) = Len(b) + 2 + Len(m.body)
  BY <1>8, <1>9
<1>11. PICK x \in Nat : x = Len(b)
  BY <1>8
<1>12. PICK y \in Nat : y = Len(m.body)
  BY <1>9
<1>13. PICK r : r = Len(Render(m)) /\ r = x + 2 + y
  BY <1>10, <1>11, <1>12
<1>14. r \in Nat /\ r > 0
  BY <1>13
<1> QED BY <1>9, <1>13, <1>14

-----------------------------------------------------------------------------
(* The loop of solveOnMessage *)

\* What the client sends.
Rendered == [k \in 1..Len(sent) |-> Render(sent[k])]
Wire ==
  /\ wire \in Seq(Chars)
  /\ sent # <<>> => /\ Len(sent) \in Nat \ {0}
                    /\ sent \in [1..Len(sent) -> Requests]
                    /\ wire = FlattenSeq(Rendered)

\* So are several one behind the other.
LEMMA RenderedType ==
  ASSUME Wire, sent # <<>>
  PROVE  Rendered \in [1..Len(sent) -> Seq(Chars)]
<1>1. \A k \in 1..Len(sent) : sent[k] \in Requests
  BY DEF Wire
<1> QED BY <1>1, RenderType DEF Rendered

Positions ==
  /\ from \in Nat /\ to \in Nat /\ rd \in Nat /\ at \in Nat
  /\ from <= to /\ to <= at /\ rd <= at /\ at <= Len(wire)
  /\ \A task \in tasks :
       /\ task[1] \in Nat /\ task[2] \in Nat /\ task[1] <= task[2] /\ task[2] <= at

\* What Bytes cuts from the wire has the length its positions say.
LEMMA BytesFacts ==
  ASSUME wire \in Seq(Chars), NEW i \in Nat, NEW j \in Nat, i <= j, j <= Len(wire)
  PROVE  /\ Bytes(i, j) \in Seq(Chars) /\ Len(Bytes(i, j)) = j - i
         /\ \A k \in 1..(j - i) : Bytes(i, j)[k] = wire[i + k]
<1>1. i + 1 \in Int /\ j \in Int /\ Len(wire) \in Nat
  OBVIOUS
<1>2. \A k \in (i + 1)..j : wire[k] \in Chars
  <2>1. \A k \in (i + 1)..j : k \in 1..Len(wire)
    BY <1>1
  <2> QED BY <2>1
<1>3. PICK b : b = Bytes(i, j) /\ b = SubSeq(wire, i + 1, j)
  BY DEF Bytes
<1>4. /\ b \in Seq(Chars) /\ Len(b) = IF i + 1 <= j THEN j - (i + 1) + 1 ELSE 0
      /\ \A k \in 1..(j - (i + 1) + 1) : b[k] = wire[i + 1 + k - 1]
  BY <1>1, <1>2, <1>3, SubSeqProperties
<1>5. Len(b) = j - i
  BY <1>4
<1>6. ASSUME NEW k \in 1..(j - i) PROVE b[k] = wire[i + k]
  <2>1. k \in 1..(j - (i + 1) + 1) /\ i + 1 + k - 1 = i + k
    OBVIOUS
  <2> QED BY <1>4, <2>1
<1> QED BY <1>3, <1>4, <1>5, <1>6

LengthInv == Wire /\ Positions /\ LengthWithinBuffer

\* The positions and the last verdict are in order at the start ...
LEMMA InitLength == Init => LengthInv
<1> SUFFICES ASSUME Init PROVE LengthInv
  OBVIOUS
<1>1. wire \in Seq(Chars) /\ (sent # <<>> => /\ Len(sent) \in Nat \ {0}
                                            /\ sent \in [1..Len(sent) -> Requests]
                                            /\ wire = FlattenSeq(Rendered))
  <2>1. CASE sent = <<>> /\ wire \in Noise
    <3>1. wire \in Seq(STRING)
      BY <2>1, ParserAssumption
    <3> QED BY <2>1, <3>1, CharFacts
  <2>2. ASSUME NEW n \in 1..MaxRequests, sent \in [1..n -> Requests],
               wire = FlattenSeq([i \in 1..n |-> Render(sent[i])])
        PROVE  /\ wire \in Seq(Chars) /\ Len(sent) \in Nat \ {0}
               /\ sent \in [1..Len(sent) -> Requests] /\ wire = FlattenSeq(Rendered)
    <3>1. n \in Nat \ {0}
      BY ParserAssumption
    <3>2. Len(sent) = n
      BY <2>2, <3>1, FunctionIsSeq
    <3>3. Rendered = [i \in 1..n |-> Render(sent[i])]
      BY <3>2 DEF Rendered
    <3>4. Rendered \in [1..n -> Seq(Chars)]
      BY <2>2, <3>3, RenderType
    <3>5. FlattenSeq(Rendered) \in Seq(Chars)
      BY <3>1, <3>4, FlatAll
    <3> QED BY <2>2, <3>1, <3>2, <3>3, <3>5
  <2> QED BY <2>1, <2>2 DEF Init
<1>2. Positions
  <2>1. Len(wire) \in Nat
    BY <1>1
  <2> QED BY <2>1 DEF Init, Positions
<1>3. LengthWithinBuffer
  BY DEF Init, LengthWithinBuffer
<1> QED BY <1>1, <1>2, <1>3 DEF LengthInv, Wire

\* ... and after every step of solveOnMessage and of the network.
LEMMA NextLength == LengthInv /\ [Next]_vars => LengthInv'
<1> SUFFICES ASSUME LengthInv, [Next]_vars PROVE LengthInv'
  OBVIOUS
<1>0. Wire /\ Positions /\ LengthWithinBuffer
  BY DEF LengthInv
<1>1. wire' = wire /\ sent' = sent
  BY DEF Next, Arrive, Disconnect, SolveOnMessage, LoopTest, LookAgain, TakeRequest, vars, input
<1>2. Wire'
  BY <1>0, <1>1 DEF Wire, Rendered
<1>3. wire \in Seq(Chars) /\ Len(wire) \in Nat
  BY <1>0 DEF Wire
<1>4. ASSUME NEW n \in 1..Len(wire), Arrive(n) PROVE Positions' /\ LengthWithinBuffer'
  <2>1. /\ at' = at + n /\ at + n <= Len(wire) /\ UNCHANGED <<rd, from, to, pc, info>>
        /\ tasks' \subseteq tasks \cup {<<rd, at + n>>}
    BY <1>4 DEF Arrive
  <2>2. \A task \in tasks' : task \in tasks \/ task = <<rd, at + n>>
    BY <2>1
  <2>3. at' \in Nat /\ at <= at' /\ at' <= Len(wire)
    BY <1>0, <1>3, <2>1 DEF Positions
  <2>4. ASSUME NEW task \in tasks'
        PROVE  task[1] \in Nat /\ task[2] \in Nat /\ task[1] <= task[2] /\ task[2] <= at'
    <3>1. CASE task \in tasks
      BY <1>0, <2>3, <3>1 DEF Positions
    <3>2. CASE task = <<rd, at + n>>
      BY <1>0, <2>1, <2>3, <3>2 DEF Positions
    <3> QED BY <2>2, <3>1, <3>2
  <2> QED BY <1>0, <1>1, <2>1, <2>3, <2>4 DEF Positions, LengthWithinBuffer
<1>5. ASSUME NEW task \in tasks, SolveOnMessage(task) PROVE Positions' /\ LengthWithinBuffer'
  <2>1. /\ tasks' \subseteq tasks /\ from' = task[1] /\ to' = task[2] /\ pc' = "test"
        /\ UNCHANGED <<rd, at>>
    BY <1>5 DEF SolveOnMessage
  <2> QED BY <1>0, <1>1, <2>1 DEF Positions, LengthWithinBuffer
<1>6. ASSUME LoopTest PROVE Positions' /\ LengthWithinBuffer'
  <2>1. Positions'
    BY <1>0, <1>1, <1>6 DEF LoopTest, Positions
  <2>2. Bytes(from, to) \in Seq(Chars) /\ Len(Bytes(from, to)) = to - from
    <3>1. from \in Nat /\ to \in Nat /\ from <= to /\ to <= Len(wire)
      BY <1>0, <1>3 DEF Positions
    <3> QED BY <1>3, <3>1, BytesFacts
  <2>3. PICK p : p = ParseRequest(context, Bytes(from, to))
    OBVIOUS
  <2>4. Within(p.info, Bytes(from, to))
    BY <2>2, <2>3, ParseWithinBuffer
  <2>5. pc' = "body" => info'.ok /\ info' = p.info
    BY <1>6, <2>3 DEF LoopTest
  <2>6. from' = from /\ to' = to
    BY <1>6, <2>3 DEF LoopTest
  <2>7. pc' = "body" => info'.length \in 1..(to' - from')
    BY <2>2, <2>4, <2>5, <2>6 DEF Within
  <2> QED BY <2>1, <2>7 DEF LengthWithinBuffer
<1>7. ASSUME TakeRequest PROVE Positions' /\ LengthWithinBuffer'
  <2>1. info.length \in 1..(to - from) /\ UNCHANGED <<to, at, tasks>> /\ pc' # "body"
    BY <1>0, <1>7 DEF TakeRequest, LengthWithinBuffer
  <2>2. CASE info.length <= at - rd
    <3>1. from' = from + info.length /\ rd' = rd + info.length
      BY <1>7, <2>2 DEF TakeRequest
    <3> QED BY <1>0, <1>1, <2>1, <2>2, <3>1 DEF Positions, LengthWithinBuffer
  <2>3. CASE ~(info.length <= at - rd)
    <3>1. from' = from /\ rd' = rd
      BY <1>7, <2>3 DEF TakeRequest
    <3> QED BY <1>0, <1>1, <2>1, <3>1 DEF Positions, LengthWithinBuffer
  <2> QED BY <2>2, <2>3
<1>8. ASSUME Disconnect \/ LookAgain \/ UNCHANGED vars PROVE Positions' /\ LengthWithinBuffer'
  <2>1. UNCHANGED <<rd, at, tasks, from, to, info>> /\ (pc' = "body" => pc = "body")
    BY <1>8 DEF Disconnect, LookAgain, vars
  <2> QED BY <1>0, <1>1, <2>1 DEF Positions, LengthWithinBuffer
<1> QED BY <1>2, <1>4, <1>5, <1>6, <1>7, <1>8 DEF Next, LengthInv

\* They are always in order.
LEMMA AlwaysLength == Spec => []LengthInv
BY InitLength, NextLength, PTL DEF Spec

\* Whatever is sent and however it is cut, parseRequest announces only bytes that are in
\* its copy: buff.erase stays within it.
THEOREM LengthSafe == Spec => []LengthWithinBuffer
<1>1. LengthInv => LengthWithinBuffer
  BY DEF LengthInv
<1> QED BY <1>1, AlwaysLength, PTL

\* After a read, the buffer starts with what it was before.
LEMMA MoreBytes ==
  ASSUME wire \in Seq(Chars), NEW i \in Nat, NEW j \in Nat, NEW k \in Nat,
         i <= j, j <= k, k <= Len(wire)
  PROVE  Starts(Bytes(i, j), Bytes(i, k))
<1>1. j <= Len(wire) /\ i <= k /\ Len(wire) \in Nat
  OBVIOUS
<1>2. /\ Len(Bytes(i, j)) = j - i
      /\ \A x \in 1..(j - i) : Bytes(i, j)[x] = wire[i + x]
  BY <1>1, BytesFacts
<1>3. /\ Len(Bytes(i, k)) = k - i
      /\ \A x \in 1..(k - i) : Bytes(i, k)[x] = wire[i + x]
  BY <1>1, BytesFacts
<1>4. \A x \in 1..(j - i) : x \in 1..(k - i)
  OBVIOUS
<1> QED BY <1>2, <1>3, <1>4 DEF Starts

\* Bytes that arrive behind a complete request change neither verdict nor length.
THEOREM StableVerdict == Spec => VerdictIsStable
<1> DEFINE A == LET parse(k) == ParseRequest(Fresh, Bytes(rd, k))
                IN at' > at /\ parse(at).info.ok => parse(at') = parse(at)
<1>1. LengthInv /\ [Next]_vars => [A]_vars
  <2> SUFFICES ASSUME LengthInv, [Next]_vars, at' > at,
                      ParseRequest(Fresh, Bytes(rd, at)).info.ok
               PROVE  ParseRequest(Fresh, Bytes(rd, at')) = ParseRequest(Fresh, Bytes(rd, at))
    OBVIOUS
  <2>1. wire \in Seq(Chars) /\ Len(wire) \in Nat /\ rd \in Nat /\ at \in Nat /\ rd <= at
        /\ at <= Len(wire)
    BY DEF LengthInv, Wire, Positions
  <2>2. PICK n \in 1..Len(wire) : Arrive(n)
    BY <2>1 DEF Next, Disconnect, SolveOnMessage, LoopTest, LookAgain, TakeRequest, vars
  <2>3. PICK k \in Nat : k = at' /\ at <= k /\ k <= Len(wire) /\ rd <= k
    BY <2>1, <2>2 DEF Arrive
  <2>4. Bytes(rd, at) \in Seq(Chars) /\ Bytes(rd, k) \in Seq(Chars)
    BY <2>1, <2>3, BytesFacts
  <2>5. Starts(Bytes(rd, at), Bytes(rd, k))
    BY <2>1, <2>3, MoreBytes
  <2>6. ParseRequest(Fresh, Bytes(rd, k)) = ParseRequest(Fresh, Bytes(rd, at))
    BY <2>4, <2>5, ParseIsStable
  <2> QED BY <2>3, <2>6
<1>2. VerdictIsStable <=> [][A]_vars
  BY DEF VerdictIsStable
<1> HIDE DEF A
<1> QED BY <1>1, <1>2, AlwaysLength, PTL DEF Spec

-----------------------------------------------------------------------------
(* Where the requests are on the wire *)

IsAt(m, e) == \A j \in 1..Len(Render(m)) : wire[e + j] = Render(m)[j]

\* Request i ends where the first i requests, put together, end.
LEMMA EndFlat ==
  ASSUME Wire, sent # <<>>, NEW i \in 0..Len(sent)
  PROVE  /\ EndOf(i) = Len(Flat(Rendered, i)) /\ EndOf(i) \in Nat
         /\ wire = Flat(Rendered, Len(sent))
<1>1. PICK n \in Nat \ {0} : n = Len(sent)
  BY DEF Wire
<1>2. PICK g \in [1..n -> Seq(Chars)] : g = Rendered
  BY <1>1, RenderedType
<1>3. \A k \in 1..i : k \in 1..n /\ g[k] = Render(sent[k])
  <2>1. \A k \in 1..i : k \in 1..n
    BY <1>1
  <2> QED BY <1>1, <1>2, <2>1 DEF Rendered
<1>4. [k \in 1..i |-> Render(sent[k])] = [k \in 1..i |-> g[k]]
  BY <1>3
<1>5. EndOf(i) = Len(Flat(g, i))
  BY <1>4 DEF EndOf, Flat
<1>6. Flat(g, i) \in Seq(Chars)
  BY <1>1, FlatFacts
<1>7. wire = FlattenSeq(g)
  BY <1>2 DEF Wire
<1>8. FlattenSeq(g) = Flat(g, n)
  BY FlatAll
<1> QED BY <1>1, <1>2, <1>5, <1>6, <1>7, <1>8

\* The ends are numbers, each behind the one before by the length of a request.
LEMMA EndFacts ==
  ASSUME Wire, sent # <<>>, NEW i \in 0..Len(sent)
  PROVE  /\ EndOf(i) \in Nat /\ EndOf(i) <= Len(wire)
         /\ EndOf(0) = 0 /\ EndOf(Len(sent)) = Len(wire)
         /\ i < Len(sent) => /\ sent[i + 1] \in Requests
                             /\ EndOf(i + 1) = EndOf(i) + Len(Render(sent[i + 1]))
                             /\ IsAt(sent[i + 1], EndOf(i))
<1>1. PICK n \in Nat \ {0} : n = Len(sent)
  BY DEF Wire
<1>2. PICK g \in [1..n -> Seq(Chars)] : g = Rendered
  BY <1>1, RenderedType
<1>3. \A k \in 0..n : EndOf(k) = Len(Flat(g, k)) /\ EndOf(k) \in Nat
  BY <1>1, <1>2, EndFlat
<1>4. wire = Flat(g, n)
  BY <1>1, <1>2, EndFlat
<1>5. EndOf(0) = 0
  <2>1. Len(Flat(g, 0)) = 0
    BY FlatEmpty
  <2>2. 0 \in 0..n
    OBVIOUS
  <2> QED BY <1>3, <2>1, <2>2
<1>6. EndOf(n) = Len(wire)
  <2>1. n \in 0..n
    OBVIOUS
  <2> QED BY <1>3, <1>4, <2>1
<1>7. EndOf(i) <= Len(wire)
  BY <1>1, <1>3, <1>4, FlatStarts
<1>8. ASSUME i < n
      PROVE  /\ sent[i + 1] \in Requests
             /\ EndOf(i + 1) = EndOf(i) + Len(Render(sent[i + 1]))
             /\ IsAt(sent[i + 1], EndOf(i))
  <2>1. i \in 0..n /\ i + 1 \in 0..n /\ i + 1 \in 1..n
    BY <1>1, <1>8
  <2>2. sent[i + 1] \in Requests
    BY <1>1, <2>1 DEF Wire
  <2>3. g[i + 1] = Render(sent[i + 1])
    BY <1>1, <1>2, <2>1 DEF Rendered
  <2>4. PICK r : r = g[i + 1] /\ r = Render(sent[i + 1])
    BY <2>3
  <2>5. IsJoined(Flat(g, i + 1), Flat(g, i), g[i + 1])
    BY <1>8, <2>1, FlatFacts
  <2>6. PICK e \in Nat : e = EndOf(i) /\ e = Len(Flat(g, i))
    BY <1>3, <2>1
  <2>7. PICK t : t = Flat(g, i + 1) /\ Len(t) = e + Len(r) /\ \A j \in 1..Len(r) : t[e + j] = r[j]
    BY <2>4, <2>5, <2>6 DEF IsJoined
  <2>8. EndOf(i + 1) = Len(t)
    BY <1>3, <2>1, <2>7
  <2>9. \A j \in 1..Len(t) : wire[j] = t[j]
    BY <1>4, <2>1, <2>7, FlatStarts
  <2>10. r \in Seq(Chars) /\ Len(r) \in Nat
    BY <2>2, <2>4, RenderType
  <2>11. \A j \in 1..Len(r) : wire[e + j] = r[j]
    <3>1. \A j \in 1..Len(r) : e + j \in 1..Len(t)
      BY <2>7, <2>10
    <3> QED BY <2>7, <2>9, <3>1
  <2> QED BY <2>2, <2>4, <2>6, <2>7, <2>8, <2>11 DEF IsAt
<1> QED BY <1>1, <1>3, <1>5, <1>6, <1>7, <1>8

-----------------------------------------------------------------------------
(* Whole requests *)

\* What the parser should say of a request that is all there is in the buffer.
Recognised(m) ==
  ParseRequest(Fresh, Render(m)) =
    [info |-> [ok |-> TRUE, length |-> Len(Render(m))],
     context |-> [method |-> m.method, url |-> m.target]]

\* The loop is at request i + 1.
Splits(i) ==
  /\ from = EndOf(i)
  /\ pc = "test" /\ looks = 0 => context = Fresh
  /\ pc = "body" =>
       /\ i < Len(sent) /\ from + info.length = EndOf(i + 1)
       /\ looks # 0
       /\ looks = 1 => context = [method |-> sent[i + 1].method, url |-> sent[i + 1].target]
  /\ pc = "idle" /\ connected /\ i < Len(sent) => to < EndOf(i + 1)

\* A context has a method and a url, and nothing else.
IsContext(c) == c = [method |-> c.method, url |-> c.url]

\* So parseRequest leaves one ...
LEMMA ParseContext ==
  ASSUME NEW buf, NEW c, IsContext(c)
  PROVE  IsContext(ParseRequest(c, buf).context)
<1>1. \A line : IsContext(PraseRequestLine(c, line).context)
  <2> SUFFICES ASSUME NEW line PROVE IsContext(PraseRequestLine(c, line).context)
    OBVIOUS
  <2>1. \E x, y : PraseRequestLine(c, line).context = [method |-> x, url |-> y]
    BY DEF PraseRequestLine
  <2> QED BY <2>1 DEF IsContext
<1>2. \/ ParseRequest(c, buf).context = c
      \/ \E line : ParseRequest(c, buf).context = PraseRequestLine(c, line).context
  <2>1. PICK line : line = SubSeq(buf, 1, Search(buf, 1) - 1)
    OBVIOUS
  <2>2. ParseRequest(c, buf).context =
          IF Search(buf, 1) > Len(buf) THEN c ELSE PraseRequestLine(c, line).context
    BY <2>1 DEF ParseRequest
  <2> QED BY <2>2
<1> QED BY <1>1, <1>2

\* ... and a reset clears all of it.
LEMMA ResetIsFresh ==
  ASSUME NEW c, IsContext(c)
  PROVE  Reset(c) = Fresh
<1>1. c \in [method : {c.method}, url : {c.url}]
  BY DEF IsContext
<1>2. Reset(c) \in [method : {c.method, <<>>}, url : {c.url, <<>>}]
  BY <1>1 DEF Reset
<1>3. Reset(c).method = <<>> /\ Reset(c).url = <<>>
  BY <1>1 DEF Reset
<1> QED BY <1>2, <1>3 DEF Fresh

\* A request starts here, or the wire ends.
Boundary(p) == \E i \in 0..Len(sent) : p = EndOf(i)

\* So does the buffer, and so do the copies that wait.
SplitInv ==
  /\ LengthInv /\ looks \in Nat /\ IsContext(context)
  /\ sent # <<>> /\ ~stale =>
       /\ \E i \in 0..Len(sent) : Splits(i)
       /\ Boundary(rd) /\ \A task \in tasks : Boundary(task[1])

\* The loop starts at a request ...
LEMMA InitSplit == Init => SplitInv
<1> SUFFICES ASSUME Init PROVE SplitInv
  OBVIOUS
<1>1. LengthInv /\ Wire /\ looks \in Nat /\ IsContext(context)
  BY InitLength DEF LengthInv, Init, Fresh, IsContext
<1>2. ASSUME sent # <<>>
      PROVE  (\E i \in 0..Len(sent) : Splits(i)) /\ Boundary(rd) /\ \A task \in tasks : Boundary(task[1])
  <2>1. Len(sent) \in Nat /\ Len(sent) # 0 /\ 0 \in 0..Len(sent) /\ 0 < Len(sent)
    BY <1>1, <1>2 DEF Wire
  <2>2. PICK z : z = 0 /\ z \in 0..Len(sent) /\ z < Len(sent) /\ z + 1 = 1
    BY <2>1
  <2>3. /\ EndOf(0) = 0 /\ sent[z + 1] \in Requests
        /\ EndOf(z + 1) = EndOf(z) + Len(Render(sent[z + 1]))
    BY <1>1, <1>2, <2>2, EndFacts
  <2>4. Len(Render(sent[z + 1])) \in Nat /\ Len(Render(sent[z + 1])) > 0
    BY <2>3, RenderType
  <2>5. EndOf(z) = 0 /\ 0 < EndOf(z + 1)
    BY <2>2, <2>3, <2>4
  <2>6. Splits(z)
    BY <2>5 DEF Init, Splits
  <2>7. Boundary(rd) /\ tasks = {}
    BY <2>2, <2>5 DEF Init, Boundary
  <2> QED BY <2>2, <2>6, <2>7
<1> QED BY <1>1, <1>2 DEF SplitInv

\* What the context has already does not matter to the verdict.
LEMMA ParseInfo ==
  ASSUME NEW buf, NEW c1, NEW c2
  PROVE  ParseRequest(c1, buf).info = ParseRequest(c2, buf).info
<1>1. \A line : PraseRequestLine(c1, line).ok = PraseRequestLine(c2, line).ok
  BY DEF PraseRequestLine
<1>2. PICK crlf : crlf = Search(buf, 1)
  OBVIOUS
<1>3. PICK line : line = SubSeq(buf, 1, crlf - 1)
  OBVIOUS
<1>4. PICK headers : headers = ExpectHeaders(buf)[At(crlf + 2, 0)]
  OBVIOUS
<1>5. ParseRequest(c1, buf).info =
        IF crlf > Len(buf) THEN Incomplete
        ELSE IF PraseRequestLine(c1, line).ok THEN headers ELSE Incomplete
  BY <1>2, <1>3, <1>4 DEF ParseRequest
<1>6. ParseRequest(c2, buf).info =
        IF crlf > Len(buf) THEN Incomplete
        ELSE IF PraseRequestLine(c2, line).ok THEN headers ELSE Incomplete
  BY <1>2, <1>3, <1>4 DEF ParseRequest
<1> QED BY <1>1, <1>5, <1>6

\* The parser at request i + 1, with any part of the wire behind it in the buffer.
LEMMA ParseAtRequest ==
  ASSUME \A m \in Requests : Recognised(m), LengthInv, sent # <<>>,
         NEW i \in 0..Len(sent), from = EndOf(i)
  PROVE  LET p == ParseRequest(Fresh, Bytes(from, to))
         IN IF i < Len(sent) /\ EndOf(i + 1) <= to
            THEN /\ p.info.ok /\ from + p.info.length = EndOf(i + 1)
                 /\ p.context = [method |-> sent[i + 1].method, url |-> sent[i + 1].target]
            ELSE ~p.info.ok
<1>1. Wire /\ Positions
  BY DEF LengthInv
<1>2. PICK b : b = Bytes(from, to)
  OBVIOUS
<1>3. PICK p : p = ParseRequest(Fresh, b)
  OBVIOUS
<1>4. wire \in Seq(Chars) /\ Len(wire) \in Nat /\ from \in Nat /\ to \in Nat /\ from <= to
      /\ to <= Len(wire)
  BY <1>1 DEF Wire, Positions
<1>5. b \in Seq(Chars) /\ Len(b) = to - from /\ \A k \in 1..(to - from) : b[k] = wire[from + k]
  BY <1>2, <1>4, BytesFacts
<1>6. Within(p.info, b)
  BY <1>3, <1>5, ParseWithinBuffer
<1>7. p.info.ok => p.info.length \in 1..(to - from)
  BY <1>5, <1>6 DEF Within
<1>8. Len(sent) \in Nat /\ i \in Nat /\ i <= Len(sent)
  BY <1>1 DEF Wire
<1>9. CASE ~(i < Len(sent))
  <2>1. i = Len(sent)
    BY <1>8, <1>9
  <2>2. from = Len(wire)
    BY <1>1, <2>1, EndFacts
  <2>3. ~p.info.ok
    BY <1>4, <1>7, <2>2
  <2> QED BY <1>2, <1>3, <1>9, <2>3
<1>10. CASE i < Len(sent)
  <2>1. PICK m \in Requests : m = sent[i + 1]
    BY <1>1, <1>10, EndFacts
  <2>2. PICK r \in Seq(Chars) : r = Render(m) /\ Len(r) \in Nat
    BY <2>1, RenderType
  <2>3. EndOf(i + 1) = from + Len(r) /\ \A j \in 1..Len(r) : wire[from + j] = r[j]
    BY <1>1, <1>10, <2>1, <2>2, EndFacts DEF IsAt
  <2>4. ParseRequest(Fresh, r) = [info |-> [ok |-> TRUE, length |-> Len(r)],
                                  context |-> [method |-> m.method, url |-> m.target]]
    BY <2>2 DEF Recognised
  <2>5. PICK q : q = ParseRequest(Fresh, r)
    OBVIOUS
  <2>6. q.info.ok /\ q.info.length = Len(r) /\ q.context = [method |-> m.method, url |-> m.target]
    BY <2>4, <2>5
  <2>7. CASE EndOf(i + 1) <= to
    <3>1. Starts(r, b)
      <4>1. Len(r) <= to - from
        BY <1>4, <2>2, <2>3, <2>7
      <4>2. \A j \in 1..Len(r) : j \in 1..(to - from)
        BY <1>4, <2>2, <4>1
      <4> QED BY <1>5, <2>3, <4>1, <4>2 DEF Starts
    <3>2. p = q
      BY <1>3, <1>5, <2>5, <2>6, <3>1, ParseIsStable
    <3> QED BY <1>2, <1>3, <1>10, <2>1, <2>3, <2>6, <2>7, <3>2
  <2>8. CASE ~(EndOf(i + 1) <= to)
    <3>1. to - from < Len(r)
      BY <1>4, <2>2, <2>3, <2>8
    <3>2. Starts(b, r)
      <4>1. \A j \in 1..Len(b) : j \in 1..Len(r) /\ j \in 1..(to - from)
        BY <1>4, <1>5, <2>2, <3>1
      <4>2. Len(b) <= Len(r)
        BY <1>4, <1>5, <2>2, <3>1
      <4> QED BY <1>5, <2>3, <4>1, <4>2 DEF Starts
    <3>3. p.info.ok => q = p
      BY <1>3, <1>5, <2>5, <3>2, ParseIsStable
    <3>4. p.info.ok => Len(r) \in 1..(to - from)
      BY <1>7, <2>6, <3>3
    <3>5. ~p.info.ok
      BY <1>4, <2>2, <3>1, <3>4
    <3> QED BY <1>2, <1>3, <2>8, <3>5
  <2> QED BY <2>7, <2>8
<1> QED BY <1>9, <1>10

\* ... and every step leaves it at one.
LEMMA NextSplit ==
  ASSUME \A m \in Requests : Recognised(m), SplitInv, [Next]_vars
  PROVE  SplitInv'
<1>1. LengthInv /\ LengthInv' /\ looks \in Nat /\ IsContext(context)
  BY NextLength DEF SplitInv
<1>2. wire' = wire /\ sent' = sent
  BY DEF Next, Arrive, Disconnect, SolveOnMessage, LoopTest, LookAgain, TakeRequest, vars, input
<1>3. looks' \in Nat
  <2>1. looks' \in {looks, 0, looks + 1}
    BY DEF Next, Arrive, Disconnect, SolveOnMessage, LoopTest, LookAgain, TakeRequest, vars
  <2> QED BY <1>1, <2>1
<1>4. IsContext(context')
  <2>1. \/ context' = context \/ context' = Fresh \/ context' = Reset(context)
        \/ context' = ParseRequest(context, Bytes(from, to)).context
    BY DEF Next, Arrive, Disconnect, SolveOnMessage, LoopTest, LookAgain, TakeRequest, vars
  <2>2. IsContext(Fresh)
    BY DEF IsContext, Fresh
  <2>3. IsContext(Reset(context))
    BY <1>1, <2>2, ResetIsFresh
  <2> QED BY <1>1, <2>1, <2>2, <2>3, ParseContext
<1>5. ASSUME sent # <<>>, ~stale'
      PROVE  /\ \E i \in 0..Len(sent) : Splits(i)'
             /\ Boundary(rd)' /\ \A task \in tasks' : Boundary(task[1])'
  <2>0. ~stale
    BY <1>5 DEF Next, Arrive, Disconnect, SolveOnMessage, LoopTest, LookAgain, TakeRequest, vars
  <2>1. PICK i \in 0..Len(sent) : Splits(i)
    BY <1>5, <2>0 DEF SplitInv
  <2>a. Boundary(rd) /\ \A task \in tasks : Boundary(task[1])
    BY <1>5, <2>0 DEF SplitInv
  <2>2. \A k : EndOf(k)' = EndOf(k)
    BY <1>2 DEF EndOf
  <2>b. \A x : Boundary(x) => \E k \in 0..Len(sent') : x = EndOf(k)'
    BY <1>2, <2>2 DEF Boundary
  <2>c. ASSUME UNCHANGED <<rd, tasks>>
        PROVE  Boundary(rd)' /\ \A task \in tasks' : Boundary(task[1])'
    BY <2>a, <2>b, <2>c DEF Boundary
  <2>3. Len(sent) \in Nat /\ i \in Nat /\ to \in Nat /\ at \in Nat /\ Positions
    BY <1>1, <1>4 DEF LengthInv, Wire, Positions
  <2>4. ASSUME NEW n \in 1..Len(wire), Arrive(n)
        PROVE  Splits(i)' /\ Boundary(rd)' /\ \A task \in tasks' : Boundary(task[1])'
    <3>1. Splits(i)'
      BY <1>2, <2>1, <2>2, <2>4 DEF Arrive, Splits
    <3>2. rd' = rd /\ \A task \in tasks' : task \in tasks \/ task[1] = rd
      BY <2>4 DEF Arrive
    <3>3. Boundary(rd)' /\ \A task \in tasks' : Boundary(task[1])'
      BY <2>a, <2>b, <3>2 DEF Boundary
    <3> QED BY <3>1, <3>3
  <2>5. ASSUME NEW task \in tasks, SolveOnMessage(task)
        PROVE  (\E k \in 0..Len(sent) : Splits(k)') /\ Boundary(rd)'
               /\ \A t \in tasks' : Boundary(t[1])'
    <3>1. PICK k \in 0..Len(sent) : task[1] = EndOf(k)
      BY <2>a DEF Boundary
    <3>2. /\ from' = task[1] /\ context' = Fresh /\ pc' = "test" /\ rd' = rd
          /\ tasks' \subseteq tasks
      BY <2>5 DEF SolveOnMessage
    <3>3. Splits(k)'
      BY <2>2, <3>1, <3>2 DEF Splits, Fresh
    <3>4. Boundary(rd)' /\ \A t \in tasks' : Boundary(t[1])'
      BY <2>a, <2>b, <3>2 DEF Boundary
    <3> QED BY <3>3, <3>4
  <2>6. ASSUME LoopTest PROVE Splits(i)'
    <3>0. CASE ~connected
      BY <1>2, <2>1, <2>2, <2>6, <3>0 DEF LoopTest, Splits
    <3>1. PICK b : b = Bytes(from, to)
      OBVIOUS
    <3>p. PICK p : p = ParseRequest(Fresh, b)
      OBVIOUS
    <3>q. PICK q : q = ParseRequest(context, b)
      OBVIOUS
    <3>2. ASSUME connected
          PROVE  /\ pc = "test" /\ info' = q.info /\ context' = q.context /\ looks' = looks + 1
                 /\ pc' = IF q.info.ok THEN "body" ELSE "idle"
                 /\ from' = from /\ to' = to
      BY <2>6, <3>1, <3>2, <3>q DEF LoopTest
    <3>3. from = EndOf(i) /\ q.info = p.info
      BY <2>1, <3>p, <3>q, ParseInfo DEF Splits
    <3>4. IF i < Len(sent) /\ EndOf(i + 1) <= to
          THEN /\ p.info.ok /\ from + p.info.length = EndOf(i + 1)
               /\ p.context = [method |-> sent[i + 1].method, url |-> sent[i + 1].target]
          ELSE ~p.info.ok
      BY <1>1, <1>5, <3>1, <3>p, <3>3, ParseAtRequest
    <3>5. CASE connected /\ i < Len(sent) /\ EndOf(i + 1) <= to
      <4>1. p.info.ok /\ pc' = "body"
        BY <3>2, <3>3, <3>4, <3>5
      <4>2. from' + info'.length = EndOf(i + 1)'
        BY <1>2, <2>2, <3>2, <3>3, <3>4, <3>5
      <4>3. looks' # 0 /\ (looks' = 1 => looks = 0)
        BY <1>1, <3>2, <3>5
      <4>4. looks = 0 => context = Fresh
        BY <2>1, <3>2, <3>5 DEF Splits
      <4>5. looks' = 1 => q = p
        BY <3>p, <3>q, <4>3, <4>4
      <4>6. looks' = 1 => context' = [method |-> sent'[i + 1].method, url |-> sent'[i + 1].target]
        BY <1>2, <3>2, <3>4, <3>5, <4>5
      <4> QED BY <1>2, <2>2, <3>2, <3>3, <3>5, <4>1, <4>2, <4>3, <4>6 DEF Splits
    <3>6. CASE connected /\ ~(i < Len(sent) /\ EndOf(i + 1) <= to)
      <4>1. ~p.info.ok /\ pc' = "idle"
        BY <3>2, <3>3, <3>4, <3>6
      <4>2. i < Len(sent) => to' < EndOf(i + 1)'
        <5>1. ASSUME i < Len(sent) PROVE EndOf(i + 1) \in Nat
          <6>1. i + 1 \in 0..Len(sent)
            BY <2>3, <5>1
          <6> QED BY <1>1, <1>5, <6>1, EndFacts DEF LengthInv
        <5> QED BY <2>2, <2>3, <3>2, <3>6, <5>1
      <4> QED BY <1>2, <2>2, <3>2, <3>3, <3>6, <4>1, <4>2 DEF Splits
    <3> QED BY <3>0, <3>5, <3>6
  <2>7. ASSUME TakeRequest
        PROVE  (\E k \in 0..Len(sent) : Splits(k)') /\ Boundary(rd)'
               /\ \A task \in tasks' : Boundary(task[1])'
    <3>1. i < Len(sent) /\ from + info.length = EndOf(i + 1) /\ pc = "body"
      BY <2>1, <2>7 DEF TakeRequest, Splits
    <3>2. i + 1 \in 0..Len(sent)
      BY <2>3, <3>1
    <3>3. CASE info.length <= at - rd
      <4>1. /\ rd' = rd + info.length /\ from' = from + info.length /\ context' = Reset(context)
            /\ pc' = "test" /\ (stale' <=> (stale \/ from # rd)) /\ tasks' = tasks
        BY <2>7, <3>3 DEF TakeRequest
      <4>2. from = rd
        BY <1>5, <4>1
      <4>3. from' = EndOf(i + 1)' /\ rd' = EndOf(i + 1)'
        BY <2>2, <3>1, <4>1, <4>2
      <4>4. looks' = 0 => context' = Fresh
        <5>1. looks' = 0 /\ context' = Reset(context)
          BY <2>7, <3>3 DEF TakeRequest
        <5>2. Reset(context) = Fresh
          BY <1>1, ResetIsFresh
        <5> QED BY <5>1, <5>2
      <4>5. Splits(i + 1)'
        BY <4>1, <4>3, <4>4 DEF Splits
      <4>6. Boundary(rd)' /\ \A task \in tasks' : Boundary(task[1])'
        BY <1>2, <2>a, <2>b, <3>2, <4>1, <4>3 DEF Boundary
      <4> QED BY <3>2, <4>5, <4>6
    <3>4. CASE ~(info.length <= at - rd)
      <4>1. pc' = "dead" /\ from' = from /\ UNCHANGED <<rd, tasks>>
        BY <2>7, <3>4 DEF TakeRequest
      <4>2. Splits(i)'
        BY <2>1, <2>2, <4>1 DEF Splits
      <4> QED BY <2>c, <4>1, <4>2
    <3> QED BY <3>3, <3>4
  <2>8. ASSUME Disconnect \/ UNCHANGED vars PROVE Splits(i)' /\ UNCHANGED <<rd, tasks>>
    <3>1. UNCHANGED <<rd, tasks, from, to, pc, looks, context, info>> /\ (connected' => connected)
      BY <2>8 DEF Disconnect, vars
    <3> QED BY <1>2, <2>1, <2>2, <3>1 DEF Splits
  <2>9. ASSUME LookAgain PROVE Splits(i)' /\ UNCHANGED <<rd, tasks>>
    <3>1. looks # 0 /\ pc' = "test" /\ UNCHANGED <<rd, tasks, from, looks>>
      BY <2>1, <2>9 DEF LookAgain, Splits
    <3> QED BY <2>1, <2>2, <3>1 DEF Splits
  <2>10. ASSUME LoopTest PROVE UNCHANGED <<rd, tasks>>
    BY <2>10 DEF LoopTest
  <2> QED BY <2>1, <2>c, <2>4, <2>5, <2>6, <2>7, <2>8, <2>9, <2>10 DEF Next
<1>6. IsContext(context)'
  BY <1>4 DEF IsContext
<1> QED BY <1>1, <1>2, <1>3, <1>5, <1>6 DEF SplitInv

\* When the parser recognises each request on its own, no cut of the stream makes the loop
\* take anything but whole requests, each with its own method and url, and it leaves none.
LEMMA SplitIfRecognised ==
  ASSUME \A m \in Requests : Recognised(m)
  PROVE  Spec => []SplitsAtRequests
<1>1. SplitInv /\ [Next]_vars => SplitInv'
  BY NextSplit
<1>2. SplitInv => SplitsAtRequests
  BY DEF SplitInv, Splits, SplitsAtRequests
<1> QED BY <1>1, <1>2, InitSplit, PTL DEF Spec

-----------------------------------------------------------------------------
(* The parser and the reference *)

\* The greatest element is the one nothing exceeds.
LEMMA MaxIs ==
  ASSUME NEW n \in Nat, NEW I, I \subseteq 1..n, NEW m \in I, \A j \in I : j <= m
  PROVE  Max(I) = m
<1>1. Max(I) \in I /\ \A j \in I : j <= Max(I)
  BY MaxIsGreatest
<1>2. PICK x : x = Max(I) /\ x \in I /\ x <= m /\ m <= x
  BY <1>1
<1>3. x \in Nat /\ m \in Nat
  BY <1>2
<1> QED BY <1>2, <1>3

\* The least element is the one nothing undercuts.
LEMMA MinIs ==
  ASSUME NEW I, I \subseteq Nat, NEW m \in I, \A j \in I : m <= j
  PROVE  Min(I) = m
<1>1. Min(I) \in I /\ \A j \in I : Min(I) <= j
  BY MinIsLeast
<1>2. Min(I) <= m /\ m <= Min(I) /\ m \in Nat /\ Min(I) \in Nat
  BY <1>1
<1> QED BY <1>2

\* The line ends of the reference are the places std::search looks for.
LEMMA CrlfFacts ==
  ASSUME NEW C, NEW buf \in Seq(C)
  PROVE  \A i : i \in CrlfAt(buf) <=> i \in 1..(Len(buf) - 1) /\ EndsAt(buf, i)
BY DEF CrlfAt, EndsAt

\* Two lines do not end one byte apart.
LEMMA CrlfApart ==
  ASSUME NEW C, NEW buf \in Seq(C), NEW c \in CrlfAt(buf), NEW d \in CrlfAt(buf), c < d
  PROVE  c + 2 <= d
<1>1. c \in Nat /\ d \in Nat /\ buf[c + 1] = LF /\ buf[d] = CR
  BY CrlfFacts DEF EndsAt
<1>2. CR # LF
  BY DEF CR, LF
<1>3. d # c + 1
  BY <1>1, <1>2
<1> QED BY <1>1, <1>3

\* The line between two ends.
LEMMA LineFacts ==
  ASSUME NEW C, NEW buf \in Seq(C), NEW c \in CrlfAt(buf), NEW d \in CrlfAt(buf), c < d,
         \A b \in CrlfAt(buf) : b < d => b <= c
  PROVE  /\ LineOf(buf, d) = SubSeq(buf, c + 2, d - 1)
         /\ LineOf(buf, d) \in Seq(C) /\ Len(LineOf(buf, d)) = d - (c + 2)
         /\ \A j \in 1..(d - (c + 2)) : LineOf(buf, d)[j] = buf[c + 1 + j]
<1>1. Len(buf) \in Nat /\ c \in 1..(Len(buf) - 1) /\ d \in 1..(Len(buf) - 1)
  BY CrlfFacts
<1>2. \A b \in CrlfAt(buf) : b \in 1..(Len(buf) - 1)
  BY CrlfFacts
<1>3. PICK I : I = {1} \cup {x + 2 : x \in {y \in CrlfAt(buf) : y < d}}
  OBVIOUS
<1>4. \A i \in I : i = 1 \/ \E x \in CrlfAt(buf) : x < d /\ i = x + 2
  BY <1>3
<1>5. PICK n \in Nat : n = Len(buf) + 1
  BY <1>1
<1>6. I \subseteq 1..n
  BY <1>1, <1>2, <1>4, <1>5
<1>7. c + 2 \in I
  BY <1>3
<1>8. \A i \in I : i <= c + 2
  BY <1>1, <1>2, <1>4
<1>9. Max(I) = c + 2
  BY <1>6, <1>7, <1>8, MaxIs
<1>10. PICK line : line = LineOf(buf, d) /\ line = SubSeq(buf, c + 2, d - 1)
  BY <1>3, <1>9 DEF LineOf
<1>11. c + 2 \in Int /\ d - 1 \in Int /\ c + 2 <= d
  BY <1>1, CrlfApart
<1>12. \A i \in (c + 2)..(d - 1) : buf[i] \in C
  <2>1. \A i \in (c + 2)..(d - 1) : i \in 1..Len(buf)
    BY <1>1
  <2> QED BY <2>1
<1>13. /\ line \in Seq(C) /\ Len(line) = IF c + 2 <= d - 1 THEN d - 1 - (c + 2) + 1 ELSE 0
       /\ \A j \in 1..(d - 1 - (c + 2) + 1) : line[j] = buf[c + 2 + j - 1]
  BY <1>10, <1>11, <1>12, SubSeqProperties
<1>14. Len(line) = d - (c + 2)
  BY <1>1, <1>11, <1>13
<1>15. ASSUME NEW j \in 1..(d - (c + 2)) PROVE line[j] = buf[c + 1 + j]
  <2>1. j \in 1..(d - 1 - (c + 2) + 1) /\ c + 2 + j - 1 = c + 1 + j
    BY <1>1
  <2> QED BY <1>13, <2>1
<1> QED BY <1>10, <1>13, <1>14, <1>15

HasColon(buf, b) == ":" \in Range(LineOf(buf, b))

\* The loop stops at a line exactly when it has no colon.
LEMMA ColonOfLine ==
  ASSUME NEW C, NEW buf \in Seq(C), NEW c \in CrlfAt(buf), NEW d \in CrlfAt(buf), c < d,
         \A b \in CrlfAt(buf) : b < d => b <= c
  PROVE  HasColon(buf, d) <=> Colon(buf, c + 2, d) # d
<1>1. Len(buf) \in Nat /\ c \in 1..(Len(buf) - 1) /\ d \in 1..(Len(buf) - 1) /\ c + 2 <= d
  BY CrlfFacts, CrlfApart
<1>2. PICK line \in Seq(C) : /\ line = LineOf(buf, d) /\ Len(line) = d - (c + 2)
                             /\ \A j \in 1..(d - (c + 2)) : line[j] = buf[c + 1 + j]
  BY LineFacts
<1>3. PICK it \in Nat : it = c + 2
  BY <1>1
<1>4. IsColon(Colon(buf, it, d), buf, it, d)
  BY <1>1, <1>3, ColonFacts
<1>5. PICK k : k = Colon(buf, c + 2, d) /\ IsColon(k, buf, it, d)
  BY <1>3, <1>4
<1>6. k \in it..d /\ (k < d => buf[k] = ":") /\ \A i \in it..(d - 1) : i < k => buf[i] # ":"
  BY <1>5 DEF IsColon
<1>7. HasColon(buf, d) <=> \E j \in 1..(d - (c + 2)) : line[j] = ":"
  <2>1. DOMAIN line = 1..(d - (c + 2))
    BY <1>2, LenProperties
  <2> QED BY <1>2, <2>1 DEF HasColon, Range
<1>8. ASSUME NEW j \in 1..(d - (c + 2)), line[j] = ":" PROVE k # d
  <2>1. buf[c + 1 + j] = ":" /\ c + 1 + j \in it..(d - 1)
    BY <1>1, <1>2, <1>3, <1>8
  <2>2. ~(c + 1 + j < k)
    BY <1>6, <2>1
  <2> QED BY <1>1, <1>3, <1>6, <2>1, <2>2
<1>9. ASSUME k # d PROVE \E j \in 1..(d - (c + 2)) : line[j] = ":"
  <2>1. k < d /\ buf[k] = ":"
    BY <1>1, <1>3, <1>6, <1>9
  <2>2. k - (c + 1) \in 1..(d - (c + 2)) /\ c + 1 + (k - (c + 1)) = k
    BY <1>1, <1>3, <1>6, <2>1
  <2> QED BY <1>2, <2>1, <2>2
<1> QED BY <1>5, <1>7, <1>8, <1>9

IsToken(buf, it, k, a) == SubSeq(buf, it, k - 1) = <<a>> <=> k = it + 1 /\ buf[it] = a

\* A part is one token exactly when it has one place and that token is there.
LEMMA OneToken ==
  ASSUME NEW C, NEW buf \in Seq(C), NEW it \in Nat \ {0}, NEW k \in it..(Len(buf) + 1), NEW a
  PROVE  IsToken(buf, it, k, a)
<1>1. k - 1 \in Int /\ it \in Int /\ Len(buf) \in Nat /\ k \in Int
  OBVIOUS
<1>2. \A i \in it..(k - 1) : buf[i] \in C
  <2>1. \A i \in it..(k - 1) : i \in 1..Len(buf)
    BY <1>1
  <2> QED BY <2>1
<1>3. PICK p : p = SubSeq(buf, it, k - 1)
  OBVIOUS
<1>4. /\ p \in Seq(C) /\ Len(p) = IF it <= k - 1 THEN k - 1 - it + 1 ELSE 0
      /\ \A i \in 1..(k - 1 - it + 1) : p[i] = buf[it + i - 1]
  BY <1>1, <1>2, <1>3, SubSeqProperties
<1>5. Len(p) = k - it
  BY <1>1, <1>4
<1>6. PICK q : q = <<a>> /\ Len(q) = 1 /\ q[1] = a
  <2>1. PICK D : a \in D
    OBVIOUS
  <2>2. Len(<<a>>) = 1 /\ <<a>>[1] = a
    BY <2>1, TupleFacts
  <2> QED BY <2>2
<1>7. ASSUME p = q PROVE k = it + 1 /\ buf[it] = a
  <2>1. k - it = 1
    BY <1>5, <1>6, <1>7
  <2>2. k = it + 1 /\ 1 \in 1..(k - 1 - it + 1) /\ it + 1 - 1 = it
    BY <1>1, <2>1
  <2>3. p[1] = buf[it]
    BY <1>4, <2>2
  <2> QED BY <1>6, <1>7, <2>2, <2>3
<1>8. ASSUME k = it + 1, buf[it] = a PROVE p = q
  <2>1. k - it = 1 /\ 1 \in 1..(k - 1 - it + 1) /\ it + 1 - 1 = it /\ it \in it..(k - 1)
    BY <1>1, <1>8
  <2>2. p[1] = a /\ a \in C
    BY <1>2, <1>4, <1>8, <2>1
  <2>3. q \in Seq(C)
    BY <1>6, <2>2, TupleFacts
  <2>4. \A i \in 1..Len(p) : p[i] = q[i]
    BY <1>5, <1>6, <2>1, <2>2
  <2>5. Len(p) = Len(q)
    BY <1>5, <1>6, <2>1
  <2> QED BY <1>4, <2>3, <2>4, <2>5, SeqEqual
<1> QED BY <1>3, <1>6, <1>7, <1>8 DEF IsToken

\* A line begins with two given tokens exactly when it has them in its first places.
LEMMA TwoTokens ==
  ASSUME NEW C, NEW t \in Seq(C), NEW a, NEW b
  PROVE  IsPrefix(<<a, b>>, t) <=> Len(t) >= 2 /\ t[1] = a /\ t[2] = b
<1>0. PICK D : a \in D /\ b \in D
  <2>1. a \in {a, b} /\ b \in {a, b}
    OBVIOUS
  <2> QED BY <2>1
<1>1. PICK q \in Seq(D) : q = <<a, b>> /\ Len(q) = 2 /\ q[1] = a /\ q[2] = b
  <2>1. <<a, b>> \in Seq(D) /\ Len(<<a, b>>) = 2 /\ <<a, b>>[1] = a /\ <<a, b>>[2] = b
    BY <1>0, TupleFacts
  <2> QED BY <2>1
<1>2. PICK one \in Int : one = 1
  OBVIOUS
<1>3. PICK two \in Int : two = 2
  OBVIOUS
<1>4. \A i \in one..two : i = 1 \/ i = 2
  BY <1>2, <1>3
<1>5. IsPrefix(q, t) <=> 2 <= Len(t) /\ SubSeq(q, one, two) = SubSeq(t, one, two)
  BY <1>1, <1>2, <1>3 DEF IsPrefix
<1>6. ASSUME Len(t) >= 2, t[1] = a, t[2] = b PROVE SubSeq(q, one, two) = SubSeq(t, one, two)
  <2>1. PICK z \in Int : z = 0
    OBVIOUS
  <2>2. \A i \in one..two : t[i + z] = q[i]
    <3>1. 1 + z = 1 /\ 2 + z = 2
      BY <2>1
    <3>2. t[1 + z] = q[1] /\ t[2 + z] = q[2]
      BY <1>0, <1>1, <1>6, <3>1
    <3> QED BY <1>4, <3>2
  <2>3. SamePart(q, t, one, two, z)
    BY <2>2, SameParts
  <2>4. one + z = one /\ two + z = two
    BY <2>1
  <2> QED BY <2>3, <2>4 DEF SamePart
<1>7. ASSUME 2 <= Len(t), SubSeq(q, one, two) = SubSeq(t, one, two)
      PROVE  t[1] = a /\ t[2] = b
  <2>1. \A i \in one..two : t[i] \in C /\ q[i] \in D
    <3>1. 1 \in 1..Len(t) /\ 2 \in 1..Len(t)
      BY <1>7
    <3>2. t[1] \in C /\ t[2] \in C /\ q[1] \in D /\ q[2] \in D
      BY <1>0, <1>1, <3>1
    <3> QED BY <1>4, <3>2
  <2>2. \A i \in 1..(two - one + 1) : SubSeq(t, one, two)[i] = t[one + i - 1]
    BY <2>1, SubSeqProperties
  <2>3. \A i \in 1..(two - one + 1) : SubSeq(q, one, two)[i] = q[one + i - 1]
    BY <2>1, SubSeqProperties
  <2>4. 1 \in 1..(two - one + 1) /\ 2 \in 1..(two - one + 1) /\ one + 1 - 1 = 1 /\ one + 2 - 1 = 2
    BY <1>2, <1>3
  <2>5. SubSeq(t, one, two)[1] = t[1] /\ SubSeq(t, one, two)[2] = t[2]
    BY <2>2, <2>4
  <2>6. SubSeq(q, one, two)[1] = q[1] /\ SubSeq(q, one, two)[2] = q[2]
    BY <2>3, <2>4
  <2>7. t[1] = q[1] /\ t[2] = q[2]
    BY <1>7, <2>5, <2>6, Zenon
  <2> QED BY <1>1, <2>7
<1> QED BY <1>1, <1>5, <1>6, <1>7

IsLength(buf, b) == IsPrefix(<<"Content-Length", ":">>, LineOf(buf, b))
LengthText(buf, b) == SubSeq(LineOf(buf, b), 3, Len(LineOf(buf, b)))

\* What a header does to the size of the body.
LEMMA LengthLine ==
  ASSUME NEW C, NEW buf \in Seq(C), NEW c \in CrlfAt(buf), NEW d \in CrlfAt(buf), c < d,
         \A b \in CrlfAt(buf) : b < d => b <= c,
         HasColon(buf, d), NEW s, s.it = c + 2
  PROVE  BodySize(buf, s, d) =
           IF IsLength(buf, d) THEN Atoi(LengthText(buf, d)) ELSE s.bodySize
<1>1. Len(buf) \in Nat /\ c \in 1..(Len(buf) - 1) /\ d \in 1..(Len(buf) - 1) /\ c + 2 <= d
  BY CrlfFacts, CrlfApart
<1>2. PICK line \in Seq(C) : /\ line = LineOf(buf, d) /\ Len(line) = d - (c + 2)
                             /\ \A j \in 1..(d - (c + 2)) : line[j] = buf[c + 1 + j]
  BY LineFacts
<1>3. PICK it \in Nat \ {0} : it = c + 2
  BY <1>1
<1>4. IsColon(Colon(buf, it, d), buf, it, d)
  BY <1>1, <1>3, ColonFacts
<1>5. PICK k : k = Colon(buf, it, d) /\ IsColon(k, buf, it, d)
  BY <1>4
<1>6. k \in it..d /\ (k < d => buf[k] = ":") /\ \A i \in it..(d - 1) : i < k => buf[i] # ":"
  BY <1>5 DEF IsColon
<1>7. k < d
  <2>1. k # d
    BY <1>3, <1>5, ColonOfLine
  <2> QED BY <1>1, <1>3, <1>6, <2>1
<1>8. PICK name : name = "Content-Length" /\ name # ":"
  OBVIOUS
<1>9. SubSeq(buf, it, k - 1) = <<name>> <=> k = it + 1 /\ buf[it] = name
  <2>1. k \in it..(Len(buf) + 1)
    BY <1>1, <1>3, <1>6
  <2>2. IsToken(buf, it, k, name)
    BY <2>1, OneToken
  <2> QED BY <2>2 DEF IsToken
<1>10. IsLength(buf, d) <=> Len(line) >= 2 /\ line[1] = name /\ line[2] = ":"
  <2>1. PICK colon : colon = ":"
    OBVIOUS
  <2>2. IsPrefix(<<name, colon>>, line) <=> Len(line) >= 2 /\ line[1] = name /\ line[2] = colon
    BY TwoTokens
  <2> QED BY <1>2, <1>8, <2>1, <2>2 DEF IsLength
<1>11. ASSUME Len(line) >= 2 PROVE line[1] = buf[it] /\ line[2] = buf[it + 1]
  <2>1. 1 \in 1..(d - (c + 2)) /\ 2 \in 1..(d - (c + 2)) /\ c + 1 + 1 = it /\ c + 1 + 2 = it + 1
    BY <1>1, <1>2, <1>3, <1>11
  <2>2. line[1] = buf[c + 1 + 1] /\ line[2] = buf[c + 1 + 2]
    BY <1>2, <2>1
  <2> QED BY <2>1, <2>2
<1>12. IsLength(buf, d) => k = it + 1 /\ buf[it] = name
  <2> SUFFICES ASSUME IsLength(buf, d) PROVE k = it + 1 /\ buf[it] = name
    OBVIOUS
  <2>1. Len(line) >= 2 /\ buf[it] = name /\ buf[it + 1] = ":"
    BY <1>10, <1>11
  <2>2. it \in it..(d - 1) /\ it + 1 \in it..(d - 1)
    BY <1>1, <1>2, <1>3, <2>1
  <2>3. ~(it + 1 < k)
    BY <1>6, <2>1, <2>2
  <2>4. buf[k] # name
    BY <1>6, <1>7, <1>8
  <2>5. k # it
    BY <2>1, <2>4
  <2> QED BY <1>1, <1>3, <1>6, <2>1, <2>3, <2>5
<1>13. k = it + 1 /\ buf[it] = name => IsLength(buf, d)
  <2> SUFFICES ASSUME k = it + 1, buf[it] = name PROVE IsLength(buf, d)
    OBVIOUS
  <2>1. Len(line) >= 2 /\ buf[it + 1] = ":"
    BY <1>1, <1>2, <1>3, <1>6, <1>7
  <2> QED BY <1>10, <1>11, <2>1
<1>14. ASSUME k = it + 1 PROVE SubSeq(buf, k + 1, d - 1) = LengthText(buf, d)
  <2>1. PICK e \in Int : e = c + 1
    BY <1>1
  <2>2. PICK n \in Int : n = d - (c + 2)
    BY <1>1
  <2>3. PICK three \in Int : three = 3
    OBVIOUS
  <2>4. \A i \in three..n : buf[i + e] = line[i]
    <3>1. \A i \in three..n : i \in 1..Len(line) /\ i \in 1..(d - (c + 2)) /\ i + e = c + 1 + i
      BY <1>1, <1>2, <2>1, <2>2, <2>3
    <3> QED BY <1>2, <3>1
  <2>5. SamePart(line, buf, three, n, e)
    BY <2>4, SameParts
  <2>6. three + e = k + 1 /\ n + e = d - 1
    BY <1>1, <1>3, <1>14, <2>1, <2>2, <2>3
  <2> QED BY <1>2, <2>2, <2>3, <2>5, <2>6 DEF LengthText, SamePart
<1>15. BodySize(buf, s, d) = IF SubSeq(buf, it, k - 1) = <<"Content-Length">>
                            THEN Atoi(SubSeq(buf, k + 1, d - 1)) ELSE s.bodySize
  BY <1>3, <1>5 DEF BodySize
<1> QED BY <1>8, <1>9, <1>12, <1>13, <1>14, <1>15

\* The lines before c, c included, that declare a length, and what the last of them says.
LengthsTo(buf, c) == {b \in HeadersOf(buf) : b <= c /\ IsLength(buf, b)}
SizeOf(buf, L) == IF L = {} THEN 0 ELSE Number(LengthText(buf, Max(L)))

\* The loop has gone past the line that ends at c.
Past(buf, s, c) ==
  /\ c \in CrlfAt(buf) /\ s.it = c + 2
  /\ \A b \in HeadersOf(buf) : b <= c => HasColon(buf, b)
  /\ s.bodySize = SizeOf(buf, LengthsTo(buf, c)) % Wrap

\* What the reference says the loop ends with.
IsReference(r, buf) ==
  IF \E b \in HeadersOf(buf) : ~HasColon(buf, b)
  THEN r = ExpectBody(buf, HeadEnd(buf) + 2, Declared(buf) % Wrap)
  ELSE r = Incomplete

\* The headers of the reference are the line ends behind the first one.
LEMMA HeadersFacts ==
  ASSUME NEW C, NEW buf \in Seq(C), CrlfAt(buf) # {}
  PROVE  /\ Min(CrlfAt(buf)) \in CrlfAt(buf)
         /\ \A b : b \in HeadersOf(buf) <=> b \in CrlfAt(buf) /\ Min(CrlfAt(buf)) < b
<1>1. PICK K : K = CrlfAt(buf)
  OBVIOUS
<1>2. K \subseteq Nat /\ K # {}
  BY <1>1, CrlfFacts
<1>3. PICK m : m = Min(K) /\ m \in K /\ \A j \in K : m <= j
  BY <1>2, MinIsLeast
<1>4. \A b \in K : b # m <=> m < b
  BY <1>2, <1>3
<1> QED BY <1>1, <1>3, <1>4 DEF HeadersOf

\* The line behind c.
LEMMA NextLine ==
  ASSUME NEW C, NEW buf \in Seq(C), NEW s \in Loop, NEW c, Past(buf, s, c)
  PROVE  LET d == Search(buf, s.it)
         IN IF d > Len(buf) THEN \A b \in CrlfAt(buf) : b <= c
            ELSE d \in CrlfAt(buf) /\ c < d /\ \A b \in CrlfAt(buf) : b < d => b <= c
<1>1. c \in CrlfAt(buf) /\ s.it = c + 2 /\ Len(buf) \in Nat /\ c \in 1..(Len(buf) - 1)
  BY CrlfFacts DEF Past
<1>2. PICK it \in Nat : it = s.it /\ it = c + 2
  BY <1>1
<1>3. PICK d : d = Search(buf, it) /\ IsSearch(d, buf, it)
  BY SearchFacts
<1>4. /\ d \in 0..(Len(buf) + 1)
      /\ d <= Len(buf) => d \in it..(Len(buf) - 1) /\ EndsAt(buf, d)
      /\ \A i \in it..(Len(buf) - 1) : i < d => ~EndsAt(buf, i)
  BY <1>3 DEF IsSearch
<1>5. ASSUME NEW b \in CrlfAt(buf), b < d PROVE b <= c
  <2>1. b \in 1..(Len(buf) - 1) /\ EndsAt(buf, b)
    BY CrlfFacts
  <2>2. ~(b \in it..(Len(buf) - 1))
    BY <1>4, <1>5, <2>1
  <2>3. ~(c < b)
    <3>1. c < b => c + 2 <= b
      BY <1>1, CrlfApart
    <3> QED BY <1>1, <1>2, <2>1, <2>2, <3>1
  <2> QED BY <1>1, <2>1, <2>3
<1>6. CASE d > Len(buf)
  <2>1. \A b \in CrlfAt(buf) : b < d
    BY <1>1, <1>4, <1>6, CrlfFacts
  <2> QED BY <1>2, <1>3, <1>5, <1>6, <2>1
<1>7. CASE ~(d > Len(buf))
  <2>1. d \in it..(Len(buf) - 1) /\ EndsAt(buf, d)
    BY <1>1, <1>4, <1>7
  <2>2. d \in 1..(Len(buf) - 1) /\ c < d
    BY <1>1, <1>2, <2>1
  <2>3. d \in CrlfAt(buf)
    BY <2>1, <2>2, CrlfFacts
  <2> QED BY <1>2, <1>3, <1>5, <1>7, <2>2, <2>3
<1> QED BY <1>6, <1>7

\* The Content-Length lines up to some line, of which the last counts.
LEMMA LengthsFacts ==
  ASSUME NEW C, NEW buf \in Seq(C), NEW c
  PROVE  /\ LengthsTo(buf, c) \subseteq 1..Len(buf)
         /\ \A b \in LengthsTo(buf, c) : b \in HeadersOf(buf) /\ b <= c /\ IsLength(buf, b)
<1>1. \A b \in LengthsTo(buf, c) : b \in HeadersOf(buf) /\ b <= c /\ IsLength(buf, b)
  BY DEF LengthsTo
<1>2. \A b \in HeadersOf(buf) : b \in 1..Len(buf)
  BY CrlfFacts DEF HeadersOf
<1> QED BY <1>1, <1>2

\* After a header the loop is past it.
LEMMA PastNext ==
  ASSUME NEW C, NEW buf \in Seq(C), NEW s \in Loop, NEW c, Past(buf, s, c), ~Stops(buf, s)
  PROVE  Past(buf, After(buf, s), Search(buf, s.it))
<1>1. /\ c \in CrlfAt(buf) /\ s.it = c + 2 /\ s.bodySize = SizeOf(buf, LengthsTo(buf, c)) % Wrap
      /\ \A b \in HeadersOf(buf) : b <= c => HasColon(buf, b)
  BY DEF Past
<1>2. PICK d : d = Search(buf, s.it)
  OBVIOUS
<1>3. ~(d > Len(buf)) /\ Colon(buf, c + 2, d) # d
  BY <1>1, <1>2 DEF Stops
<1>4. d \in CrlfAt(buf) /\ c < d /\ \A b \in CrlfAt(buf) : b < d => b <= c
  BY <1>2, <1>3, NextLine
<1>5. After(buf, s).it = d + 2 /\ After(buf, s).bodySize = BodySize(buf, s, d)
  BY <1>2, <1>3, AfterFacts
<1>6. HasColon(buf, d)
  BY <1>1, <1>3, <1>4, ColonOfLine
<1>7. \A b \in CrlfAt(buf) : b \in Nat
  BY CrlfFacts
<1>8. \A b \in HeadersOf(buf) : b \in CrlfAt(buf) /\ (b <= d <=> b <= c \/ b = d)
  <2>1. \A b \in HeadersOf(buf) : b \in CrlfAt(buf)
    BY DEF HeadersOf
  <2> QED BY <1>1, <1>4, <1>7, <2>1
<1>9. d \in HeadersOf(buf)
  <2>1. Min(CrlfAt(buf)) \in CrlfAt(buf) /\ Min(CrlfAt(buf)) <= c
    <3>1. CrlfAt(buf) \subseteq Nat /\ CrlfAt(buf) # {}
      BY <1>1, <1>7
    <3> QED BY <1>1, <3>1, MinIsLeast
  <2>2. Min(CrlfAt(buf)) # d
    BY <1>1, <1>4, <1>7, <2>1
  <2> QED BY <1>4, <2>2 DEF HeadersOf
<1>10. BodySize(buf, s, d) = IF IsLength(buf, d) THEN Atoi(LengthText(buf, d)) ELSE s.bodySize
  BY <1>1, <1>4, <1>6, LengthLine
<1>11. BodySize(buf, s, d) = SizeOf(buf, LengthsTo(buf, d)) % Wrap
  <2>1. CASE IsLength(buf, d)
    <3>1. d \in LengthsTo(buf, d)
      BY <1>7, <1>4, <1>9, <2>1 DEF LengthsTo
    <3>2. PICK n \in Nat : n = Len(buf)
      OBVIOUS
    <3>3. Max(LengthsTo(buf, d)) = d
      <4>1. PICK L : L = LengthsTo(buf, d) /\ d \in L /\ L \subseteq 1..n /\ \A b \in L : b <= d
        BY <3>1, <3>2, LengthsFacts
      <4> QED BY <4>1, MaxIs
    <3>4. SizeOf(buf, LengthsTo(buf, d)) = Number(LengthText(buf, d))
      BY <3>1, <3>3 DEF SizeOf
    <3> QED BY <1>10, <2>1, <3>4 DEF Atoi
  <2>2. CASE ~IsLength(buf, d)
    <3>1. LengthsTo(buf, d) = LengthsTo(buf, c)
      BY <1>8, <2>2 DEF LengthsTo
    <3> QED BY <1>1, <1>10, <2>2, <3>1
  <2> QED BY <2>1, <2>2
<1>12. \A b \in HeadersOf(buf) : b <= d => HasColon(buf, b)
  BY <1>1, <1>6, <1>8
<1> QED BY <1>2, <1>4, <1>5, <1>11, <1>12 DEF Past

\* The loop ends where the reference says.
LEMMA PastEnds ==
  ASSUME NEW C, NEW buf \in Seq(C), NEW s \in Loop, NEW c, Past(buf, s, c), Stops(buf, s)
  PROVE  IsReference(ExpectHeaders(buf)[s], buf)
<1>1. /\ c \in CrlfAt(buf) /\ s.it = c + 2 /\ s.bodySize = SizeOf(buf, LengthsTo(buf, c)) % Wrap
      /\ \A b \in HeadersOf(buf) : b <= c => HasColon(buf, b)
  BY DEF Past
<1>2. PICK d : d = Search(buf, s.it)
  OBVIOUS
<1>3. \A b \in HeadersOf(buf) : b \in CrlfAt(buf)
  BY DEF HeadersOf
<1>4. \A b \in CrlfAt(buf) : b \in Nat
  BY CrlfFacts
<1>5. CASE d > Len(buf)
  <2>1. \A b \in CrlfAt(buf) : b <= c
    BY <1>2, <1>5, NextLine
  <2>2. ExpectHeaders(buf)[s] = Incomplete
    BY <1>2, <1>5, ScanFacts
  <2> QED BY <1>1, <1>3, <2>1, <2>2 DEF IsReference
<1>6. CASE ~(d > Len(buf))
  <2>1. d \in CrlfAt(buf) /\ c < d /\ \A b \in CrlfAt(buf) : b < d => b <= c
    BY <1>2, <1>6, NextLine
  <2>2. ExpectHeaders(buf)[s] = ExpectBody(buf, d + 2, s.bodySize)
    BY <1>2, <1>6, ScanFacts
  <2>3. ~HasColon(buf, d)
    <3>1. Colon(buf, c + 2, d) = d
      BY <1>1, <1>2, <1>6 DEF Stops
    <3> QED BY <1>1, <2>1, <3>1, ColonOfLine
  <2>4. d \in HeadersOf(buf)
    <3>1. Min(CrlfAt(buf)) \in CrlfAt(buf) /\ Min(CrlfAt(buf)) <= c
      <4>1. CrlfAt(buf) \subseteq Nat /\ CrlfAt(buf) # {}
        BY <1>1, <1>4
      <4> QED BY <1>1, <4>1, MinIsLeast
    <3>2. Min(CrlfAt(buf)) # d
      BY <1>1, <1>4, <2>1, <3>1
    <3> QED BY <2>1, <3>2 DEF HeadersOf
  <2>5. HeadEnd(buf) = d
    <3>1. PICK I : I = {b \in HeadersOf(buf) : ~HasColon(buf, b)}
      OBVIOUS
    <3>2. I \subseteq Nat /\ d \in I
      BY <1>3, <1>4, <2>3, <2>4, <3>1
    <3>3. \A b \in I : d <= b
      <4>1. \A b \in I : b \in CrlfAt(buf) /\ ~(b <= c)
        BY <1>1, <1>3, <3>1
      <4> QED BY <1>4, <2>1, <4>1
    <3>4. Min(I) = d
      BY <3>2, <3>3, MinIs
    <3> QED BY <3>1, <3>4 DEF HeadEnd, HasColon
  <2>6. Declared(buf) = SizeOf(buf, LengthsTo(buf, c))
    <3>1. {b \in HeadersOf(buf) : b < HeadEnd(buf) /\ IsPrefix(<<"Content-Length", ":">>, LineOf(buf, b))}
            = LengthsTo(buf, c)
      <4>1. \A b \in HeadersOf(buf) : b < d <=> b <= c
        BY <1>1, <1>3, <1>4, <2>1
      <4> QED BY <2>5, <4>1 DEF LengthsTo, IsLength
    <3> QED BY <3>1 DEF Declared, SizeOf, LengthText
  <2> QED BY <1>1, <2>2, <2>3, <2>4, <2>5, <2>6 DEF IsReference
<1> QED BY <1>5, <1>6

\* The header loop agrees with the reference, by induction on what is left.
LEMMA ScanIsReference ==
  ASSUME NEW C, NEW buf \in Seq(C), NEW s \in Loop, NEW c, Past(buf, s, c)
  PROVE  IsReference(ExpectHeaders(buf)[s], buf)
<1> DEFINE S == {x \in Loop : \E e \in Nat : Past(buf, x, e)}
           P == {x \in Loop : IsReference(ExpectHeaders(buf)[x], buf)}
<1>1. \A x, e : Past(buf, x, e) => e \in Nat
  BY CrlfFacts DEF Past
<1>2. ASSUME NEW x \in S, ~Stops(buf, x) PROVE After(buf, x) \in S
  <2>1. PICK e \in Nat : Past(buf, x, e)
    OBVIOUS
  <2>2. Past(buf, After(buf, x), Search(buf, x.it))
    BY <1>2, <2>1, PastNext
  <2>3. After(buf, x) \in Loop
    BY <1>2, AfterFacts DEF Stops
  <2> QED BY <1>1, <2>2, <2>3
<1>3. ASSUME NEW x \in S, Stops(buf, x) \/ After(buf, x) \in P PROVE x \in P
  <2>1. CASE Stops(buf, x)
    BY <2>1, PastEnds
  <2>2. CASE ~Stops(buf, x)
    BY <1>3, <2>2, ScanFacts
  <2> QED BY <2>1, <2>2
<1>4. S \subseteq P
  <2>1. S \subseteq Loop
    OBVIOUS
  <2>2. \A x \in S : ~Stops(buf, x) => After(buf, x) \in S
    BY <1>2
  <2>3. \A x \in S : Stops(buf, x) \/ After(buf, x) \in P => x \in P
    BY <1>3
  <2> HIDE DEF S, P
  <2> QED BY <2>1, <2>2, <2>3, LoopInduction
<1>5. s \in S
  BY <1>1
<1> QED BY <1>4, <1>5

\* A request line has a blank and behind it something else.
HasTarget(line) == \E i, j \in DOMAIN line : i < j /\ line[i] = " " /\ line[j] # " "

\* praseRequestLine accepts a line with a blank and something behind it, and no other.
LEMMA RequestLineOk ==
  ASSUME NEW C, NEW line \in Seq(C), NEW ctx
  PROVE  PraseRequestLine(ctx, line).ok <=> HasTarget(line)
<1>1. PICK n \in Nat : n = Len(line) /\ DOMAIN line = 1..n
  BY LenProperties
<1>2. PICK end \in Nat : end = n + 1
  OBVIOUS
<1>3. PICK one \in Nat : one = 1 /\ one <= end
  BY <1>2
<1>4. PICK B : B = {i \in 1..n : line[i] = " "}
  OBVIOUS
<1>5. (\A i \in B : i \in 1..n) /\ \A i \in 1..n : i \in B <=> line[i] = " "
  BY <1>4
<1>a. \A i \in B : i \in 1..n
  BY <1>5
<1>6. B \subseteq one..end
  BY <1>2, <1>3, <1>a
<1>7. IsFirst(First(B, end), B, one, end)
  BY <1>3, <1>6, FirstFacts
<1>8. PICK blank : /\ blank = First(B, end) /\ blank \in 1..end /\ blank \in B \cup {end}
                  /\ \A i \in B : blank <= i
  BY <1>3, <1>7 DEF IsFirst
<1>9. PICK W : W = {i \in blank..n : line[i] # " "}
  OBVIOUS
<1>10. (\A i \in W : i \in blank..n) /\ \A i \in blank..n : i \in W <=> line[i] # " "
  BY <1>9
<1>b. \A i \in W : i \in blank..n
  BY <1>10
<1>11. W \subseteq blank..end /\ blank \in Nat /\ blank <= end
  BY <1>2, <1>8, <1>b
<1>12. IsFirst(First(W, end), W, blank, end)
  BY <1>11, FirstFacts
<1>13. PICK start : /\ start = First(W, end) /\ start \in blank..end /\ start \in W \cup {end}
                   /\ \A i \in W : start <= i
  BY <1>12 DEF IsFirst
<1>14. PraseRequestLine(ctx, line).ok = (start < end)
  BY <1>1, <1>2, <1>4, <1>8, <1>9, <1>13 DEF PraseRequestLine
<1>15. ASSUME start < end PROVE \E i, j \in 1..n : i < j /\ line[i] = " " /\ line[j] # " "
  <2>1. start \in W /\ start \in blank..n /\ line[start] # " "
    <3>1. start \in W
      BY <1>2, <1>11, <1>13, <1>15
    <3> QED BY <1>10, <3>1
  <2>2. blank \in B /\ blank \in 1..n /\ line[blank] = " "
    <3>1. blank # end
      BY <1>2, <1>11, <1>13, <1>15
    <3>2. blank \in B
      BY <1>8, <3>1
    <3> QED BY <1>5, <3>2
  <2>3. start # blank
    BY <2>1, <2>2
  <2>4. blank < start /\ start \in 1..n
    <3>1. start \in blank..n /\ blank \in 1..n
      BY <2>1, <2>2
    <3> QED BY <2>3, <3>1
  <2> QED BY <2>1, <2>2, <2>4
<1>16. ASSUME NEW i \in 1..n, NEW j \in 1..n, i < j, line[i] = " ", line[j] # " "
       PROVE  start < end
  <2>1. i \in B
    BY <1>5, <1>16
  <2>2. j \in blank..n
    <3>1. blank <= i
      BY <1>8, <2>1
    <3>2. i < j
      BY <1>16
    <3> QED BY <1>11, <3>1, <3>2
  <2>3. j \in W
    BY <1>10, <1>16, <2>2
  <2>4. start <= j /\ start \in Nat
    BY <1>11, <1>13, <2>3
  <2> QED BY <1>2, <2>4
<1>17. HasTarget(line) <=> \E i, j \in 1..n : i < j /\ line[i] = " " /\ line[j] # " "
  BY <1>1 DEF HasTarget
<1> QED BY <1>14, <1>15, <1>16, <1>17

\* The first line.
LEMMA FirstLine ==
  ASSUME NEW C, NEW buf \in Seq(C), CrlfAt(buf) # {}
  PROVE  /\ Search(buf, 1) = Min(CrlfAt(buf))
         /\ LineOf(buf, Min(CrlfAt(buf))) = SubSeq(buf, 1, Min(CrlfAt(buf)) - 1)
         /\ SubSeq(buf, 1, Min(CrlfAt(buf)) - 1) \in Seq(C)
<1>1. PICK K : K = CrlfAt(buf) /\ K # {} /\ K \subseteq Nat
  BY CrlfFacts
<1>2. PICK m : m = Min(K) /\ m \in K /\ \A j \in K : m <= j
  BY <1>1, MinIsLeast
<1>3. PICK one \in Nat : one = 1
  OBVIOUS
<1>4. m \in 1..(Len(buf) - 1) /\ EndsAt(buf, m) /\ Len(buf) \in Nat
  BY <1>1, <1>2, CrlfFacts
<1>5. \A i \in 1..(m - 1) : ~EndsAt(buf, i)
  <2>1. ASSUME NEW i \in 1..(m - 1), EndsAt(buf, i) PROVE FALSE
    <3>1. i \in 1..(Len(buf) - 1)
      BY <1>4
    <3>2. i \in K
      BY <1>1, <2>1, <3>1, CrlfFacts
    <3> QED BY <1>2, <1>4, <3>2
  <2> QED BY <2>1
<1>6. Search(buf, one) = m
  BY <1>3, <1>4, <1>5, SearchIs
<1>7. {x \in K : x < m} = {}
  BY <1>1, <1>2
<1>8. PICK I : I = {1} \cup {c + 2 : c \in {x \in K : x < m}}
  OBVIOUS
<1>9. I = {1}
  BY <1>7, <1>8
<1>10. Max(I) = 1
  <2>1. I \subseteq 1..one /\ one \in I /\ \A j \in I : j <= one
    BY <1>3, <1>9
  <2>2. Max(I) = one
    BY <2>1, MaxIs
  <2> QED BY <1>3, <2>2
<1>11. LineOf(buf, m) = SubSeq(buf, 1, m - 1)
  BY <1>1, <1>8, <1>10 DEF LineOf
<1>12. SubSeq(buf, one, m - 1) \in Seq(C)
  <2>1. \A i \in one..(m - 1) : buf[i] \in C
    <3>1. \A i \in one..(m - 1) : i \in 1..Len(buf)
      BY <1>3, <1>4
    <3> QED BY <3>1
  <2>2. m - 1 \in Int /\ one \in Int
    BY <1>4
  <2> QED BY <2>1, <2>2, SubSeqProperties
<1> QED BY <1>1, <1>2, <1>3, <1>6, <1>11, <1>12

\* Without a CRLF the search finds no line.
LEMMA NoLine ==
  ASSUME NEW C, NEW buf \in Seq(C), CrlfAt(buf) = {}
  PROVE  Search(buf, 1) > Len(buf)
<1>1. PICK c : c = Search(buf, 1) /\ IsSearch(c, buf, 1)
  BY SearchFacts
<1>2. c \in 0..(Len(buf) + 1) /\ (c <= Len(buf) => c \in 1..(Len(buf) - 1) /\ EndsAt(buf, c))
      /\ Len(buf) \in Nat
  BY <1>1 DEF IsSearch
<1>3. c <= Len(buf) => c \in CrlfAt(buf)
  BY <1>2, CrlfFacts
<1> QED BY <1>1, <1>2, <1>3

\* A verdict agrees with the reference.
Agrees(r, buf) ==
  IF HasHead(buf)
  THEN Declared(buf) \in 0..(Wrap - 1) =>
         /\ r.ok = IsWhole(buf)
         /\ r.ok => r.length = HeadEnd(buf) + 1 + Declared(buf)
  ELSE ~r.ok

\* For any buffer at all, what parseRequest returns agrees with the reference: complete
\* exactly when that is, and of that length.
THEOREM ParseIsReference ==
  ASSUME NEW C, NEW buf \in Seq(C), NEW ctx
  PROVE  Agrees(ParseRequest(ctx, buf).info, buf)
<1>1. PICK r : r = ParseRequest(ctx, buf).info
  OBVIOUS
<1>2. CASE CrlfAt(buf) = {}
  <2>1. ~HasHead(buf)
    BY <1>2 DEF HasHead
  <2>2. r = Incomplete
    BY <1>1, <1>2, NoLine DEF ParseRequest
  <2> QED BY <1>1, <2>1, <2>2, IncompleteWithin DEF Agrees
<1>3. CASE CrlfAt(buf) # {}
  <2>1. PICK m : m = Min(CrlfAt(buf))
    OBVIOUS
  <2>2. PICK line \in Seq(C) : line = SubSeq(buf, 1, m - 1) /\ line = LineOf(buf, m)
    BY <1>3, <2>1, FirstLine
  <2>3. m \in CrlfAt(buf) /\ \A b : b \in HeadersOf(buf) <=> b \in CrlfAt(buf) /\ m < b
    BY <1>3, <2>1, HeadersFacts
  <2>4. m \in 1..(Len(buf) - 1) /\ Len(buf) \in Nat /\ \A b \in CrlfAt(buf) : b \in 1..(Len(buf) - 1)
    BY <2>3, CrlfFacts
  <2>5. PICK s \in Loop : s = At(m + 2, 0) /\ s.it = m + 2 /\ s.bodySize = 0
    <3>1. m + 2 \in Nat /\ 0 \in Int
      BY <2>4
    <3> QED BY <3>1, AtFacts
  <2>6. r = IF PraseRequestLine(ctx, line).ok THEN ExpectHeaders(buf)[s] ELSE Incomplete
    <3>1. Search(buf, 1) = m /\ ~(m > Len(buf))
      BY <1>3, <2>1, <2>4, FirstLine
    <3> QED BY <1>1, <2>2, <2>5, <3>1 DEF ParseRequest
  <2>7. PraseRequestLine(ctx, line).ok <=> HasTarget(line)
    BY RequestLineOk
  <2>8. Past(buf, s, m)
    <3>1. \A b \in HeadersOf(buf) : ~(b <= m)
      <4>1. \A b \in HeadersOf(buf) : b \in CrlfAt(buf) /\ m < b
        BY <2>3
      <4>2. \A b \in HeadersOf(buf) : b \in Nat /\ m < b
        BY <2>4, <4>1
      <4> QED BY <2>4, <4>2
    <3>2. LengthsTo(buf, m) = {}
      BY <3>1 DEF LengthsTo
    <3>3. SizeOf(buf, LengthsTo(buf, m)) = 0 /\ 0 % Wrap = 0
      BY <3>2, ParserAssumption DEF SizeOf
    <3> QED BY <2>3, <2>5, <3>1, <3>3 DEF Past
  <2>9. IsReference(ExpectHeaders(buf)[s], buf)
    BY <2>8, ScanIsReference
  <2>10. HasHead(buf) <=> (\E b \in HeadersOf(buf) : ~HasColon(buf, b)) /\ HasTarget(line)
    <3>1. (\E b \in CrlfAt(buf) : (\E c \in CrlfAt(buf) : c < b) /\ ~HasColon(buf, b))
            <=> \E b \in HeadersOf(buf) : ~HasColon(buf, b)
      <4>1. \A b \in CrlfAt(buf) : (\E c \in CrlfAt(buf) : c < b) <=> m < b
        <5>1. CrlfAt(buf) \subseteq Nat
          BY <2>4
        <5>2. \A c \in CrlfAt(buf) : m <= c
          BY <1>3, <2>1, <5>1, MinIsLeast
        <5> QED BY <2>3, <2>4, <5>2
      <4> QED BY <2>3, <4>1
    <3> QED BY <2>1, <2>2, <3>1 DEF HasHead, HasTarget, HasColon
  <2>11. CASE ~HasHead(buf)
    <3>1. r = Incomplete
      BY <2>6, <2>7, <2>9, <2>10, <2>11 DEF IsReference
    <3> QED BY <1>1, <2>11, <3>1, IncompleteWithin DEF Agrees
  <2>12. CASE HasHead(buf)
    <3>1. r = ExpectBody(buf, HeadEnd(buf) + 2, Declared(buf) % Wrap)
      BY <2>6, <2>7, <2>9, <2>10, <2>12 DEF IsReference
    <3>2. PICK h \in 1..(Len(buf) - 1) : h = HeadEnd(buf)
      <4>1. PICK I : I = {b \in HeadersOf(buf) : ~HasColon(buf, b)}
        OBVIOUS
      <4>a. \A b \in HeadersOf(buf) : b \in CrlfAt(buf)
        BY <2>3
      <4>b. \A b \in HeadersOf(buf) : b \in 1..(Len(buf) - 1)
        BY <2>4, <4>a
      <4>2. I \subseteq Nat /\ I # {}
        <5>1. \A b \in I : b \in Nat
          BY <4>1, <4>b
        <5>2. \E b \in HeadersOf(buf) : ~HasColon(buf, b)
          BY <2>10, <2>12
        <5> QED BY <4>1, <5>1, <5>2
      <4>3. Min(I) \in I
        BY <4>2, MinIsLeast
      <4> QED BY <4>1, <4>3, <4>b DEF HeadEnd, HasColon
    <3>3. ASSUME Declared(buf) \in 0..(Wrap - 1)
          PROVE  /\ r.ok = IsWhole(buf)
                 /\ r.ok => r.length = HeadEnd(buf) + 1 + Declared(buf)
      <4>1. PICK n \in Nat : n = Declared(buf) /\ n % Wrap = n
        BY <3>3, ParserAssumption
      <4>2. r = ExpectBody(buf, h + 2, n)
        BY <3>1, <3>2, <4>1
      <4>3. IsWhole(buf) <=> Len(buf) >= h + 1 + n
        BY <3>2, <4>1 DEF IsWhole
      <4>4. IsWhole(buf) <=> n = 0 \/ Len(buf) - (h + 2 - 1) >= n
        BY <2>4, <3>2, <4>1, <4>3
      <4>5. h + 2 - 1 + n = h + 1 + n
        BY <3>2, <4>1
      <4>6. CASE IsWhole(buf)
        <5>0. n = 0 \/ Len(buf) - (h + 2 - 1) >= n
          BY <4>4, <4>6
        <5>1. r = [ok |-> TRUE, length |-> h + 2 - 1 + n]
          <6>1. ExpectBody(buf, h + 2, n) = [ok |-> TRUE, length |-> h + 2 - 1 + n]
            BY <5>0 DEF ExpectBody
          <6> QED BY <4>2, <6>1
        <5>2. r.ok = TRUE /\ r.length = h + 1 + n
          BY <4>5, <5>1
        <5>3. IsWhole(buf) = TRUE
          BY <4>6 DEF IsWhole
        <5> QED BY <3>2, <4>1, <5>2, <5>3
      <4>7. CASE ~IsWhole(buf)
        <5>0. ~(n = 0 \/ Len(buf) - (h + 2 - 1) >= n)
          BY <4>4, <4>7
        <5>1. r = Incomplete
          <6>1. ExpectBody(buf, h + 2, n) = Incomplete
            BY <5>0 DEF ExpectBody
          <6> QED BY <4>2, <6>1
        <5>2. r.ok = FALSE
          BY <5>1 DEF Incomplete
        <5>3. IsWhole(buf) = FALSE
          BY <4>7 DEF IsWhole
        <5> QED BY <5>2, <5>3
      <4> QED BY <4>6, <4>7
    <3> QED BY <1>1, <2>12, <3>3 DEF Agrees
  <2> QED BY <2>11, <2>12
<1> QED BY <1>2, <1>3

\* At every moment, for whatever has arrived: parseRequest finds a request complete exactly
\* when the reference does, and ends it where the reference does.
THEOREM ReferenceSafe == Spec => []ParsesAsReference
<1>1. LengthInv => ParsesAsReference
  <2> SUFFICES ASSUME LengthInv PROVE ParsesAsReference
    OBVIOUS
  <2>1. wire \in Seq(Chars) /\ rd \in Nat /\ at \in Nat /\ rd <= at /\ at <= Len(wire)
    BY DEF LengthInv, Wire, Positions
  <2>2. PICK buf \in Seq(Chars) : buf = Bytes(rd, at)
    BY <2>1, BytesFacts
  <2>3. Agrees(ParseRequest(Fresh, buf).info, buf)
    BY ParseIsReference
  <2> QED BY <2>2, <2>3 DEF Agrees, ParsesAsReference
<1> QED BY <1>1, AlwaysLength, PTL

-----------------------------------------------------------------------------
(* A well-formed request on its own *)

\* What a sequence contains, by its places.
LEMMA NotInRange ==
  ASSUME NEW C, NEW s \in Seq(C), NEW x
  PROVE  x \in Range(s) <=> \E j \in 1..Len(s) : s[j] = x
<1>1. DOMAIN s = 1..Len(s)
  BY LenProperties
<1> QED BY <1>1 DEF Range

\* One header h, between the end of a line at c and its own.
HeaderSize(h, b) ==
  IF IsPrefix(<<"Content-Length", ":">>, h) THEN Atoi(SubSeq(h, 3, Len(h))) ELSE b

\* A turn of the loop at a well-formed header ends at the next line.
LEMMA HeaderStep ==
  ASSUME NEW C, NEW buf \in Seq(C), NEW c \in CrlfAt(buf), NEW h \in Seq(C),
         CR \notin Range(h), ":" \in Range(h),
         \A j \in 1..Len(h) : buf[c + 1 + j] = h[j],
         c + 2 + Len(h) \in CrlfAt(buf), NEW b \in Int
  PROVE  ExpectHeaders(buf)[At(c + 2, b)] =
           ExpectHeaders(buf)[At(c + 2 + Len(h) + 2, HeaderSize(h, b))]
<1>1. PICK n \in Nat : n = Len(h)
  OBVIOUS
<1>2. PICK d \in CrlfAt(buf) : d = c + 2 + n
  BY <1>1
<1>3. /\ c \in 1..(Len(buf) - 1) /\ Len(buf) \in Nat
      /\ d \in 1..(Len(buf) - 1) /\ EndsAt(buf, d)
  BY <1>2, CrlfFacts
<1>4. \A j \in 1..n : h[j] # CR
  BY <1>1, NotInRange
<1>5. ASSUME NEW i \in (c + 2)..(d - 1) PROVE buf[i] # CR
  <2>1. i - (c + 1) \in 1..n /\ c + 1 + (i - (c + 1)) = i
    BY <1>2, <1>3
  <2> QED BY <1>1, <1>4, <2>1
<1>6. PICK it \in Nat : it = c + 2
  BY <1>3
<1>7. Search(buf, it) = d
  <2>1. d \in it..(Len(buf) - 1)
    BY <1>2, <1>3, <1>6
  <2>2. \A i \in it..(d - 1) : ~EndsAt(buf, i)
    BY <1>5, <1>6 DEF EndsAt
  <2> QED BY <1>3, <2>1, <2>2, SearchIs
<1>8. c < d /\ \A x \in CrlfAt(buf) : x < d => x <= c
  <2>1. c < d
    BY <1>2, <1>3
  <2>2. ASSUME NEW x \in CrlfAt(buf), x < d, ~(x <= c) PROVE FALSE
    <3>1. x \in 1..(Len(buf) - 1) /\ buf[x] = CR
      BY CrlfFacts DEF EndsAt
    <3>2. c < x
      BY <1>3, <2>2, <3>1
    <3>3. c + 2 <= x
      BY <3>2, CrlfApart
    <3>4. x \in (c + 2)..(d - 1)
      <4>1. x \in Int /\ x < d
        BY <2>2, <3>1
      <4> QED BY <1>3, <3>3, <4>1
    <3> QED BY <1>5, <3>1, <3>4
  <2> QED BY <2>1, <2>2
<1>9. LineOf(buf, d) = h
  <2>1. PICK line \in Seq(C) : /\ line = LineOf(buf, d) /\ Len(line) = d - (c + 2)
                               /\ \A j \in 1..(d - (c + 2)) : line[j] = buf[c + 1 + j]
    BY <1>8, LineFacts
  <2>2. d - (c + 2) = n
    BY <1>2, <1>3
  <2>3. \A j \in 1..Len(line) : line[j] = h[j]
    BY <1>1, <2>1, <2>2
  <2>4. line = h
    BY <1>1, <2>1, <2>2, <2>3, SeqEqual
  <2> QED BY <2>1, <2>4
<1>10. HasColon(buf, d)
  BY <1>9 DEF HasColon
<1>11. Colon(buf, c + 2, d) # d
  BY <1>2, <1>8, <1>10, ColonOfLine
<1>12. PICK s \in Loop : s = At(c + 2, b) /\ s.it = c + 2 /\ s.bodySize = b
  BY <1>6, AtFacts
<1>13. ~Stops(buf, s)
  BY <1>3, <1>6, <1>7, <1>11, <1>12 DEF Stops
<1>14. ExpectHeaders(buf)[s] = ExpectHeaders(buf)[After(buf, s)]
  BY <1>13, ScanFacts
<1>15. BodySize(buf, s, d) = IF IsLength(buf, d) THEN Atoi(LengthText(buf, d)) ELSE b
  BY <1>2, <1>8, <1>10, <1>12, LengthLine
<1>16. BodySize(buf, s, d) = HeaderSize(h, b)
  BY <1>9, <1>15 DEF IsLength, LengthText, HeaderSize
<1>17. After(buf, s) = At(d + 2, HeaderSize(h, b))
  BY <1>6, <1>7, <1>12, <1>16 DEF After
<1> QED BY <1>1, <1>2, <1>12, <1>14, <1>17

\* The empty line, and the body behind it.
LEMMA LastStep ==
  ASSUME NEW C, NEW buf \in Seq(C), NEW c \in CrlfAt(buf), c + 2 \in CrlfAt(buf),
         NEW b \in Nat, Len(buf) = c + 3 + b
  PROVE  ExpectHeaders(buf)[At(c + 2, b)] = [ok |-> TRUE, length |-> Len(buf)]
<1>1. PICK d \in Nat : d = c + 2
  BY CrlfFacts
<1>2. d \in 1..(Len(buf) - 1) /\ EndsAt(buf, d) /\ Len(buf) \in Nat /\ Len(buf) = d + 1 + b
  BY <1>1, CrlfFacts
<1>3. Search(buf, d) = d
  <2>1. d \in d..(Len(buf) - 1) /\ \A i \in d..(d - 1) : ~EndsAt(buf, i)
    BY <1>2
  <2> QED BY <1>2, <2>1, SearchIs
<1>4. Colon(buf, d, d) = d
  <2>1. IsColon(Colon(buf, d, d), buf, d, d)
    BY ColonFacts
  <2> QED BY <2>1 DEF IsColon
<1>5. PICK s \in Loop : s = At(c + 2, b) /\ s.it = d /\ s.bodySize = b
  BY <1>1, AtFacts
<1>6. Stops(buf, s) /\ ~(Search(buf, s.it) > Len(buf))
  BY <1>2, <1>3, <1>4, <1>5 DEF Stops
<1>7. ExpectHeaders(buf)[s] = ExpectBody(buf, d + 2, b)
  BY <1>3, <1>5, <1>6, ScanFacts
<1>8. Len(buf) - (d + 2 - 1) >= b /\ d + 2 - 1 + b = Len(buf)
  BY <1>2
<1>9. ExpectBody(buf, d + 2, b) = [ok |-> TRUE, length |-> d + 2 - 1 + b]
  BY <1>8 DEF ExpectBody
<1> QED BY <1>5, <1>7, <1>8, <1>9

\* The first n headers stand in buf, the line before them and each of them ending at e.
HeadersAt(buf, C, hs, e, n) ==
  /\ e \in [0..n -> Nat] /\ \A i \in 0..n : e[i] \in CrlfAt(buf)
  /\ \A i \in 1..n : /\ hs[i] \in Seq(C) /\ CR \notin Range(hs[i]) /\ ":" \in Range(hs[i])
                     /\ e[i] = e[i - 1] + 2 + Len(hs[i])
                     /\ \A j \in 1..Len(hs[i]) : buf[e[i - 1] + 1 + j] = hs[i][j]
\* The loop that starts behind c0 comes to the line behind e[n] with what they declare.
RunsTo(buf, c0, hs, e, n) ==
  ExpectHeaders(buf)[At(c0 + 2, 0)] = ExpectHeaders(buf)[At(e[n] + 2, DeclaredIn(hs, n) % Wrap)]

\* The header loop goes through all well-formed headers, by induction on their number.
LEMMA HeadersRun ==
  ASSUME NEW C, NEW buf \in Seq(C), NEW n \in Nat, NEW c0 \in Nat, NEW hs, NEW e,
         e[0] = c0, HeadersAt(buf, C, hs, e, n)
  PROVE  RunsTo(buf, c0, hs, e, n)
<1>0. /\ e \in [0..n -> Nat] /\ \A i \in 0..n : e[i] \in CrlfAt(buf)
      /\ \A i \in 1..n : /\ hs[i] \in Seq(C) /\ CR \notin Range(hs[i]) /\ ":" \in Range(hs[i])
                         /\ e[i] = e[i - 1] + 2 + Len(hs[i])
                         /\ \A j \in 1..Len(hs[i]) : buf[e[i - 1] + 1 + j] = hs[i][j]
  BY DEF HeadersAt
<1> DEFINE P == {i \in Nat : ExpectHeaders(buf)[At(c0 + 2, 0)] =
                              ExpectHeaders(buf)[At(e[i] + 2, DeclaredIn(hs, i) % Wrap)]}
<1>1. PICK z \in Nat : z = 0
  OBVIOUS
<1>2. z \in P
  <2>1. LengthsIn(hs, 0) = {}
    BY DEF LengthsIn
  <2>2. DeclaredIn(hs, 0) = 0 /\ 0 % Wrap = 0
    BY <2>1, ParserAssumption DEF DeclaredIn
  <2> QED BY <1>1, <2>2
<1>3. ASSUME NEW i \in z..n, i \in P, i < n PROVE i + 1 \in P
  <2>0. i < n
    BY <1>3
  <2>1. i \in 0..n /\ i + 1 \in 1..n /\ (i + 1) - 1 = i /\ i + 1 \in Nat /\ i \in Nat
    BY <1>1, <2>0
  <2>2. PICK c \in CrlfAt(buf) : c = e[i]
    BY <1>0, <2>1
  <2>3. PICK h \in Seq(C) : h = hs[i + 1]
    BY <1>0, <2>1
  <2>4. /\ CR \notin Range(h) /\ ":" \in Range(h) /\ e[i + 1] = c + 2 + Len(h)
        /\ \A j \in 1..Len(h) : buf[c + 1 + j] = h[j]
    BY <1>0, <2>1, <2>2, <2>3
  <2>5. c + 2 + Len(h) \in CrlfAt(buf)
    <3>1. i + 1 \in 0..n
      BY <2>1
    <3> QED BY <1>0, <2>4, <3>1
  <2>6. \A k \in 1..n : hs[k] \in Seq(C)
    BY <1>0
  <2>7. DeclaredIn(hs, i) % Wrap \in Int /\
        HeaderSize(h, DeclaredIn(hs, i) % Wrap) = DeclaredIn(hs, i + 1) % Wrap
    <3>1. LengthsIn(hs, i) \subseteq 1..i /\ LengthsIn(hs, i + 1) \subseteq 1..(i + 1)
      BY DEF LengthsIn
    <3>2. DeclaredIn(hs, i) \in Int
      <4>1. CASE LengthsIn(hs, i) = {}
        BY <4>1 DEF DeclaredIn
      <4>2. CASE LengthsIn(hs, i) # {}
        <5>1. Max(LengthsIn(hs, i)) \in LengthsIn(hs, i)
          BY <2>1, <3>1, <4>2, MaxIsGreatest
        <5>2. PICK k \in 1..n : k = Max(LengthsIn(hs, i))
          BY <2>1, <3>1, <5>1
        <5>3. PICK t \in Seq(C) : t = hs[k]
          BY <2>6
        <5>4. SubSeq(t, 3, Len(t)) \in Seq(C)
          <6>1. PICK three \in Int : three = 3
            OBVIOUS
          <6>2. \A x \in three..Len(t) : t[x] \in C
            <7>1. \A x \in three..Len(t) : x \in 1..Len(t)
              BY <6>1
            <7> QED BY <7>1
          <6>3. SubSeq(t, three, Len(t)) \in Seq(C)
            BY <6>2, SubSeqProperties
          <6> QED BY <6>1, <6>3
        <5>5. Number(SubSeq(t, 3, Len(t))) \in Int
          BY <5>4, NumberType
        <5> QED BY <4>2, <5>2, <5>3, <5>5 DEF DeclaredIn
      <4> QED BY <4>1, <4>2
    <3>3. DeclaredIn(hs, i) % Wrap \in Int
      BY <3>2, ParserAssumption
    <3>4. CASE IsPrefix(<<"Content-Length", ":">>, h)
      <4>1. i + 1 \in LengthsIn(hs, i + 1)
        BY <2>1, <2>3, <3>4 DEF LengthsIn
      <4>2. Max(LengthsIn(hs, i + 1)) = i + 1
        <5>1. PICK L : L = LengthsIn(hs, i + 1) /\ i + 1 \in L /\ L \subseteq 1..(i + 1)
          BY <3>1, <4>1
        <5>2. \A k \in L : k <= i + 1
          BY <2>1, <5>1
        <5>3. Max(L) = i + 1
          BY <2>1, <5>1, <5>2, MaxIs
        <5> QED BY <5>1, <5>3
      <4>3. DeclaredIn(hs, i + 1) = Number(SubSeq(h, 3, Len(h)))
        BY <2>3, <4>1, <4>2 DEF DeclaredIn
      <4> QED BY <3>3, <3>4, <4>3 DEF HeaderSize, Atoi
    <3>5. CASE ~IsPrefix(<<"Content-Length", ":">>, h)
      <4>1. \A k \in 1..(i + 1) : k \in 1..i \/ k = i + 1
        BY <2>1
      <4>2. \A k \in 1..i : k \in 1..(i + 1)
        BY <2>1
      <4>3. LengthsIn(hs, i + 1) = LengthsIn(hs, i)
        BY <2>3, <3>5, <4>1, <4>2 DEF LengthsIn
      <4>4. DeclaredIn(hs, i + 1) = DeclaredIn(hs, i)
        BY <4>3 DEF DeclaredIn
      <4> QED BY <3>3, <3>5, <4>4 DEF HeaderSize
    <3> QED BY <3>4, <3>5
  <2>8. PICK b \in Int : b = DeclaredIn(hs, i) % Wrap /\
                          HeaderSize(h, b) = DeclaredIn(hs, i + 1) % Wrap
    BY <2>7
  <2>9. ExpectHeaders(buf)[At(c + 2, b)] =
          ExpectHeaders(buf)[At(c + 2 + Len(h) + 2, HeaderSize(h, b))]
    BY <2>4, <2>5, HeaderStep
  <2>10. ExpectHeaders(buf)[At(c0 + 2, 0)] = ExpectHeaders(buf)[At(e[i] + 2, DeclaredIn(hs, i) % Wrap)]
    BY <1>3
  <2>11. ExpectHeaders(buf)[At(c0 + 2, 0)] =
           ExpectHeaders(buf)[At(e[i + 1] + 2, DeclaredIn(hs, i + 1) % Wrap)]
    BY <2>2, <2>4, <2>8, <2>9, <2>10
  <2> QED BY <2>1, <2>11
<1>4. z..n \subseteq P
  <2>1. \A i \in z..n : i \in P /\ i < n => i + 1 \in P
    BY <1>3
  <2> HIDE DEF P
  <2> QED BY <1>2, <2>1, IntervalInduction
<1>5. n \in P
  BY <1>1, <1>4
<1> QED BY <1>5 DEF RunsTo

\* Two sequences one behind the other.
LEMMA JoinFacts ==
  ASSUME NEW C, NEW s \in Seq(C), NEW e \in Seq(C)
  PROVE  s \o e \in Seq(C) /\ IsJoined(s \o e, s, e)
<1>1. PICK t : t = s \o e
  OBVIOUS
<1>2. /\ t \in Seq(C) /\ Len(t) = Len(s) + Len(e) /\ Len(s) \in Nat /\ Len(e) \in Nat
      /\ \A j \in 1..(Len(s) + Len(e)) : t[j] = IF j <= Len(s) THEN s[j] ELSE e[j - Len(s)]
  BY <1>1, ConcatProperties
<1>3. \A j \in 1..Len(s) : t[j] = s[j]
  BY <1>2
<1>4. ASSUME NEW j \in 1..Len(e) PROVE t[Len(s) + j] = e[j]
  <2>1. /\ Len(s) + j \in 1..(Len(s) + Len(e)) /\ ~(Len(s) + j <= Len(s))
        /\ Len(s) + j - Len(s) = j
    BY <1>2
  <2> QED BY <1>2, <2>1
<1> QED BY <1>1, <1>2, <1>3, <1>4 DEF IsJoined

\* CRLF is two tokens.
LEMMA CrlfIs == Crlf \in Seq(Chars) /\ Len(Crlf) = 2 /\ Crlf[1] = CR /\ Crlf[2] = LF
<1>1. Crlf \in Seq(Chars)
  BY CharFacts
<1>2. CR \in Chars /\ LF \in Chars
  BY DEF Chars
<1> QED BY <1>1, <1>2, TupleFacts DEF Crlf

\* The parts of a request line.
IsRequestLine(a, m) ==
  LET x == Len(m.method)
      y == Len(m.target)
  IN /\ Len(a) = x + 1 + y + 2
     /\ \A j \in 1..x : a[j] = m.method[j]
     /\ a[x + 1] = " "
     /\ \A j \in 1..y : a[x + 1 + j] = m.target[j]
     /\ a[x + 1 + y + 1] = " " /\ a[x + 1 + y + 2] = "HTTP/1.1"

RequestLine(m) == m.method \o <<" ">> \o m.target \o <<" ", "HTTP/1.1">>

\* The request line of a request, token by token.
LEMMA RequestLineIs ==
  ASSUME NEW m \in Requests
  PROVE  RequestLine(m) \in Seq(Chars) /\ IsRequestLine(RequestLine(m), m)
<1>1. m.method \in Seq(STRING) /\ m.target \in Seq(STRING)
  BY ParserAssumption
<1>2. PICK me \in Seq(Chars) : me = m.method
  BY <1>1, CharFacts
<1>3. PICK ta \in Seq(Chars) : ta = m.target
  BY <1>1, CharFacts
<1>4. PICK blank \in Chars : blank = " "
  BY DEF Chars
<1>5. PICK version \in Chars : version = "HTTP/1.1"
  BY DEF Chars
<1>6. PICK b1 \in Seq(Chars) : b1 = <<blank>> /\ Len(b1) = 1 /\ b1[1] = blank
  BY TupleFacts
<1>7. PICK b2 \in Seq(Chars) : /\ b2 = <<blank, version>> /\ Len(b2) = 2 /\ b2[1] = blank
                              /\ b2[2] = version
  <2>1. /\ <<blank, version>> \in Seq(Chars) /\ Len(<<blank, version>>) = 2
        /\ <<blank, version>>[1] = blank /\ <<blank, version>>[2] = version
    BY TupleFacts
  <2> QED BY <2>1
<1>8. PICK u \in Seq(Chars) : u = me \o b1 /\ IsJoined(u, me, b1)
  BY JoinFacts
<1>9. PICK v \in Seq(Chars) : v = u \o ta /\ IsJoined(v, u, ta)
  BY JoinFacts
<1>10. PICK w \in Seq(Chars) : w = v \o b2 /\ IsJoined(w, v, b2)
  BY JoinFacts
<1>11. PICK x \in Nat : x = Len(me)
  OBVIOUS
<1>12. PICK y \in Nat : y = Len(ta)
  OBVIOUS
<1>13. Len(u) = x + 1 /\ (\A j \in 1..x : u[j] = me[j]) /\ u[x + 1] = blank
  <2>1. 1 \in 1..1
    OBVIOUS
  <2> QED BY <1>6, <1>8, <1>11, <2>1 DEF IsJoined
<1>14. /\ Len(v) = x + 1 + y /\ (\A j \in 1..(x + 1) : v[j] = u[j])
       /\ \A j \in 1..y : v[x + 1 + j] = ta[j]
  BY <1>9, <1>12, <1>13 DEF IsJoined
<1>15. /\ Len(w) = x + 1 + y + 2 /\ (\A j \in 1..(x + 1 + y) : w[j] = v[j])
       /\ \A j \in 1..2 : w[x + 1 + y + j] = b2[j]
  BY <1>7, <1>10, <1>14 DEF IsJoined
<1>16. w[x + 1 + y + 1] = blank /\ w[x + 1 + y + 2] = version
  <2>1. 1 \in 1..2 /\ 2 \in 1..2
    OBVIOUS
  <2> QED BY <1>7, <1>15, <2>1
<1>17. \A j \in 1..y : w[x + 1 + j] = ta[j]
  <2>1. \A j \in 1..y : x + 1 + j \in 1..(x + 1 + y)
    OBVIOUS
  <2> QED BY <1>14, <1>15, <2>1
<1>18. (\A j \in 1..x : w[j] = me[j]) /\ w[x + 1] = blank
  <2>1. x + 1 \in 1..(x + 1 + y) /\ x + 1 \in 1..(x + 1)
        /\ \A j \in 1..x : j \in 1..(x + 1) /\ j \in 1..(x + 1 + y)
    OBVIOUS
  <2> QED BY <1>13, <1>14, <1>15, <2>1
<1>19. w = RequestLine(m)
  BY <1>2, <1>3, <1>4, <1>5, <1>6, <1>7, <1>8, <1>9, <1>10 DEF RequestLine
<1>20. IsRequestLine(w, m)
  BY <1>2, <1>3, <1>4, <1>5, <1>11, <1>12, <1>15, <1>16, <1>17, <1>18 DEF IsRequestLine
<1> QED BY <1>19, <1>20

\* The parts of a request: its line a, its headers f, the empty line and the body.
IsRequest(buf, a, f, body) ==
  LET p == Len(a)
      q == Len(f)
  IN /\ Len(buf) = p + 2 + q + 2 + Len(body)
     /\ \A j \in 1..p : buf[j] = a[j]
     /\ EndsAt(buf, p + 1)
     /\ \A j \in 1..q : buf[p + 2 + j] = f[j]
     /\ EndsAt(buf, p + 2 + q + 1)

\* A request, token by token: its line, its headers, the blank line and the body.
LEMMA RenderIs ==
  ASSUME NEW m \in Requests
  PROVE  /\ Render(m) \in Seq(Chars)
         /\ IsRequest(Render(m), RequestLine(m), Flat(Lines(m), Len(m.headers)), m.body)
<1>1. PICK body \in Seq(Chars) : body = m.body
  <2>1. m.body \in Seq(STRING)
    BY ParserAssumption
  <2> QED BY <2>1, CharFacts
<1>2. PICK a \in Seq(Chars) : a = RequestLine(m)
  BY RequestLineIs
<1>3. PICK f \in Seq(Chars) : f = Flat(Lines(m), Len(m.headers)) /\ f = FlattenSeq(Lines(m))
  BY LinesType, FlatAll
<1>4. PICK e \in Seq(Chars) : e = Crlf /\ Len(e) = 2 /\ e[1] = CR /\ e[2] = LF
  BY CrlfIs
<1>5. PICK t1 \in Seq(Chars) : t1 = a \o e /\ IsJoined(t1, a, e)
  BY JoinFacts
<1>6. PICK t2 \in Seq(Chars) : t2 = t1 \o f /\ IsJoined(t2, t1, f)
  BY JoinFacts
<1>7. PICK t3 \in Seq(Chars) : t3 = t2 \o e /\ IsJoined(t3, t2, e)
  BY JoinFacts
<1>8. PICK t4 \in Seq(Chars) : t4 = t3 \o body /\ IsJoined(t4, t3, body)
  BY JoinFacts
<1>9. t4 = Render(m)
  BY <1>1, <1>2, <1>3, <1>4, <1>5, <1>6, <1>7, <1>8 DEF Render, RequestLine, Lines
<1>10. PICK p \in Nat : p = Len(a)
  OBVIOUS
<1>11. PICK q \in Nat : q = Len(f)
  OBVIOUS
<1>a. 1 \in 1..2 /\ 2 \in 1..2
  OBVIOUS
<1>12. Len(t1) = p + 2 /\ (\A j \in 1..p : t1[j] = a[j]) /\ t1[p + 1] = CR /\ t1[p + 2] = LF
  BY <1>4, <1>5, <1>10, <1>a DEF IsJoined
<1>13. /\ Len(t2) = p + 2 + q /\ (\A j \in 1..(p + 2) : t2[j] = t1[j])
       /\ \A j \in 1..q : t2[p + 2 + j] = f[j]
  BY <1>6, <1>11, <1>12 DEF IsJoined
<1>14. /\ Len(t3) = p + 2 + q + 2 /\ (\A j \in 1..(p + 2 + q) : t3[j] = t2[j])
       /\ t3[p + 2 + q + 1] = CR /\ t3[p + 2 + q + 2] = LF
  BY <1>4, <1>7, <1>13, <1>a DEF IsJoined
<1>15. /\ Len(t4) = p + 2 + q + 2 + Len(body) /\ \A j \in 1..(p + 2 + q + 2) : t4[j] = t3[j]
  BY <1>8, <1>14 DEF IsJoined
<1>16. \A j \in 1..p : t4[j] = a[j]
  <2>1. \A j \in 1..p : j \in 1..(p + 2) /\ j \in 1..(p + 2 + q) /\ j \in 1..(p + 2 + q + 2)
    OBVIOUS
  <2> QED BY <1>12, <1>13, <1>14, <1>15, <2>1
<1>17. EndsAt(t4, p + 1)
  <2>1. /\ p + 1 \in 1..(p + 2) /\ p + 1 \in 1..(p + 2 + q) /\ p + 1 \in 1..(p + 2 + q + 2)
        /\ p + 2 \in 1..(p + 2) /\ p + 2 \in 1..(p + 2 + q) /\ p + 2 \in 1..(p + 2 + q + 2)
        /\ p + 1 + 1 = p + 2
    OBVIOUS
  <2>2. t4[p + 1] = CR /\ t4[p + 2] = LF
    BY <1>12, <1>13, <1>14, <1>15, <2>1
  <2> QED BY <2>1, <2>2 DEF EndsAt
<1>18. \A j \in 1..q : t4[p + 2 + j] = f[j]
  <2>1. \A j \in 1..q : p + 2 + j \in 1..(p + 2 + q) /\ p + 2 + j \in 1..(p + 2 + q + 2)
    OBVIOUS
  <2> QED BY <1>13, <1>14, <1>15, <2>1
<1>19. EndsAt(t4, p + 2 + q + 1)
  <2>1. /\ p + 2 + q + 1 \in 1..(p + 2 + q + 2) /\ p + 2 + q + 2 \in 1..(p + 2 + q + 2)
        /\ p + 2 + q + 1 + 1 = p + 2 + q + 2
    OBVIOUS
  <2>2. t4[p + 2 + q + 1] = CR /\ t4[p + 2 + q + 2] = LF
    BY <1>14, <1>15, <2>1
  <2> QED BY <2>1, <2>2 DEF EndsAt
<1>20. IsRequest(t4, a, f, body)
  BY <1>10, <1>11, <1>15, <1>16, <1>17, <1>18, <1>19 DEF IsRequest
<1> QED BY <1>1, <1>2, <1>3, <1>9, <1>20

\* What First returns when a first position is known.
LEMMA FirstIs ==
  ASSUME NEW end \in Nat, NEW S, S \subseteq Nat, NEW k \in S, k <= end, \A i \in S : k <= i
  PROVE  First(S, end) = k
<1>1. PICK I : I = S \cup {end}
  OBVIOUS
<1>2. I \subseteq Nat /\ k \in I /\ \A i \in I : k <= i
  BY <1>1
<1>3. Min(I) = k
  BY <1>2, MinIs
<1> QED BY <1>1, <1>3 DEF First

\* A part of a sequence that is equal to another sequence.
IsPart(s, t, d) == SubSeq(s, d + 1, d + Len(t)) = t

\* A sequence found token by token in another one is a part of it.
LEMMA PartIs ==
  ASSUME NEW C, NEW s, NEW t \in Seq(C), NEW d \in Nat, \A j \in 1..Len(t) : s[d + j] = t[j]
  PROVE  IsPart(s, t, d)
<1>1. PICK one \in Int : one = 1
  OBVIOUS
<1>2. PICK n \in Int : n = Len(t)
  OBVIOUS
<1>3. \A j \in one..n : s[j + d] = t[j]
  <2>1. \A j \in one..n : j \in 1..Len(t) /\ j + d = d + j
    BY <1>1, <1>2
  <2> QED BY <2>1
<1>4. SamePart(t, s, one, n, d)
  BY <1>3, SameParts
<1>5. one + d = d + 1 /\ n + d = d + Len(t)
  BY <1>1, <1>2
<1>6. SubSeq(t, 1, Len(t)) = t
  BY SubSeqFull
<1> QED BY <1>1, <1>2, <1>4, <1>5, <1>6 DEF SamePart, IsPart

\* praseRequestLine finds method and url of a well-formed request line.
LEMMA RequestLineParsed ==
  ASSUME NEW m \in Requests
  PROVE  PraseRequestLine(Fresh, RequestLine(m)) =
           [ok |-> TRUE, context |-> [method |-> m.method, url |-> m.target]]
<1>1. PICK a \in Seq(Chars) : a = RequestLine(m) /\ IsRequestLine(a, m)
  BY RequestLineIs
<1>2. m.method \in Seq(STRING) /\ m.target \in Seq(STRING)
  BY ParserAssumption
<1>3. PICK me \in Seq(STRING) : me = m.method
  BY <1>2
<1>4. PICK ta \in Seq(STRING) : ta = m.target
  BY <1>2
<1>5. PICK x \in Nat : x = Len(me)
  OBVIOUS
<1>6. PICK y \in Nat : y = Len(ta)
  OBVIOUS
<1>7. y # 0
  <2>1. ta # <<>>
    BY <1>4, RequestAssumption DEF WellFormed
  <2> QED BY <1>6, <2>1, EmptySeq
<1>8. (\A j \in 1..x : me[j] # " ") /\ \A j \in 1..y : ta[j] # " "
  <2>1. " " \notin Range(me) /\ " " \notin Range(ta)
    BY <1>3, <1>4, RequestAssumption DEF WellFormed
  <2>2. \A j \in 1..Len(me) : me[j] # " "
    BY <2>1, NotInRange
  <2>3. \A j \in 1..Len(ta) : ta[j] # " "
    BY <2>1, NotInRange
  <2> QED BY <1>5, <1>6, <2>2, <2>3
<1>9. /\ Len(a) = x + 1 + y + 2 /\ (\A j \in 1..x : a[j] = me[j]) /\ a[x + 1] = " "
      /\ (\A j \in 1..y : a[x + 1 + j] = ta[j]) /\ a[x + 1 + y + 1] = " "
  BY <1>1, <1>3, <1>4, <1>5, <1>6 DEF IsRequestLine
<1>10. PICK n \in Nat : n = x + 1 + y + 2 /\ n = Len(a)
  <2>1. Len(a) = x + 1 + y + 2
    BY <1>9
  <2> QED BY <2>1
<1>11. PICK end \in Nat : end = n + 1
  OBVIOUS
<1>12. First({i \in 1..n : a[i] = " "}, end) = x + 1
  <2>1. PICK S : S = {i \in 1..n : a[i] = " "}
    OBVIOUS
  <2>2. \A i \in S : i \in 1..n /\ a[i] = " "
    BY <2>1
  <2>3. x + 1 \in 1..n /\ x + 1 <= end
    BY <1>10, <1>11
  <2>4. x + 1 \in S
    BY <1>9, <2>1, <2>3
  <2>5. \A i \in S : ~(i \in 1..x)
    BY <1>8, <1>9, <2>2
  <2>6. \A i \in S : i \in Nat /\ x + 1 <= i
    <3>1. \A i \in S : i \in 1..n
      BY <2>2
    <3> QED BY <2>5, <3>1
  <2>7. First(S, end) = x + 1
    BY <2>3, <2>4, <2>6, FirstIs
  <2> QED BY <2>1, <2>7
<1>13. First({i \in (x + 1)..n : a[i] # " "}, end) = x + 2
  <2>1. PICK S : S = {i \in (x + 1)..n : a[i] # " "}
    OBVIOUS
  <2>2. \A i \in S : i \in (x + 1)..n /\ a[i] # " "
    BY <2>1
  <2>3. x + 2 \in (x + 1)..n /\ x + 2 <= end /\ 1 \in 1..y /\ x + 1 + 1 = x + 2
    BY <1>7, <1>10, <1>11
  <2>4. x + 2 \in S
    <3>1. a[x + 2] = ta[1] /\ ta[1] # " "
      BY <1>8, <1>9, <2>3
    <3> QED BY <2>1, <2>3, <3>1
  <2>5. \A i \in S : i # x + 1
    BY <1>9, <2>2
  <2>6. \A i \in S : i \in Nat /\ x + 2 <= i
    <3>1. \A i \in S : i \in (x + 1)..n
      BY <2>2
    <3> QED BY <2>5, <3>1
  <2>7. First(S, end) = x + 2
    BY <2>3, <2>4, <2>6, FirstIs
  <2> QED BY <2>1, <2>7
<1>14. First({i \in (x + 2)..n : a[i] = " "}, end) = x + 1 + y + 1
  <2>1. PICK S : S = {i \in (x + 2)..n : a[i] = " "}
    OBVIOUS
  <2>2. \A i \in S : i \in (x + 2)..n /\ a[i] = " "
    BY <2>1
  <2>3. x + 1 + y + 1 \in (x + 2)..n /\ x + 1 + y + 1 <= end
    BY <1>7, <1>10, <1>11
  <2>4. x + 1 + y + 1 \in S
    BY <1>9, <2>1, <2>3
  <2>5. ASSUME NEW i \in S PROVE ~(i \in (x + 2)..(x + 1 + y))
    <3> SUFFICES ASSUME i \in (x + 2)..(x + 1 + y) PROVE FALSE
      OBVIOUS
    <3>1. i - (x + 1) \in 1..y /\ x + 1 + (i - (x + 1)) = i
      OBVIOUS
    <3>2. a[i] = ta[i - (x + 1)] /\ ta[i - (x + 1)] # " "
      BY <1>8, <1>9, <3>1
    <3> QED BY <2>2, <3>2
  <2>6. \A i \in S : i \in Nat /\ x + 1 + y + 1 <= i
    <3>1. \A i \in S : i \in (x + 2)..n
      BY <2>2
    <3> QED BY <2>5, <3>1
  <2>7. First(S, end) = x + 1 + y + 1
    BY <2>3, <2>4, <2>6, FirstIs
  <2> QED BY <2>1, <2>7
<1>15. SubSeq(a, 1, x + 1 - 1) = me
  <2>1. PICK z \in Nat : z = 0
    OBVIOUS
  <2>2. \A j \in 1..Len(me) : a[z + j] = me[j]
    <3>1. \A j \in 1..Len(me) : z + j = j /\ j \in 1..x
      BY <1>5, <2>1
    <3> QED BY <1>9, <3>1
  <2>3. IsPart(a, me, z)
    BY <2>2, PartIs
  <2>4. z + 1 = 1 /\ z + Len(me) = x + 1 - 1
    BY <1>5, <2>1
  <2> QED BY <2>3, <2>4 DEF IsPart
<1>16. SubSeq(a, x + 2, x + 1 + y + 1 - 1) = ta
  <2>1. PICK z \in Nat : z = x + 1
    OBVIOUS
  <2>2. \A j \in 1..Len(ta) : a[z + j] = ta[j]
    BY <1>6, <1>9, <2>1
  <2>3. IsPart(a, ta, z)
    BY <2>2, PartIs
  <2>4. z + 1 = x + 2 /\ z + Len(ta) = x + 1 + y + 1 - 1
    BY <1>6, <2>1
  <2> QED BY <2>3, <2>4 DEF IsPart
<1>17. <<>> \o me = me /\ <<>> \o ta = ta
  BY ConcatEmptySeq
<1>18. x + 2 < end
  BY <1>10, <1>11
<1>19. PraseRequestLine(Fresh, a) =
         [ok |-> x + 2 < end,
          context |-> [method |-> Fresh.method \o SubSeq(a, 1, x + 1 - 1),
                       url |-> Fresh.url \o SubSeq(a, x + 2, x + 1 + y + 1 - 1)]]
  <2>1. PICK blank : blank = x + 1 /\ blank = First({i \in 1..n : a[i] = " "}, end)
    BY <1>12
  <2>2. PICK start : start = x + 2 /\ start = First({i \in blank..n : a[i] # " "}, end)
    BY <1>13, <2>1
  <2>3. PICK stop : stop = x + 1 + y + 1 /\ stop = First({i \in start..n : a[i] = " "}, end)
    BY <1>14, <2>2
  <2>4. /\ blank = First({i \in 1..Len(a) : a[i] = " "}, Len(a) + 1)
        /\ start = First({i \in blank..Len(a) : a[i] # " "}, Len(a) + 1)
        /\ stop = First({i \in start..Len(a) : a[i] = " "}, Len(a) + 1) /\ end = Len(a) + 1
    BY <1>10, <1>11, <2>1, <2>2, <2>3
  <2>5. PraseRequestLine(Fresh, a) =
          [ok |-> start < end,
           context |-> [method |-> Fresh.method \o SubSeq(a, 1, blank - 1),
                        url |-> Fresh.url \o SubSeq(a, start, stop - 1)]]
    BY <2>4 DEF PraseRequestLine
  <2>6. blank = x + 1 /\ start = x + 2 /\ stop = x + 1 + y + 1
    BY <2>1, <2>2, <2>3
  <2>7. (start < end) = (x + 2 < end) /\ blank - 1 = x + 1 - 1 /\ stop - 1 = x + 1 + y + 1 - 1
    BY <2>6
  <2> QED BY <2>5, <2>6, <2>7, Zenon
<1>20. Fresh.method = <<>> /\ Fresh.url = <<>>
  BY DEF Fresh
<1>21. (x + 2 < end) = TRUE
  BY <1>18
<1> QED BY <1>1, <1>3, <1>4, <1>15, <1>16, <1>17, <1>19, <1>20, <1>21

\* Header h with its CRLF stands in f behind the first o bytes.
HeaderIn(f, o, h) ==
  /\ o + Len(h) + 2 <= Len(f)
  /\ \A j \in 1..Len(h) : f[o + j] = h[j]
  /\ f[o + Len(h) + 1] = CR /\ f[o + Len(h) + 2] = LF

\* Each header stands behind those before it, followed by its CRLF.
LEMMA HeaderIsIn ==
  ASSUME NEW m \in Requests, NEW i \in 0..Len(m.headers), i < Len(m.headers)
  PROVE  /\ m.headers[i + 1] \in Seq(Chars)
         /\ Len(Flat(Lines(m), i)) \in Nat
         /\ Len(Flat(Lines(m), i + 1)) = Len(Flat(Lines(m), i)) + Len(m.headers[i + 1]) + 2
         /\ HeaderIn(Flat(Lines(m), Len(m.headers)), Len(Flat(Lines(m), i)), m.headers[i + 1])
<1>1. Len(m.headers) \in Nat
  BY LinesType
<1>2. PICK n \in Nat \ {0} : n = Len(m.headers) /\ i < n
  BY <1>1
<1>3. PICK g \in [1..n -> Seq(Chars)] : g = Lines(m)
  BY <1>2, LinesType
<1>4. i \in 0..n /\ i + 1 \in 0..n /\ i + 1 \in 1..n
  BY <1>2
<1>5. PICK h \in Seq(Chars) : h = m.headers[i + 1]
  <2>1. m.headers \in Seq(Seq(STRING))
    BY ParserAssumption
  <2>2. m.headers[i + 1] \in Seq(STRING)
    BY <1>2, <1>4, <2>1
  <2> QED BY <2>2, CharFacts
<1>6. PICK e \in Seq(Chars) : e = Crlf /\ Len(e) = 2 /\ e[1] = CR /\ e[2] = LF
  BY CrlfIs
<1>7. PICK t \in Seq(Chars) : t = h \o e /\ IsJoined(t, h, e)
  BY JoinFacts
<1>8. g[i + 1] = t
  <2>1. DOMAIN m.headers = 1..n
    <3>1. m.headers \in Seq(Seq(STRING))
      BY ParserAssumption
    <3> QED BY <1>2, <3>1, LenProperties
  <2> QED BY <1>3, <1>4, <1>5, <1>6, <1>7, <2>1 DEF Lines
<1>9. PICK s \in Seq(Chars) : s = Flat(g, i)
  BY <1>4, FlatFacts
<1>10. PICK u \in Seq(Chars) : u = Flat(g, i + 1)
  BY <1>4, FlatFacts
<1>11. IsJoined(u, s, t)
  <2>1. IsJoined(Flat(g, i + 1), Flat(g, i), g[i + 1])
    BY <1>2, <1>4, FlatFacts
  <2> QED BY <1>8, <1>9, <1>10, <2>1
<1>12. PICK f \in Seq(Chars) : f = Flat(g, n)
  <2>1. n \in 0..n
    OBVIOUS
  <2> QED BY <2>1, FlatFacts
<1>13. Len(u) <= Len(f) /\ \A j \in 1..Len(u) : f[j] = u[j]
  <2>1. /\ Len(Flat(g, i + 1)) <= Len(Flat(g, n))
        /\ \A j \in 1..Len(Flat(g, i + 1)) : Flat(g, n)[j] = Flat(g, i + 1)[j]
    BY <1>4, FlatStarts
  <2> QED BY <1>10, <1>12, <2>1
<1>14. PICK o \in Nat : o = Len(s)
  OBVIOUS
<1>15. PICK k \in Nat : k = Len(h)
  OBVIOUS
<1>16. /\ Len(t) = k + 2 /\ (\A j \in 1..k : t[j] = h[j])
       /\ t[k + 1] = CR /\ t[k + 2] = LF
  <2>1. 1 \in 1..2 /\ 2 \in 1..2
    OBVIOUS
  <2> QED BY <1>6, <1>7, <1>15, <2>1 DEF IsJoined
<1>17. Len(u) = o + (k + 2) /\ \A j \in 1..(k + 2) : u[o + j] = t[j]
  BY <1>11, <1>14, <1>16 DEF IsJoined
<1>18. \A j \in 1..(k + 2) : f[o + j] = t[j]
  <2>1. \A j \in 1..(k + 2) : o + j \in 1..Len(u)
    BY <1>17
  <2> QED BY <1>13, <1>17, <2>1
<1>19. \A j \in 1..k : f[o + j] = h[j]
  <2>1. \A j \in 1..k : j \in 1..(k + 2)
    OBVIOUS
  <2> QED BY <1>16, <1>18, <2>1
<1>20. f[o + k + 1] = CR /\ f[o + k + 2] = LF
  <2>1. k + 1 \in 1..(k + 2) /\ k + 2 \in 1..(k + 2) /\ o + (k + 1) = o + k + 1
        /\ o + (k + 2) = o + k + 2
    OBVIOUS
  <2>2. f[o + (k + 1)] = CR /\ f[o + (k + 2)] = LF
    BY <1>16, <1>18, <2>1
  <2> QED BY <2>1, <2>2
<1>21. o + k + 2 <= Len(f) /\ Len(u) = o + k + 2
  BY <1>13, <1>17
<1>22. HeaderIn(f, o, h)
  BY <1>15, <1>19, <1>20, <1>21 DEF HeaderIn
<1> QED BY <1>2, <1>3, <1>5, <1>9, <1>10, <1>12, <1>14, <1>15, <1>21, <1>22

\* The parser recognises a well-formed request on its own: all of it, its method and url.
THEOREM WellFormedRecognised ==
  ASSUME NEW m \in Requests
  PROVE  Recognised(m)
<1>1. WellFormed(m)
  BY RequestAssumption
<1>2. PICK n \in Nat : n = Len(m.headers)
  BY LinesType
<1>3. PICK buf \in Seq(Chars) : buf = Render(m)
  BY RenderIs
<1>4. PICK a \in Seq(Chars) : a = RequestLine(m)
  BY RequestLineIs
<1>5. PICK g \in [1..n -> Seq(Chars)] : g = Lines(m)
  BY <1>2, LinesType
<1>6. PICK f \in Seq(Chars) : f = Flat(g, n)
  BY FlatAll
<1>7. IsRequest(buf, a, f, m.body)
  BY <1>2, <1>3, <1>4, <1>5, <1>6, RenderIs
<1>8. PICK p \in Nat : p = Len(a)
  OBVIOUS
<1>9. PICK q \in Nat : q = Len(f)
  OBVIOUS
<1>10. PICK b \in Nat : b = Len(m.body)
  <2>1. m.body \in Seq(STRING)
    BY ParserAssumption
  <2> QED BY <2>1
<1>11. /\ Len(buf) = p + 2 + q + 2 + b
       /\ (\A j \in 1..p : buf[j] = a[j]) /\ EndsAt(buf, p + 1)
       /\ (\A j \in 1..q : buf[p + 2 + j] = f[j]) /\ EndsAt(buf, p + 2 + q + 1)
  BY <1>7, <1>8, <1>9, <1>10 DEF IsRequest
<1>12. Len(buf) \in Nat /\ Len(buf) = p + 2 + q + 2 + b
  BY <1>11
<1>13. \A j \in 1..p : buf[j] # CR
  <2>1. PICK me \in Seq(STRING) : me = m.method
    BY ParserAssumption
  <2>2. PICK ta \in Seq(STRING) : ta = m.target
    BY ParserAssumption
  <2>3. CR \notin Range(me) /\ CR \notin Range(ta)
    BY <1>1, <2>1, <2>2 DEF WellFormed
  <2>4. PICK x \in Nat : x = Len(me)
    OBVIOUS
  <2>5. PICK y \in Nat : y = Len(ta)
    OBVIOUS
  <2>6. (\A j \in 1..x : me[j] # CR) /\ \A j \in 1..y : ta[j] # CR
    <3>1. \A j \in 1..Len(me) : me[j] # CR
      BY <2>3, NotInRange
    <3>2. \A j \in 1..Len(ta) : ta[j] # CR
      BY <2>3, NotInRange
    <3> QED BY <2>4, <2>5, <3>1, <3>2
  <2>7. /\ Len(a) = x + 1 + y + 2 /\ (\A j \in 1..x : a[j] = me[j]) /\ a[x + 1] = " "
        /\ (\A j \in 1..y : a[x + 1 + j] = ta[j]) /\ a[x + 1 + y + 1] = " "
        /\ a[x + 1 + y + 2] = "HTTP/1.1"
    BY <1>4, <2>1, <2>2, <2>4, <2>5, RequestLineIs DEF IsRequestLine
  <2>8. p = x + 1 + y + 2
    BY <1>8, <2>7
  <2>9. CR # " " /\ CR # "HTTP/1.1"
    BY DEF CR
  <2>10. \A j \in 1..x : a[j] # CR
    BY <2>6, <2>7
  <2>11. ASSUME NEW j \in (x + 2)..(x + 1 + y) PROVE a[j] # CR
    <3>1. j - (x + 1) \in 1..y /\ x + 1 + (j - (x + 1)) = j
      OBVIOUS
    <3>2. a[x + 1 + (j - (x + 1))] = ta[j - (x + 1)]
      BY <2>7, <3>1
    <3> QED BY <2>6, <3>1, <3>2
  <2>12. a[x + 1] # CR /\ a[x + 1 + y + 1] # CR /\ a[x + 1 + y + 2] # CR
    BY <2>7, <2>9
  <2>13. ASSUME NEW j \in 1..p
         PROVE  \/ j \in 1..x \/ j = x + 1 \/ j \in (x + 2)..(x + 1 + y)
                \/ j = x + 1 + y + 1 \/ j = x + 1 + y + 2
    BY <2>8
  <2>14. \A j \in 1..p : a[j] # CR
    BY <2>10, <2>11, <2>12, <2>13
  <2> QED BY <1>11, <2>14
<1>14. Search(buf, 1) = p + 1
  <2>1. PICK one \in Nat : one = 1
    OBVIOUS
  <2>2. PICK c : c = p + 1 /\ c \in one..(Len(buf) - 1)
    BY <1>12, <2>1
  <2>3. \A i \in one..(c - 1) : ~EndsAt(buf, i)
    <3>1. \A i \in one..(c - 1) : i \in 1..p
      BY <2>1, <2>2
    <3> QED BY <1>13, <3>1 DEF EndsAt
  <2>4. EndsAt(buf, c)
    BY <1>11, <2>2
  <2>5. Search(buf, one) = c
    BY <2>2, <2>3, <2>4, SearchIs
  <2> QED BY <2>1, <2>2, <2>5
<1>15. SubSeq(buf, 1, p + 1 - 1) = a
  <2>1. PICK z \in Nat : z = 0
    OBVIOUS
  <2>2. \A j \in 1..Len(a) : buf[z + j] = a[j]
    <3>1. \A j \in 1..Len(a) : z + j = j /\ j \in 1..p
      BY <1>8, <2>1
    <3> QED BY <1>11, <3>1
  <2>3. IsPart(buf, a, z)
    BY <2>2, PartIs
  <2>4. z + 1 = 1 /\ z + Len(a) = p + 1 - 1
    BY <1>8, <2>1
  <2> QED BY <2>3, <2>4 DEF IsPart
<1>16. PICK e : e = [i \in 0..n |-> p + 1 + Len(Flat(g, i))]
  OBVIOUS
<1>17. ASSUME NEW i \in 0..n PROVE Flat(g, i) \in Seq(Chars) /\ Len(Flat(g, i)) \in Nat
  <2>1. CASE n = 0
    <3>1. Flat(g, 0) \in Seq(Chars)
      BY FlatEmpty
    <3>2. i = 0
      BY <2>1
    <3>3. Flat(g, i) \in Seq(Chars)
      BY <3>1, <3>2
    <3> QED BY <3>3
  <2>2. CASE n # 0
    <3>1. PICK l \in Nat \ {0} : l = n
      BY <2>2
    <3>2. g \in [1..l -> Seq(Chars)] /\ i \in 0..l
      BY <3>1
    <3>3. Flat(g, i) \in Seq(Chars)
      BY <3>2, FlatFacts
    <3> QED BY <3>3
  <2> QED BY <2>1, <2>2
<1>18. e \in [0..n -> Nat] /\ \A i \in 0..n : e[i] = p + 1 + Len(Flat(g, i))
  BY <1>16, <1>17
<1>19. e[0] = p + 1
  <2>1. Len(Flat(g, 0)) = 0 /\ 0 \in 0..n
    BY FlatEmpty
  <2> QED BY <1>18, <2>1
<1>20. e[n] = p + 1 + q
  <2>1. n \in 0..n
    OBVIOUS
  <2> QED BY <1>6, <1>9, <1>18, <2>1
<1>21. ASSUME NEW k \in 1..n
       PROVE  /\ m.headers[k] \in Seq(Chars)
              /\ e[k] = e[k - 1] + 2 + Len(m.headers[k])
              /\ \A j \in 1..Len(m.headers[k]) : buf[e[k - 1] + 1 + j] = m.headers[k][j]
              /\ e[k] \in CrlfAt(buf)
  <2>1. PICK i \in 0..n : i = k - 1 /\ i + 1 = k /\ i < n
    OBVIOUS
  <2>2. PICK h \in Seq(Chars) : h = m.headers[i + 1]
    BY <1>2, <2>1, HeaderIsIn
  <2>3. PICK o \in Nat : o = Len(Flat(g, i))
    BY <1>17
  <2>4. /\ Len(Flat(g, i + 1)) = o + Len(h) + 2
        /\ HeaderIn(f, o, h)
    BY <1>2, <1>5, <1>6, <2>1, <2>2, <2>3, HeaderIsIn
  <2>5. PICK l \in Nat : l = Len(h)
    OBVIOUS
  <2>6. /\ o + l + 2 <= q /\ (\A j \in 1..l : f[o + j] = h[j])
        /\ f[o + l + 1] = CR /\ f[o + l + 2] = LF
    BY <1>9, <2>4, <2>5 DEF HeaderIn
  <2>7. e[i] = p + 1 + o /\ e[i + 1] = p + 1 + (o + l + 2)
    <3>1. i + 1 \in 0..n
      BY <2>1
    <3> QED BY <1>18, <2>3, <2>4, <2>5, <3>1
  <2>8. ASSUME NEW j \in 1..l PROVE buf[e[i] + 1 + j] = h[j]
    <3>1. o + j \in 1..q /\ p + 2 + (o + j) = e[i] + 1 + j
      <4>1. o + l + 2 <= q
        BY <2>6
      <4> QED BY <2>7, <4>1
    <3>2. buf[p + 2 + (o + j)] = f[o + j]
      BY <1>11, <3>1
    <3> QED BY <2>6, <3>1, <3>2
  <2>9. e[i + 1] \in CrlfAt(buf)
    <3>0. o + l + 2 <= q
      BY <2>6
    <3>1. /\ o + l + 1 \in 1..q /\ o + l + 2 \in 1..q
          /\ p + 2 + (o + l + 1) = e[i + 1] /\ p + 2 + (o + l + 2) = e[i + 1] + 1
          /\ e[i + 1] \in 1..(Len(buf) - 1)
      BY <1>12, <2>7, <3>0
    <3>2. buf[p + 2 + (o + l + 1)] = CR /\ buf[p + 2 + (o + l + 2)] = LF
      BY <1>11, <2>6, <3>1
    <3>3. EndsAt(buf, e[i + 1])
      BY <3>1, <3>2 DEF EndsAt
    <3> QED BY <3>1, <3>3, CrlfFacts
  <2>10. e[i + 1] = e[i] + 2 + l
    BY <2>7
  <2> QED BY <2>1, <2>2, <2>5, <2>8, <2>9, <2>10
<1>22. \A i \in 0..n : e[i] \in CrlfAt(buf)
  <2>1. e[0] \in CrlfAt(buf)
    <3>1. p + 1 \in 1..(Len(buf) - 1) /\ EndsAt(buf, p + 1)
      BY <1>11, <1>12
    <3> QED BY <1>19, <3>1, CrlfFacts
  <2>2. \A i \in 0..n : i = 0 \/ i \in 1..n
    OBVIOUS
  <2> QED BY <1>21, <2>1, <2>2
<1>23. PICK hs : hs = m.headers
  OBVIOUS
<1>24. \A k \in 1..n : CR \notin Range(hs[k]) /\ ":" \in Range(hs[k])
  <2>1. DOMAIN m.headers = 1..n
    <3>1. m.headers \in Seq(Seq(STRING))
      BY ParserAssumption
    <3> QED BY <1>2, <3>1, LenProperties
  <2> QED BY <1>1, <1>23, <2>1 DEF WellFormed
<1>25. DeclaredIn(hs, n) % Wrap = b
  <2>1. b = DeclaredIn(hs, n) /\ b < Wrap
    BY <1>1, <1>2, <1>10, <1>23 DEF WellFormed
  <2>2. PICK w \in Nat \ {0} : w = Wrap
    BY ParserAssumption
  <2>3. b % w = b
    <3>1. b < w
      BY <2>1, <2>2
    <3> QED BY <3>1
  <2> QED BY <2>1, <2>2, <2>3
<1>26. PICK c0 \in Nat : c0 = p + 1
  OBVIOUS
<1>27. ExpectHeaders(buf)[At(c0 + 2, 0)] =
         ExpectHeaders(buf)[At(e[n] + 2, DeclaredIn(hs, n) % Wrap)]
  <2>1. \A i \in 1..n : /\ hs[i] \in Seq(Chars) /\ CR \notin Range(hs[i]) /\ ":" \in Range(hs[i])
                        /\ e[i] = e[i - 1] + 2 + Len(hs[i])
                        /\ \A j \in 1..Len(hs[i]) : buf[e[i - 1] + 1 + j] = hs[i][j]
    BY <1>21, <1>23, <1>24
  <2>2. e \in [0..n -> Nat] /\ e[0] = c0
    BY <1>18, <1>19, <1>26
  <2>3. HeadersAt(buf, Chars, hs, e, n)
    BY <1>22, <2>1, <2>2 DEF HeadersAt
  <2>4. RunsTo(buf, c0, hs, e, n)
    BY <2>2, <2>3, HeadersRun
  <2> QED BY <2>4 DEF RunsTo
<1>28. ExpectHeaders(buf)[At(e[n] + 2, b)] = [ok |-> TRUE, length |-> Len(buf)]
  <2>1. n \in 0..n
    OBVIOUS
  <2>2. PICK c \in CrlfAt(buf) : c = e[n]
    BY <1>22, <2>1
  <2>3. c = p + 1 + q
    BY <1>20, <2>2
  <2>4. c + 2 \in CrlfAt(buf)
    <3>1. c + 2 = p + 2 + q + 1 /\ c + 2 \in 1..(Len(buf) - 1)
      BY <1>12, <2>3
    <3> QED BY <1>11, <3>1, CrlfFacts
  <2>5. Len(buf) = c + 3 + b
    BY <1>12, <2>3
  <2>6. ExpectHeaders(buf)[At(c + 2, b)] = [ok |-> TRUE, length |-> Len(buf)]
    BY <2>4, <2>5, LastStep
  <2> QED BY <2>2, <2>6
<1>29. PICK r : r = PraseRequestLine(Fresh, a) /\
               r = [ok |-> TRUE, context |-> [method |-> m.method, url |-> m.target]]
  BY <1>4, RequestLineParsed
<1>30. ParseRequest(Fresh, buf) =
         [info |-> IF r.ok THEN ExpectHeaders(buf)[At(c0 + 2, 0)] ELSE Incomplete,
          context |-> r.context]
  <2>1. ~(c0 > Len(buf)) /\ Search(buf, 1) = c0 /\ SubSeq(buf, 1, c0 - 1) = a
    BY <1>12, <1>14, <1>15, <1>26
  <2>2. r = PraseRequestLine(Fresh, a)
    BY <1>29
  <2> QED BY <2>1, <2>2 DEF ParseRequest
<1>31. ExpectHeaders(buf)[At(c0 + 2, 0)] = [ok |-> TRUE, length |-> Len(buf)]
  BY <1>25, <1>27, <1>28
<1>32. r.ok /\ r.context = [method |-> m.method, url |-> m.target]
  BY <1>29
<1> QED BY <1>3, <1>30, <1>31, <1>32 DEF Recognised

\* Wherever reads cut the stream of well-formed requests, whenever their copies are taken
\* and run, late, overlapping or again, the loop of solveOnMessage takes whole requests only,
\* has a request's own method and url when it has parsed it once since the last reset, and
\* does not stop before its copy is used up unless the connection is down; until a stale
\* copy has taken from the buffer what it never looked at.
THEOREM SplitSafe == Spec => []SplitsAtRequests
BY WellFormedRecognised, SplitIfRecognised
=============================================================================
