---------------------------- MODULE ListingProofs ----------------------------
(***************************************************************************)
(* What is listed of a program is a source of that program: where the      *)
(* tokens of a listing lie, what the language makes of them, and that what *)
(* is put of that is the program again, for every program file whose       *)
(* instructions all have names.                                            *)
(***************************************************************************)
EXTENDS ProgramProofs

(***************************************************************************)
(* Sequences that are put together from parts.                             *)
(***************************************************************************)

\* All parts up to each, joined.
Joining(S, k, parts) ==
  \E joined \in [0..k -> Seq(S)] :
    joined[0] = <<>> /\ \A n \in 1..k : joined[n] = joined[n - 1] \o parts[n]

\* They grow part by part.
LEMMA PartsJoin ==
  ASSUME NEW S, NEW k \in Nat, NEW parts \in [1..k -> Seq(S)]
  PROVE  Joining(S, k, parts)
<1>1. PICK step : step = [n \in 1..k |-> [s \in Seq(S) |-> s \o parts[n]]]
  OBVIOUS
<1>2. step \in [1..k -> [Seq(S) -> Seq(S)]]
  <2>1. ASSUME NEW n \in 1..k, NEW s \in Seq(S) PROVE s \o parts[n] \in Seq(S)
    BY ConcatProperties
  <2> QED
    BY <1>1, <2>1
<1>3. PICK f \in [0..k -> Seq(S)] : f[0] = <<>> /\ \A n \in 1..k : f[n] = step[n][f[n - 1]]
  <2>1. <<>> \in Seq(S)
    BY EmptySeq
  <2>2. Recursion(k, Seq(S), <<>>, step)
    BY <1>2, <2>1, RecursionExists
  <2> QED
    BY <2>2, Zenon DEF Recursion
<1>4. \A n \in 1..k : f[n] = f[n - 1] \o parts[n]
  <2>1. ASSUME NEW n \in 1..k PROVE f[n] = f[n - 1] \o parts[n]
    <3>1. n - 1 \in 0..k
      OBVIOUS
    <3>2. f[n - 1] \in Seq(S)
      BY <1>3, <3>1
    <3> QED
      BY <1>1, <1>3, <3>2
  <2> QED
    BY <2>1
<1> QED
  BY <1>3, <1>4, Zenon DEF Joining

\* Where each part lies.
Lie(joined, parts, m) ==
  /\ \A n \in 1..m : Len(joined[n - 1]) + Len(parts[n]) <= Len(joined[m])
  /\ \A n \in 1..m : \A i \in 1..Len(parts[n]) : joined[m][Len(joined[n - 1]) + i] = parts[n][i]
  /\ \A q \in 1..Len(joined[m]) :
       \E n \in 1..m : q > Len(joined[n - 1]) /\ q <= Len(joined[n - 1]) + Len(parts[n])

\* Every part lies where the parts before it end, and nothing is between them.
LEMMA JoinsLie ==
  ASSUME NEW S, NEW k \in Nat, NEW parts \in [1..k -> Seq(S)],
         NEW joined \in [0..k -> Seq(S)], joined[0] = <<>>,
         \A n \in 1..k : joined[n] = joined[n - 1] \o parts[n]
  PROVE  /\ \A n \in 1..k : Len(joined[n]) = Len(joined[n - 1]) + Len(parts[n])
         /\ \A m \in 0..k : Lie(joined, parts, m)
<1>1. \A n \in 0..k : Len(joined[n]) \in Nat
  BY LenProperties
<1>2. \A n \in 1..k : Len(parts[n]) \in Nat
  BY LenProperties
<1>3. \A n \in 1..k : n - 1 \in 0..k /\ joined[n - 1] \in Seq(S) /\ joined[n] \in Seq(S)
  <2>1. \A n \in 1..k : n - 1 \in 0..k /\ n \in 0..k
    OBVIOUS
  <2> QED
    BY <2>1
<1>4. ASSUME NEW n \in 1..k
      PROVE  /\ Len(joined[n]) = Len(joined[n - 1]) + Len(parts[n])
             /\ \A i \in 1..Len(joined[n - 1]) : joined[n][i] = joined[n - 1][i]
             /\ \A i \in 1..Len(parts[n]) : joined[n][Len(joined[n - 1]) + i] = parts[n][i]
  <2>1. PICK s \in Seq(S), t \in Seq(S) : s = joined[n - 1] /\ t = parts[n]
    BY <1>3
  <2>2. joined[n] = s \o t
    BY <2>1
  <2>3. PICK a \in Nat, b \in Nat : a = Len(s) /\ b = Len(t)
    BY LenProperties
  <2> DEFINE u == s \o t
  <2>4. Len(u) = a + b /\ \A i \in 1..a + b : u[i] = IF i <= a THEN s[i] ELSE t[i - a]
    BY <2>3, ConcatProperties
  <2> HIDE DEF u
  <2>5. \A i \in 1..a : u[i] = s[i]
    <3>1. \A i \in 1..a : i \in 1..a + b /\ i <= a
      OBVIOUS
    <3> QED
      BY <2>4, <3>1
  <2>6. ASSUME NEW i \in 1..b PROVE u[a + i] = t[i]
    <3>1. a + i \in 1..a + b /\ ~(a + i <= a) /\ (a + i) - a = i
      OBVIOUS
    <3> QED
      BY <2>4, <3>1
  <2>7. u = joined[n]
    BY <2>2 DEF u
  <2> QED
    BY <2>1, <2>3, <2>4, <2>5, <2>6, <2>7
<1>5. \A m \in 0..k : Lie(joined, parts, m)
  <2> DEFINE T == {m \in 0..k : ~Lie(joined, parts, m)}
  <2> SUFFICES ASSUME T # {} PROVE FALSE
    OBVIOUS
  <2>1. PICK m \in T : \A y \in T : m <= y
    <3>1. T \in SUBSET Nat
      OBVIOUS
    <3> HIDE DEF T
    <3> QED
      BY <3>1, FirstPlace
  <2>2. m \in 0..k /\ ~Lie(joined, parts, m)
    BY <2>1
  <2>3. m # 0
    <3>1. Len(joined[0]) = 0
      BY EmptySeq
    <3>2. Lie(joined, parts, 0)
      BY <3>1 DEF Lie
    <3> QED
      BY <2>2, <3>2
  <2>4. m \in 1..k /\ m - 1 \in 0..k /\ ~(m <= m - 1)
    BY <2>2, <2>3
  <2>5. m - 1 \notin T
    <3> HIDE DEF T
    <3> QED
      BY <2>1, <2>4
  <2>6. Lie(joined, parts, m - 1)
    BY <2>4, <2>5
  <2>7. PICK a \in Nat, b \in Nat : a = Len(joined[m - 1]) /\ b = Len(parts[m])
    BY <1>1, <1>2, <2>4
  <2>8. /\ Len(joined[m]) = a + b
        /\ \A i \in 1..a : joined[m][i] = joined[m - 1][i]
        /\ \A i \in 1..b : joined[m][a + i] = parts[m][i]
    BY <1>4, <2>4, <2>7
  <2>9. ASSUME NEW n \in 1..m, n # m
        PROVE  /\ n \in 1..m-1 /\ Len(joined[n - 1]) \in Nat /\ Len(parts[n]) \in Nat
               /\ Len(joined[n - 1]) + Len(parts[n]) <= a
    <3>1. n \in 1..m-1 /\ n \in 1..k
      BY <2>4, <2>9
    <3> QED
      BY <1>1, <1>2, <1>3, <2>6, <2>7, <3>1 DEF Lie
  <2>10. ASSUME NEW n \in 1..m
         PROVE  /\ Len(joined[n - 1]) + Len(parts[n]) <= Len(joined[m])
                /\ \A i \in 1..Len(parts[n]) : joined[m][Len(joined[n - 1]) + i] = parts[n][i]
    <3>1. CASE n = m
      BY <2>7, <2>8, <3>1
    <3>2. CASE n # m
      <4>1. PICK c \in Nat, d \in Nat : c = Len(joined[n - 1]) /\ d = Len(parts[n])
        BY <2>9, <3>2
      <4>2. n \in 1..m-1 /\ c + d <= a
        BY <2>9, <3>2, <4>1
      <4>3. c + d <= Len(joined[m])
        BY <2>8, <4>2
      <4>4. ASSUME NEW i \in 1..d PROVE joined[m][c + i] = parts[n][i]
        <5>1. c + i \in 1..a
          BY <4>2
        <5>2. joined[m - 1][c + i] = parts[n][i]
          BY <2>6, <4>1, <4>2 DEF Lie
        <5> QED
          BY <2>8, <5>1, <5>2
      <4> QED
        BY <4>1, <4>3, <4>4
    <3> QED
      BY <3>1, <3>2
  <2>11. ASSUME NEW q \in 1..Len(joined[m])
         PROVE  \E n \in 1..m : q > Len(joined[n - 1]) /\ q <= Len(joined[n - 1]) + Len(parts[n])
    <3> q \in Nat
      BY <2>8
    <3>1. CASE q <= a
      <4>1. q \in 1..Len(joined[m - 1])
        BY <2>7, <2>8, <3>1
      <4>2. PICK n \in 1..m-1 :
              q > Len(joined[n - 1]) /\ q <= Len(joined[n - 1]) + Len(parts[n])
        BY <2>6, <4>1 DEF Lie
      <4>3. n \in 1..m
        BY <2>4, <4>2
      <4> QED
        BY <4>2, <4>3
    <3>2. CASE q > a
      <4>1. m \in 1..m /\ q > Len(joined[m - 1]) /\ q <= Len(joined[m - 1]) + Len(parts[m])
        BY <2>4, <2>7, <2>8, <3>2
      <4> QED
        BY <4>1
    <3>3. q <= a \/ q > a
      BY <2>7
    <3> QED
      BY <3>1, <3>2, <3>3, Zenon
  <2>12. Lie(joined, parts, m)
    BY <2>10, <2>11 DEF Lie
  <2> QED
    BY <2>2, <2>12
<1> QED
  BY <1>4, <1>5

(***************************************************************************)
(* What a listing prints is read as what it was printed from.              *)
(***************************************************************************)

\* A decimal digit has its value.
LEMMA DigitIsValue ==
  ASSUME NEW n \in 1..10
  PROVE  DigitValue(Digits[n]) = n - 1 /\ Digits[n] \in DigitsOf(10)
<1>1. /\ Digits[1] = "0" /\ Digits[2] = "1" /\ Digits[3] = "2" /\ Digits[4] = "3"
      /\ Digits[5] = "4" /\ Digits[6] = "5" /\ Digits[7] = "6" /\ Digits[8] = "7"
      /\ Digits[9] = "8" /\ Digits[10] = "9" /\ Digits[11] = "a" /\ Digits[12] = "b"
      /\ Digits[13] = "c" /\ Digits[14] = "d" /\ Digits[15] = "e" /\ Digits[16] = "f"
  BY DEF Digits
<1>2. /\ Capitals[1] = "A" /\ Capitals[2] = "B" /\ Capitals[3] = "C"
      /\ Capitals[4] = "D" /\ Capitals[5] = "E" /\ Capitals[6] = "F"
  BY DEF Capitals
<1>3. PICK c : c = Digits[n]
  OBVIOUS
<1> DEFINE Has(k) == Digits[k] = c \/ (k > 10 /\ Capitals[k - 10] = c)
<1>4. n \in 1..16 /\ Has(n)
  BY <1>3
<1>5. ASSUME NEW k \in 1..16, Has(k) PROVE k = n
  <2>1. c \in {"0", "1", "2", "3", "4", "5", "6", "7", "8", "9"}
    BY <1>1, <1>3
  <2>2. k \in 1..10
    <3>1. CASE k \in {11, 12, 13, 14, 15, 16}
      <4>1. Capitals[k - 10] \in {"A", "B", "C", "D", "E", "F"}
        BY <1>2, <3>1
      <4>2. Digits[k] \in {"a", "b", "c", "d", "e", "f"}
        BY <1>1, <3>1
      <4> QED
        BY <1>5, <2>1, <4>1, <4>2
    <3> QED
      BY <3>1
  <2>3. Digits[k] = Digits[n]
    BY <1>3, <1>5, <2>2
  <2> QED
    BY <1>1, <2>2, <2>3
<1>6. DigitValue(c) = (CHOOSE k \in 1..16 : Has(k)) - 1
  BY DEF DigitValue
<1> HIDE DEF Has
<1>7. DigitValue(c) = n - 1
  BY <1>4, <1>5, <1>6
<1>8. Digits[n] \in DigitsOf(10)
  BY DEF DigitsOf
<1> QED
  BY <1>3, <1>7, <1>8

\* The registers of a byte up to one.
Registers(word, n) == {i \in word : i < n}

\* The front of what is printed of a register set.
Printing(word) ==
  CHOOSE upTo : upTo = [n \in 0..W |->
    IF n = 0 THEN <<"$">>
    ELSE upTo[n - 1] \o (IF n - 1 \in word THEN <<Digits[n]>> ELSE <<>>)]

\* A printed register set names the registers that it was printed from (regset).
LEMMA RegsetReadsBack ==
  ASSUME NEW word \in Word
  PROVE  RegisterSet(regset(word)) = word
<1> DEFINE Part(n) == IF n - 1 \in word THEN <<Digits[n]>> ELSE <<>>
           S == {"$"} \cup DigitsOf(10)
<1>1. W \in 1..8 /\ W \in Nat /\ \A i \in word : i \in Nat /\ i < W
  BY WidthAssumption DEF Word, Bits
<1>2. ASSUME NEW n \in 1..W PROVE Part(n) \in Seq(S)
  <2>1. Digits[n] \in S
    BY <1>1, DigitIsValue
  <2> HIDE DEF S
  <2>2. <<Digits[n]>> \in Seq(S) /\ <<>> \in Seq(S)
    BY <2>1
  <2> QED
    BY <2>2
<1>3. <<"$">> \in Seq(S)
  OBVIOUS
<1> HIDE DEF S
<1>4. PICK step : step = [n \in 1..W |-> [s \in Seq(S) |-> s \o Part(n)]]
  OBVIOUS
<1>5. step \in [1..W -> [Seq(S) -> Seq(S)]]
  <2>1. ASSUME NEW n \in 1..W, NEW s \in Seq(S) PROVE s \o Part(n) \in Seq(S)
    <3> HIDE DEF Part
    <3> QED
      BY <1>2, ConcatProperties
  <2> HIDE DEF Part
  <2> QED
    BY <1>4, <2>1
<1>6. PICK f \in [0..W -> Seq(S)] : f[0] = <<"$">> /\ \A n \in 1..W : f[n] = step[n][f[n - 1]]
  <2> HIDE DEF Part
  <2>1. Recursion(W, Seq(S), <<"$">>, step)
    BY <1>1, <1>3, <1>5, RecursionExists
  <2> QED
    BY <2>1, Zenon DEF Recursion
<1>7. \A n \in 1..W : n - 1 \in 0..W /\ f[n - 1] \in Seq(S) /\ f[n] = f[n - 1] \o Part(n)
  <2>1. ASSUME NEW n \in 1..W PROVE n - 1 \in 0..W /\ f[n - 1] \in Seq(S) /\ f[n] = f[n - 1] \o Part(n)
    <3>1. n - 1 \in 0..W
      BY <1>1
    <3>2. f[n - 1] \in Seq(S)
      BY <1>6, <3>1
    <3> HIDE DEF Part
    <3> QED
      BY <1>4, <1>6, <3>1, <3>2
  <2> QED
    BY <2>1
<1>8. f = [n \in 0..W |-> IF n = 0 THEN <<"$">> ELSE f[n - 1] \o Part(n)]
  <2> HIDE DEF Part
  <2>1. ASSUME NEW n \in 0..W PROVE f[n] = IF n = 0 THEN <<"$">> ELSE f[n - 1] \o Part(n)
    <3>1. CASE n = 0
      BY <1>6, <3>1
    <3>2. CASE n # 0
      <4>1. n \in 1..W
        BY <1>1, <3>2
      <4> QED
        BY <1>7, <3>2, <4>1, Zenon
    <3> QED
      BY <3>1, <3>2
  <2>2. f = [n \in 0..W |-> f[n]]
    BY <1>6
  <2> QED
    BY <2>1, <2>2, Zenon
<1>9. PICK g : g = Printing(word)
  OBVIOUS
<1>10. g = [n \in 0..W |-> IF n = 0 THEN <<"$">> ELSE g[n - 1] \o Part(n)]
  BY <1>8, <1>9, Zenon DEF Printing
<1>11. regset(word) = g[W]
  BY <1>9, Zenon DEF regset, Printing
<1>12. g[0] = <<"$">> /\ \A n \in 1..W : g[n] = g[n - 1] \o Part(n)
  <2> HIDE DEF Part
  <2>1. 0 \in 0..W /\ \A n \in 1..W : n \in 0..W /\ n # 0
    BY <1>1
  <2> QED
    BY <1>10, <2>1, Zenon
<1> DEFINE Good(n) == /\ g[n] \in Seq(S) /\ Len(g[n]) >= 1
                      /\ {DigitValue(g[n][j]) : j \in 2..Len(g[n])} = Registers(word, n)
<1>13. Good(0)
  <2>1. Len(g[0]) = 1 /\ g[0] \in Seq(S)
    BY <1>3, <1>12
  <2>2. 2..Len(g[0]) = {}
    BY <2>1
  <2>3. Registers(word, 0) = {}
    BY <1>1 DEF Registers
  <2> QED
    BY <2>1, <2>2, <2>3
<1>14. ASSUME NEW n \in 1..W, Good(n - 1) PROVE Good(n)
  <2>1. PICK s \in Seq(S) : s = g[n - 1] /\ Len(s) >= 1
    BY <1>14
  <2>2. PICK a \in Nat : a = Len(s) /\ a >= 1
    BY <2>1, LenProperties
  <2>3. {DigitValue(s[j]) : j \in 2..a} = Registers(word, n - 1)
    BY <1>14, <2>1, <2>2
  <2>4. CASE n - 1 \in word
    <3>1. PICK d \in S : d = Digits[n] /\ DigitValue(d) = n - 1
      <4>1. n \in 1..10
        BY <1>1
      <4>2. DigitValue(Digits[n]) = n - 1 /\ Digits[n] \in S
        BY <4>1, DigitIsValue DEF S
      <4> QED
        BY <4>2
    <3>2. PICK t : t = s \o <<d>>
      OBVIOUS
    <3>3. t \in Seq(S) /\ Len(t) = a + 1 /\ t[a + 1] = d /\ \A j \in 1..a : t[j] = s[j]
      <4>1. <<d>> \in Seq(S) /\ Len(<<d>>) = 1 /\ <<d>>[1] = d
        OBVIOUS
      <4>2. /\ t \in Seq(S) /\ Len(t) = a + 1
            /\ \A j \in 1..a + 1 : t[j] = IF j <= a THEN s[j] ELSE <<d>>[j - a]
        BY <2>2, <3>2, <4>1, ConcatProperties
      <4>3. t[a + 1] = d
        <5>1. a + 1 \in 1..a + 1 /\ ~(a + 1 <= a) /\ (a + 1) - a = 1
          OBVIOUS
        <5> QED
          BY <4>1, <4>2, <5>1
      <4>4. \A j \in 1..a : t[j] = s[j]
        <5>1. \A j \in 1..a : j \in 1..a + 1 /\ j <= a
          OBVIOUS
        <5> QED
          BY <4>2, <5>1
      <4> QED
        BY <4>2, <4>3, <4>4
    <3>4. g[n] = t
      BY <1>12, <2>1, <2>4, <3>1, <3>2
    <3>5. {DigitValue(t[j]) : j \in 2..a + 1} = {DigitValue(s[j]) : j \in 2..a} \cup {n - 1}
      <4>1. \A j \in 2..a : t[j] = s[j] /\ j \in 2..a + 1
        BY <3>3
      <4>2. \A j \in 2..a + 1 : j \in 2..a \/ j = a + 1
        OBVIOUS
      <4>3. a + 1 \in 2..a + 1
        BY <2>2
      <4> QED
        BY <3>1, <3>3, <4>1, <4>2, <4>3
    <3>6. Registers(word, n) = Registers(word, n - 1) \cup {n - 1}
      <4>1. \A i \in word : i < n <=> i < n - 1 \/ i = n - 1
        BY <1>1
      <4>2. n - 1 < n
        OBVIOUS
      <4> QED
        BY <2>4, <4>1, <4>2 DEF Registers
    <3>7. {DigitValue(t[j]) : j \in 2..Len(t)} = Registers(word, n)
      BY <2>3, <3>3, <3>5, <3>6
    <3> QED
      BY <2>2, <3>3, <3>4, <3>7
  <2>5. CASE n - 1 \notin word
    <3>1. g[n] = s
      BY <1>12, <2>1, <2>5, ConcatEmptySeq
    <3>2. Registers(word, n) = Registers(word, n - 1)
      BY <1>1, <2>5 DEF Registers
    <3> QED
      BY <2>1, <2>2, <2>3, <3>1, <3>2
  <2> QED
    BY <2>4, <2>5
<1>15. Good(W)
  <2> HIDE DEF Good
  <2> DEFINE T == {n \in 0..W : ~Good(n)}
  <2> SUFFICES ASSUME T # {} PROVE FALSE
    <3>1. W \in 0..W
      BY <1>1
    <3> QED
      BY <3>1
  <2>1. PICK n \in T : \A y \in T : n <= y
    <3>1. T \in SUBSET Nat
      OBVIOUS
    <3> HIDE DEF T
    <3> QED
      BY <3>1, FirstPlace
  <2>2. n \in 0..W /\ ~Good(n) /\ n # 0
    BY <1>13, <2>1
  <2>3. n \in 1..W /\ n - 1 \in 0..W /\ ~(n <= n - 1)
    BY <1>1, <2>2
  <2>4. n - 1 \notin T
    <3> HIDE DEF T
    <3> QED
      BY <2>1, <2>3
  <2> QED
    BY <1>14, <2>2, <2>3, <2>4
<1>16. Registers(word, W) = word
  BY <1>1 DEF Registers
<1> QED
  BY <1>11, <1>15, <1>16 DEF RegisterSet

\* A number of decimal digits alone has the value that is summed up from its front.
LEMMA DecimalMeant ==
  ASSUME NEW m \in Nat, m >= 1, NEW l, m = Len(l), \A n \in 1..m : l[n] \in DigitsOf(10)
  PROVE  /\ NumberWord(l) /\ \A n \in 1..m : l[n] # separator
         /\ \E w : /\ NumberMeant(l) = w[m] /\ w[0] = 0
                   /\ \A n \in 1..m : w[n] = 10 * w[n - 1] + DigitValue(l[n])
<1>1. DigitsOf(10) \cap {"x", "o", "b"} = {}
  BY DigitClasses DEF decimal
<1>2. separator \notin DigitsOf(10)
  <2>1. "'" \notin decimal
    BY Classes, Zenon
  <2> QED
    BY <2>1, Zenon DEF separator, decimal
<1>3. \A n \in 1..m : l[n] # separator
  BY <1>2
<1>4. NumberForm(l) = [base |-> 10, from |-> 1]
  <2>1. ~(Len(l) > 1 /\ l[2] \in {"x", "o", "b"})
    <3> SUFFICES ASSUME m > 1 PROVE l[2] \notin {"x", "o", "b"}
      OBVIOUS
    <3>1. 2 \in 1..m
      OBVIOUS
    <3> QED
      BY <1>1, <3>1
  <2> QED
    BY <2>1, NumberForms
<1>5. PICK from \in {1, 3}, base \in {2, 8, 10, 16} : from = 1 /\ base = 10
  OBVIOUS
<1>6. NumberForm(l).from = from /\ NumberForm(l).base = base
  BY <1>4, <1>5
<1>7. NumberWord(l)
  BY <1>5, <1>6 DEF NumberWord
<1>8. PICK w : w = SeparatedValues(l, from, base)
  OBVIOUS
<1>9. PICK g \in [from-1..m -> Nat] :
        g = [n \in from-1..m |-> IF n < from THEN 0 ELSE base * g[n - 1] + DigitValue(l[n])]
  <2>1. HasValues(l, m, from, base)
    BY <1>5, ValuesExist
  <2> QED
    BY <2>1, Zenon DEF HasValues
<1>10. ASSUME NEW n \in from-1..m, ~(n < from) PROVE l[n] # separator
  <2>1. n \in 1..m
    BY <1>5, <1>10
  <2> QED
    BY <1>3, <2>1
<1>11. g = [n \in from-1..m |-> IF n < from THEN 0
                                ELSE IF l[n] = separator THEN g[n - 1]
                                ELSE base * g[n - 1] + DigitValue(l[n])]
  <2>1. ASSUME NEW n \in from-1..m
        PROVE  g[n] = IF n < from THEN 0
                      ELSE IF l[n] = separator THEN g[n - 1]
                      ELSE base * g[n - 1] + DigitValue(l[n])
    <3>1. g[n] = IF n < from THEN 0 ELSE base * g[n - 1] + DigitValue(l[n])
      BY <1>9, Zenon
    <3> QED
      BY <1>10, <3>1, Zenon
  <2> QED
    BY <2>1, Zenon
<1>12. w = [n \in from-1..m |-> IF n < from THEN 0
                                ELSE IF l[n] = separator THEN w[n - 1]
                                ELSE base * w[n - 1] + DigitValue(l[n])]
  BY <1>8, <1>11, Zenon DEF SeparatedValues
<1>13. ASSUME NEW n \in from-1..m
       PROVE  w[n] = IF n < from THEN 0 ELSE base * w[n - 1] + DigitValue(l[n])
  <2>1. w[n] = IF n < from THEN 0
               ELSE IF l[n] = separator THEN w[n - 1]
               ELSE base * w[n - 1] + DigitValue(l[n])
    BY <1>12, Zenon
  <2> QED
    BY <1>10, <2>1, Zenon
<1>14. w[0] = 0
  <2>1. 0 \in from-1..m /\ 0 < from
    BY <1>5
  <2> QED
    BY <1>13, <2>1, Zenon
<1>15. ASSUME NEW n \in 1..m PROVE w[n] = 10 * w[n - 1] + DigitValue(l[n])
  <2>1. n \in from-1..m /\ ~(n < from)
    BY <1>5
  <2>2. w[n] = base * w[n - 1] + DigitValue(l[n])
    BY <1>13, <2>1, Zenon
  <2> QED
    BY <1>5, <2>2
<1>16. NumberMeant(l) = w[m]
  <2>1. NumberMeant(l) = SeparatedValues(l, from, base)[Len(l)]
    BY <1>6, NumbersAreThose, Zenon
  <2> QED
    BY <1>8, <2>1
<1> QED
  BY <1>3, <1>7, <1>14, <1>15, <1>16

\* A byte that is printed in decimal is read as that byte (parseImmediate).
LEMMA DecimalReadsBack ==
  ASSUME NEW v \in 0..255
  PROVE  Immediate(Decimal(v)) = WordOf(v)
<1>1. PICK h \in 0..9, t \in 0..9, o \in 0..9 :
        h = (v \div 100) % 10 /\ t = (v \div 10) % 10 /\ o = (v \div 1) % 10
  <2>1. (v \div 100) % 10 \in 0..9 /\ (v \div 10) % 10 \in 0..9 /\ (v \div 1) % 10 \in 0..9
    OBVIOUS
  <2> QED
    BY <2>1
<1>2. v = 100 * h + 10 * t + o /\ (v < 100 => h = 0) /\ (v < 10 => t = 0)
  BY <1>1
<1>3. ASSUME NEW d \in 0..9 PROVE Digits[d + 1] \in DigitsOf(10) /\ DigitValue(Digits[d + 1]) = d
  <2>1. d + 1 \in 1..10 /\ (d + 1) - 1 = d
    OBVIOUS
  <2> QED
    BY <2>1, DigitIsValue
<1>4. PICK x \in DigitsOf(10), y \in DigitsOf(10), z \in DigitsOf(10) :
        /\ x = Digits[h + 1] /\ y = Digits[t + 1] /\ z = Digits[o + 1]
        /\ DigitValue(x) = h /\ DigitValue(y) = t /\ DigitValue(z) = o
  BY <1>1, <1>3
<1>5. /\ v >= 100 => Decimal(v) = <<x, y, z>>
      /\ v \in 10..99 => Decimal(v) = <<y, z>>
      /\ v < 10 => Decimal(v) = <<z>>
  <2>1. CASE v >= 100
    <3>1. Decimal(v) = <<Digits[((v \div 100) % 10) + 1], Digits[((v \div 10) % 10) + 1],
                         Digits[((v \div 1) % 10) + 1]>>
      BY <2>1 DEF Decimal
    <3> QED
      BY <1>1, <1>4, <2>1, <3>1
  <2>2. CASE v \in 10..99
    <3>1. Decimal(v) = <<Digits[((v \div 10) % 10) + 1], Digits[((v \div 1) % 10) + 1]>>
      BY <2>2 DEF Decimal
    <3> QED
      BY <1>1, <1>4, <2>2, <3>1
  <2>3. CASE v < 10
    <3>1. Decimal(v) = <<Digits[((v \div 1) % 10) + 1]>>
      BY <2>3 DEF Decimal
    <3> QED
      BY <1>1, <1>4, <2>3, <3>1
  <2> QED
    BY <2>1, <2>2, <2>3
<1>6. PICK l : l = Decimal(v)
  OBVIOUS
<1>7. PICK m \in Nat : m = Len(l) /\ m >= 1 /\ \A n \in 1..m : l[n] \in DigitsOf(10)
  <2>1. CASE v >= 100
    <3>1. l = <<x, y, z>>
      BY <1>5, <1>6, <2>1
    <3> QED
      BY <3>1
  <2>2. CASE v \in 10..99
    <3>1. l = <<y, z>>
      BY <1>5, <1>6, <2>2
    <3> QED
      BY <3>1
  <2>3. CASE v < 10
    <3>1. l = <<z>>
      BY <1>5, <1>6, <2>3
    <3> QED
      BY <3>1
  <2>4. v >= 100 \/ v \in 10..99 \/ v < 10
    OBVIOUS
  <2> QED
    BY <2>1, <2>2, <2>3, <2>4, Zenon
<1>8. /\ NumberWord(l) /\ \A n \in 1..m : l[n] # separator
      /\ \E w : /\ NumberMeant(l) = w[m] /\ w[0] = 0
                /\ \A n \in 1..m : w[n] = 10 * w[n - 1] + DigitValue(l[n])
  BY <1>7, DecimalMeant
<1>9. PICK w : /\ NumberMeant(l) = w[m] /\ w[0] = 0
               /\ \A n \in 1..m : w[n] = 10 * w[n - 1] + DigitValue(l[n])
  BY <1>8, Zenon
<1>10. NumberMeant(l) = v
  <2>1. CASE v >= 100
    <3>1. l[1] = x /\ l[2] = y /\ l[3] = z /\ m = 3
      BY <1>5, <1>6, <1>7, <2>1
    <3>2. w[1] = 10 * w[0] + h /\ w[2] = 10 * w[1] + t /\ w[3] = 10 * w[2] + o
      <4>1. 1 \in 1..m /\ 2 \in 1..m /\ 3 \in 1..m
        BY <3>1
      <4>2. w[1] = 10 * w[0] + DigitValue(l[1])
        BY <1>9, <4>1
      <4>3. w[2] = 10 * w[1] + DigitValue(l[2])
        BY <1>9, <4>1
      <4>4. w[3] = 10 * w[2] + DigitValue(l[3])
        BY <1>9, <4>1
      <4> QED
        BY <1>4, <3>1, <4>2, <4>3, <4>4, Zenon
    <3> QED
      BY <1>1, <1>2, <1>9, <3>1, <3>2
  <2>2. CASE v \in 10..99
    <3>1. l[1] = y /\ l[2] = z /\ m = 2
      BY <1>5, <1>6, <1>7, <2>2
    <3>2. w[1] = 10 * w[0] + t /\ w[2] = 10 * w[1] + o
      BY <1>4, <1>9, <3>1
    <3> QED
      BY <1>1, <1>2, <1>9, <2>2, <3>1, <3>2
  <2>3. CASE v < 10
    <3>1. l[1] = z /\ m = 1
      BY <1>5, <1>6, <1>7, <2>3
    <3>2. w[1] = 10 * w[0] + o
      BY <1>4, <1>9, <3>1
    <3> QED
      BY <1>1, <1>2, <1>9, <2>3, <3>1, <3>2
  <2>4. v >= 100 \/ v \in 10..99 \/ v < 10
    OBVIOUS
  <2> QED
    BY <2>1, <2>2, <2>3, <2>4, Zenon
<1>11. Plain(l)
  <2>1. NumberMeant(l) <= IntMax
    BY <1>10, IntAssumption
  <2>2. \A n \in 1..Len(l) : l[n] # separator
    BY <1>7, <1>8
  <2> QED
    BY <2>1, <2>2, Zenon DEF Plain, separator
<1>12. Immediate(l) = WordOf(NumberMeant(l))
  BY <1>8, <1>11, PlainIsRead
<1> QED
  BY <1>6, <1>10, <1>12

\* The two bytes of a jump's address are the bytes that it was made of.
LEMMA AddressReadsBack ==
  ASSUME 2^W * 2^W <= PcMod, NEW a \in Word, NEW b \in Word
  PROVE  HighByte(JumpAddress(a, b)) = a /\ LowByte(JumpAddress(a, b)) = b
         /\ JumpAddress(a, b) \in Address
<1>1. PICK m \in Nat : m = 2^W /\ m >= 1
  BY ByteSize
<1>2. ASSUME NEW w \in Word PROVE Val(w) \in 0..m-1 /\ WordOf(Val(w)) = w
  <2>1. PICK v \in Nat : v = Val(w) /\ WordOf(v) = w
    BY WordOfVal
  <2>2. v = v % m
    BY <1>1, <2>1, ValOfWordOf
  <2> QED
    BY <1>1, <2>1, <2>2
<1>3. PICK x \in 0..m-1, y \in 0..m-1 : x = Val(a) /\ y = Val(b) /\ WordOf(x) = a
  BY <1>2
<1>4. PICK n \in Nat : n = x * m + y /\ n < m * m /\ n \div m = x /\ n % m = y
  <2>1. PICK p \in Nat : p = x * m
    BY <1>1
  <2>2. x * m + y < m * m
    <3>1. x + 1 <= m
      OBVIOUS
    <3>2. (x + 1) * m <= m * m
      BY <1>1, <3>1
    <3> QED
      BY <1>1, <3>2
  <2>3. (x * m + y) \div m = x /\ (x * m + y) % m = y
    BY <1>1, ByteSize
  <2> QED
    BY <2>1, <2>2, <2>3
<1>5. n < PcMod /\ PcMod \in Nat
  BY <1>1, <1>4, PcModAssumption
<1>6. JumpAddress(a, b) = n
  <2>1. n % PcMod = n
    BY <1>5
  <2> QED
    BY <1>1, <1>3, <1>4, <2>1 DEF JumpAddress
<1>7. HighByte(n) = a
  BY <1>1, <1>3, <1>4 DEF HighByte
<1>8. LowByte(n) = b
  <2>1. Val(LowByte(n)) = Val(b)
    BY <1>1, <1>3, <1>4, ValOfWordOf DEF LowByte
  <2>2. LowByte(n) \in Word
    BY <1>4, WordOfType DEF LowByte
  <2> QED
    BY <2>1, <2>2, ValInjective
<1> QED
  BY <1>5, <1>6, <1>7, <1>8 DEF Address

(***************************************************************************)
(* What is printed of an instruction (MicroInst::string), and what the     *)
(* writer puts when it reads that.                                         *)
(***************************************************************************)
NameOf(i) ==
  CHOOSE name \in DOMAIN opcodeOf \cup {"jmp"} :
    IF name = "jmp" THEN i.op \in JumpOps ELSE opcodeOf[name] = i.op

CondOf(i) == IF i.op = "NOP" THEN "" ELSE Mnemonic(i.cond)

HeadOf(i) == [type |-> "IDENTIFIER", cond |-> CondOf(i), lexeme |-> NameOf(i)]
Mask(word) == Printed("REGSET", regset(word))
Number(i) == Printed("INTEGER", Decimal(Val(i.b)))
Goal(i) == Printed("IDENTIFIER", LabelName[JumpAddress(i.a, i.b)])
LineEnd == Printed("BREAK", <<>>)

\* The tokens that are printed of an instruction, by its operation.
PrintOf(i) ==
  CASE i.op = "NOP" -> <<HeadOf(i), LineEnd>>
    [] i.op = "CID" -> <<HeadOf(i), Number(i), LineEnd>>
    [] i.op \in {"SET", "SHR"} -> <<HeadOf(i), Mask(i.a), Comma, Number(i), LineEnd>>
    [] i.op = "JPI" -> <<HeadOf(i), Goal(i), LineEnd>>
    [] OTHER -> <<HeadOf(i), Mask(i.a), Comma, Mask(i.b), LineEnd>>

\* A NOP keeps no operands, and the mnemonics leave some instructions out.
Listed(i) ==
  /\ i \in Instruction
  /\ i.op \notin {"EXT", "CTR"}
  /\ i.op = "NOP" => i.cond = FlagValues /\ i.a = Zero /\ i.b = Zero
  /\ i.op = "CID" => i.a = Zero
  /\ Mnemonic(i.cond) # "bits"

\* A sequence between two elements.
LEMMA Framed ==
  ASSUME NEW S, NEW h \in S, NEW e \in S, NEW o \in Seq(S), NEW k \in Nat, k = Len(o),
         NEW t, t = <<h>> \o o \o <<e>>
  PROVE  /\ t \in Seq(S) /\ Len(t) = k + 2 /\ t[1] = h /\ t[k + 2] = e
         /\ \A j \in 1..k : t[j + 1] = o[j]
<1>1. PICK x \in Seq(S), z \in Seq(S) :
        x = <<h>> /\ Len(x) = 1 /\ x[1] = h /\ z = <<e>> /\ Len(z) = 1 /\ z[1] = e
  <2>1. <<h>> \in Seq(S) /\ <<e>> \in Seq(S)
    OBVIOUS
  <2> QED
    BY <2>1
<1>2. PICK y \in Seq(S) : y = x \o o
  BY ConcatProperties
<1>3. Len(y) = k + 1 /\ \A i \in 1..k+1 : y[i] = IF i <= 1 THEN x[i] ELSE o[i - 1]
  <2>1. Len(y) = 1 + k /\ \A i \in 1..1+k : y[i] = IF i <= 1 THEN x[i] ELSE o[i - 1]
    BY <1>1, <1>2, ConcatProperties
  <2> QED
    BY <2>1
<1>4. t = y \o z
  BY <1>1, <1>2
<1>5. /\ t \in Seq(S) /\ Len(t) = (k + 1) + 1
      /\ \A i \in 1..(k+1)+1 : t[i] = IF i <= k + 1 THEN y[i] ELSE z[i - (k + 1)]
  BY <1>1, <1>3, <1>4, ConcatProperties
<1>6. t[1] = h
  <2>1. 1 \in 1..(k+1)+1 /\ 1 <= k + 1 /\ 1 \in 1..k+1
    OBVIOUS
  <2> QED
    BY <1>1, <1>3, <1>5, <2>1
<1>7. t[k + 2] = e
  <2>1. k + 2 \in 1..(k+1)+1 /\ ~(k + 2 <= k + 1) /\ (k + 2) - (k + 1) = 1
    OBVIOUS
  <2> QED
    BY <1>1, <1>5, <2>1
<1>8. ASSUME NEW j \in 1..k PROVE t[j + 1] = o[j]
  <2>1. j + 1 \in 1..(k+1)+1 /\ j + 1 <= k + 1 /\ j + 1 \in 1..k+1 /\ ~(j + 1 <= 1)
        /\ (j + 1) - 1 = j
    OBVIOUS
  <2> QED
    BY <1>3, <1>5, <2>1
<1> QED
  BY <1>5, <1>6, <1>7, <1>8

\* That is what an instruction is printed as (MicroInst::string).
LEMMA StringIsThat == ASSUME NEW i, i.op # "CTR" PROVE string(i) = PrintOf(i)
<1>1. PICK h, a, b, c, n, g, e :
        /\ h = HeadOf(i) /\ a = Mask(i.a) /\ b = Mask(i.b) /\ c = Comma /\ n = Number(i)
        /\ g = Goal(i) /\ e = LineEnd
  OBVIOUS
<1> DEFINE U == {h, a, b, c, n, g, e}
<1>2. h \in U /\ e \in U
  OBVIOUS
<1> HIDE DEF U
<1>3. PICK o : o = CASE i.op = "NOP" -> <<>>
                     [] i.op \in {"CID", "CTR"} -> <<n>>
                     [] i.op \in {"SET", "SHR"} -> <<a, c, n>>
                     [] i.op = "JPI" -> <<g>>
                     [] OTHER -> <<a, c, b>>
  OBVIOUS
<1>4. string(i) = <<h>> \o o \o <<e>>
  BY <1>1, <1>3, Zenon DEF string, HeadOf, NameOf, CondOf, Mask, Number, Goal, LineEnd
<1>5. PrintOf(i) = CASE i.op = "NOP" -> <<h, e>>
                      [] i.op = "CID" -> <<h, n, e>>
                      [] i.op \in {"SET", "SHR"} -> <<h, a, c, n, e>>
                      [] i.op = "JPI" -> <<h, g, e>>
                      [] OTHER -> <<h, a, c, b, e>>
  BY <1>1, Zenon DEF PrintOf
<1>6. CASE i.op = "NOP"
  <2>1. o = <<>>
    BY <1>3, <1>6
  <2>2. PrintOf(i) = <<h, e>>
    BY <1>5, <1>6
  <2>3. <<>> \in Seq(U) /\ Len(<<>>) = 0 /\ <<h, e>> \in Seq(U) /\ Len(<<h, e>>) = 2
    BY DEF U
  <2>4. PICK t : t = <<h>> \o <<>> \o <<e>>
    OBVIOUS
  <2>5. /\ t \in Seq(U) /\ Len(t) = 0 + 2 /\ t[1] = h /\ t[0 + 2] = e
        /\ \A j \in 1..0 : t[j + 1] = <<>>[j]
    BY <1>2, <2>3, <2>4, Framed
  <2>7. \A j \in 1..2 : t[j] = <<h, e>>[j]
    BY <2>5
  <2>8. t = <<h, e>>
    BY <2>3, <2>5, <2>7, SeqEqual
  <2> QED
    BY <1>4, <2>1, <2>2, <2>4, <2>8, Zenon
<1>7. CASE i.op = "CID"
  <2>1. o = <<n>>
    BY <1>3, <1>7
  <2>2. PrintOf(i) = <<h, n, e>>
    BY <1>5, <1>7
  <2>3. <<n>> \in Seq(U) /\ Len(<<n>>) = 1 /\ <<h, n, e>> \in Seq(U) /\ Len(<<h, n, e>>) = 3
    BY DEF U
  <2>4. PICK t : t = <<h>> \o <<n>> \o <<e>>
    OBVIOUS
  <2>5. /\ t \in Seq(U) /\ Len(t) = 1 + 2 /\ t[1] = h /\ t[1 + 2] = e
        /\ \A j \in 1..1 : t[j + 1] = <<n>>[j]
    BY <1>2, <2>3, <2>4, Framed
  <2>6. t[1 + 1] = <<n>>[1]
    BY <2>5
  <2>7. \A j \in 1..3 : t[j] = <<h, n, e>>[j]
    BY <2>5, <2>6
  <2>8. t = <<h, n, e>>
    BY <2>3, <2>5, <2>7, SeqEqual
  <2> QED
    BY <1>4, <2>1, <2>2, <2>4, <2>8, Zenon
<1>8. CASE i.op \in {"SET", "SHR"}
  <2>1. o = <<a, c, n>>
    BY <1>3, <1>8
  <2>2. PrintOf(i) = <<h, a, c, n, e>>
    BY <1>5, <1>8
  <2>3. <<a, c, n>> \in Seq(U) /\ Len(<<a, c, n>>) = 3 /\ <<h, a, c, n, e>> \in Seq(U) /\ Len(<<h, a, c, n, e>>) = 5
    BY DEF U
  <2>4. PICK t : t = <<h>> \o <<a, c, n>> \o <<e>>
    OBVIOUS
  <2>5. /\ t \in Seq(U) /\ Len(t) = 3 + 2 /\ t[1] = h /\ t[3 + 2] = e
        /\ \A j \in 1..3 : t[j + 1] = <<a, c, n>>[j]
    BY <1>2, <2>3, <2>4, Framed
  <2>6. t[1 + 1] = <<a, c, n>>[1] /\ t[2 + 1] = <<a, c, n>>[2] /\ t[3 + 1] = <<a, c, n>>[3]
    BY <2>5
  <2>7. \A j \in 1..5 : t[j] = <<h, a, c, n, e>>[j]
    BY <2>5, <2>6
  <2>8. t = <<h, a, c, n, e>>
    BY <2>3, <2>5, <2>7, SeqEqual
  <2> QED
    BY <1>4, <2>1, <2>2, <2>4, <2>8, Zenon
<1>9. CASE i.op = "JPI"
  <2>1. o = <<g>>
    BY <1>3, <1>9
  <2>2. PrintOf(i) = <<h, g, e>>
    BY <1>5, <1>9
  <2>3. <<g>> \in Seq(U) /\ Len(<<g>>) = 1 /\ <<h, g, e>> \in Seq(U) /\ Len(<<h, g, e>>) = 3
    BY DEF U
  <2>4. PICK t : t = <<h>> \o <<g>> \o <<e>>
    OBVIOUS
  <2>5. /\ t \in Seq(U) /\ Len(t) = 1 + 2 /\ t[1] = h /\ t[1 + 2] = e
        /\ \A j \in 1..1 : t[j + 1] = <<g>>[j]
    BY <1>2, <2>3, <2>4, Framed
  <2>6. t[1 + 1] = <<g>>[1]
    BY <2>5
  <2>7. \A j \in 1..3 : t[j] = <<h, g, e>>[j]
    BY <2>5, <2>6
  <2>8. t = <<h, g, e>>
    BY <2>3, <2>5, <2>7, SeqEqual
  <2> QED
    BY <1>4, <2>1, <2>2, <2>4, <2>8, Zenon
<1>10. CASE i.op \notin {"NOP", "CID", "CTR", "SET", "SHR", "JPI"}
  <2>1. o = <<a, c, b>>
    BY <1>3, <1>10
  <2>2. PrintOf(i) = <<h, a, c, b, e>>
    BY <1>5, <1>10
  <2>3. <<a, c, b>> \in Seq(U) /\ Len(<<a, c, b>>) = 3 /\ <<h, a, c, b, e>> \in Seq(U) /\ Len(<<h, a, c, b, e>>) = 5
    BY DEF U
  <2>4. PICK t : t = <<h>> \o <<a, c, b>> \o <<e>>
    OBVIOUS
  <2>5. /\ t \in Seq(U) /\ Len(t) = 3 + 2 /\ t[1] = h /\ t[3 + 2] = e
        /\ \A j \in 1..3 : t[j + 1] = <<a, c, b>>[j]
    BY <1>2, <2>3, <2>4, Framed
  <2>6. t[1 + 1] = <<a, c, b>>[1] /\ t[2 + 1] = <<a, c, b>>[2] /\ t[3 + 1] = <<a, c, b>>[3]
    BY <2>5
  <2>7. \A j \in 1..5 : t[j] = <<h, a, c, b, e>>[j]
    BY <2>5, <2>6
  <2>8. t = <<h, a, c, b, e>>
    BY <2>3, <2>5, <2>7, SeqEqual
  <2> QED
    BY <1>4, <2>1, <2>2, <2>4, <2>8, Zenon
<1> QED
  BY <1>6, <1>7, <1>8, <1>9, <1>10

\* An operation is called by its mnemonic, which is none of a block.
LEMMA NameFacts ==
  ASSUME NEW i, i.op \in Ops \ {"EXT"}
  PROVE  /\ NameOf(i) \in DOMAIN AP!Operands /\ NameOf(i) \notin {"if", "begin", "end"}
         /\ NameOf(i) = "jmp" <=> i.op \in JumpOps
         /\ NameOf(i) # "jmp" => opcodeOf[NameOf(i)] = i.op
<1>1. DOMAIN opcodeOf = {"nop", "set", "ldm", "stm", "cid", "ctr", "nad", "and", "xor", "shr", "mov",
                         "add", "cmp"}
  BY DEF opcodeOf
<1>2. DOMAIN AP!Operands = {"nop", "cid", "set", "ctr", "shr", "ldm", "stm", "jmp", "nad", "and",
                            "xor", "mov", "add", "cmp"}
  BY DEF AP!Operands
<1>3. /\ opcodeOf["nop"] = "NOP" /\ opcodeOf["set"] = "SET" /\ opcodeOf["ldm"] = "LDM"
      /\ opcodeOf["stm"] = "STM" /\ opcodeOf["cid"] = "CID" /\ opcodeOf["ctr"] = "CTR"
      /\ opcodeOf["nad"] = "NAD" /\ opcodeOf["and"] = "AND" /\ opcodeOf["xor"] = "XOR"
      /\ opcodeOf["shr"] = "SHR" /\ opcodeOf["mov"] = "MOV" /\ opcodeOf["add"] = "ADD"
      /\ opcodeOf["cmp"] = "CMP"
  BY DEF opcodeOf
<1> DEFINE Names1 == DOMAIN opcodeOf \cup {"jmp"}
           Calls(name) == IF name = "jmp" THEN i.op \in JumpOps ELSE opcodeOf[name] = i.op
<1>4. \E name \in Names1 : Calls(name)
  <2>1. i.op \in {"NAD", "AND", "XOR", "SHR", "MOV", "ADD", "CMP", "LDM", "STM", "JPR", "JPI", "NOP",
                  "SET", "CID", "CTR"}
    BY DEF Ops, AluOps, MemOps, JumpOps
  <2>2. CASE i.op \in JumpOps
    BY <2>2
  <2>3. CASE i.op \notin JumpOps
    BY <1>1, <1>3, <2>1, <2>3 DEF JumpOps
  <2> QED
    BY <2>2, <2>3
<1>5. NameOf(i) = CHOOSE name \in Names1 : Calls(name)
  BY Zenon DEF NameOf
<1> HIDE DEF Names1, Calls
<1>6. NameOf(i) \in Names1 /\ Calls(NameOf(i))
  BY <1>4, <1>5
<1> USE DEF Names1, Calls
<1>7. NameOf(i) # "jmp" => opcodeOf[NameOf(i)] = i.op
  BY <1>6
<1>8. NameOf(i) = "jmp" => i.op \in JumpOps
  BY <1>6
<1>9. NameOf(i) # "jmp" => i.op \notin JumpOps
  <2> SUFFICES ASSUME NameOf(i) # "jmp" PROVE i.op \notin JumpOps
    OBVIOUS
  <2>1. NameOf(i) \in DOMAIN opcodeOf
    BY <1>6
  <2>2. opcodeOf[NameOf(i)] \notin {"JPR", "JPI"}
    BY <1>1, <1>3, <2>1
  <2> QED
    BY <1>7, <2>2 DEF JumpOps
<1>10. NameOf(i) \in DOMAIN AP!Operands /\ NameOf(i) \notin {"if", "begin", "end"}
  BY <1>1, <1>2, <1>6
<1> QED
  BY <1>7, <1>8, <1>9, <1>10

\* What follows the mnemonic of an operation.
LEMMA OperandKinds ==
  ASSUME NEW i, i.op \in Ops \ {"EXT", "CTR", "JPI"}, NEW kinds, kinds = AP!Operands[NameOf(i)]
  PROVE  /\ i.op = "NOP" => NameOf(i) = "nop" /\ kinds = <<>>
         /\ i.op = "CID" => NameOf(i) = "cid" /\ kinds = <<"INTEGER">>
         /\ i.op \in {"SET", "SHR"} => /\ NameOf(i) \in {"set", "shr"}
                                       /\ kinds = <<"REGSET", "SYMBOL", "INTEGER">>
         /\ i.op \notin {"NOP", "CID", "SET", "SHR"} =>
              /\ NameOf(i) \notin {"nop", "cid", "set", "ctr", "shr"}
              /\ kinds = <<"REGSET", "SYMBOL", "REGSET">>
<1>1. DOMAIN AP!Operands = {"nop", "cid", "set", "ctr", "shr", "ldm", "stm", "jmp", "nad", "and",
                            "xor", "mov", "add", "cmp"}
  BY DEF AP!Operands
<1>2. /\ opcodeOf["nop"] = "NOP" /\ opcodeOf["set"] = "SET" /\ opcodeOf["ldm"] = "LDM"
      /\ opcodeOf["stm"] = "STM" /\ opcodeOf["cid"] = "CID" /\ opcodeOf["ctr"] = "CTR"
      /\ opcodeOf["nad"] = "NAD" /\ opcodeOf["and"] = "AND" /\ opcodeOf["xor"] = "XOR"
      /\ opcodeOf["shr"] = "SHR" /\ opcodeOf["mov"] = "MOV" /\ opcodeOf["add"] = "ADD"
      /\ opcodeOf["cmp"] = "CMP"
  BY DEF opcodeOf
<1>3. /\ AP!Operands["nop"] = <<>> /\ AP!Operands["cid"] = <<"INTEGER">>
      /\ \A name \in {"set", "shr"} : AP!Operands[name] = <<"REGSET", "SYMBOL", "INTEGER">>
      /\ \A name \in {"ldm", "stm", "jmp", "nad", "and", "xor", "mov", "add", "cmp"} :
           AP!Operands[name] = <<"REGSET", "SYMBOL", "REGSET">>
  BY DEF AP!Operands, AP!Binary, AP!Immediate
<1>4. PICK name : name = NameOf(i)
  OBVIOUS
<1>5. /\ name \in DOMAIN AP!Operands /\ kinds = AP!Operands[name]
      /\ name = "jmp" <=> i.op \in {"JPR", "JPI"}
      /\ name # "jmp" => opcodeOf[name] = i.op
  BY <1>4, NameFacts DEF JumpOps
<1>6. CASE name = "jmp"
  BY <1>3, <1>4, <1>5, <1>6
<1>7. CASE name # "jmp"
  <2>1. opcodeOf[name] = i.op /\ name \in DOMAIN AP!Operands \ {"jmp"}
    BY <1>5, <1>7
  <2>2. CASE name \in {"nop", "cid"}
    BY <1>2, <1>3, <1>4, <1>5, <2>1, <2>2
  <2>3. CASE name \in {"set", "shr", "ctr"}
    BY <1>2, <1>3, <1>4, <1>5, <2>1, <2>3
  <2>4. CASE name \in {"ldm", "stm", "nad", "and", "xor", "mov", "add", "cmp"}
    BY <1>2, <1>3, <1>4, <1>5, <2>1, <2>4
  <2> QED
    BY <1>1, <2>1, <2>2, <2>3, <2>4
<1> QED
  BY <1>6, <1>7

\* A condition that has a mnemonic is read back from it.
LEMMA ConditionReadsBack ==
  ASSUME NEW cond \in SUBSET FlagValues, Mnemonic(cond) # "bits"
  PROVE  /\ Mnemonic(cond) \in AP!conditions \cup {""}
         /\ Condition(IF Mnemonic(cond) = "" THEN "t" ELSE Mnemonic(cond)) = cond
<1>1. PICK mn : mn = Mnemonic(cond)
  OBVIOUS
<1>2. \/ mn = "f" /\ cond = {}
      \/ mn = "" /\ cond = FlagValues
      \/ mn = "nbe" /\ cond = {"ZF_FALSE", "CF_FALSE"}
      \/ mn = "nc" /\ cond = FlagValues \ {"CF_TRUE"}
      \/ mn = "c" /\ cond = FlagValues \ {"CF_FALSE"}
      \/ mn = "ne" /\ cond = FlagValues \ {"ZF_TRUE"}
      \/ mn = "e" /\ cond = FlagValues \ {"ZF_FALSE"}
  <2>1. PICK x1, x2, x3, x4, x5 :
          /\ x1 = FlagValues /\ x2 = {"ZF_FALSE", "CF_FALSE"} /\ x3 = FlagValues \ {"CF_TRUE"}
          /\ x4 = FlagValues \ {"CF_FALSE"} /\ x5 = FlagValues \ {"ZF_TRUE"}
    OBVIOUS
  <2>2. PICK x6 : x6 = FlagValues \ {"ZF_FALSE"}
    OBVIOUS
  <2>3. mn = CASE cond = {} -> "f" [] cond = x1 -> "" [] cond = x2 -> "nbe" [] cond = x3 -> "nc"
               [] cond = x4 -> "c" [] cond = x5 -> "ne" [] cond = x6 -> "e" [] OTHER -> "bits"
    BY <1>1, <2>1, <2>2, Zenon DEF Mnemonic
  <2>4. \/ mn = "f" /\ cond = {}
        \/ mn = "" /\ cond = x1
        \/ mn = "nbe" /\ cond = x2
        \/ mn = "nc" /\ cond = x3
        \/ mn = "c" /\ cond = x4
        \/ mn = "ne" /\ cond = x5
        \/ mn = "e" /\ cond = x6
    BY <1>1, <2>3
  <2> QED
    BY <2>1, <2>2, <2>4, Zenon
<1>3. /\ Condition("f") = {} /\ Condition("t") = FlagValues
      /\ Condition("nbe") = {"ZF_FALSE", "CF_FALSE"} /\ Condition("nc") = FlagValues \ {"CF_TRUE"}
      /\ Condition("c") = FlagValues \ {"CF_FALSE"} /\ Condition("ne") = FlagValues \ {"ZF_TRUE"}
      /\ Condition("e") = FlagValues \ {"ZF_FALSE"}
  BY DEF Condition
<1>4. {"f", "nbe", "nc", "c", "ne", "e"} \subseteq AP!conditions
  BY DEF AP!conditions
<1> QED
  BY <1>1, <1>2, <1>3, <1>4

(***************************************************************************)
(* Where the tokens of a listing lie.                                      *)
(***************************************************************************)
LabelOf(n) == Printed("LABEL", LabelName[n])

\* The tokens of listings.
Printings ==
  {HeadOf(i) : i \in Instruction} \cup {Mask(word) : word \in Word}
    \cup {Number(i) : i \in Instruction} \cup {Goal(i) : i \in Instruction}
    \cup {LabelOf(n) : n \in Nat} \cup {Comma, LineEnd}

\* No instruction is printed as more than five.
LEMMA PrintSeq ==
  ASSUME NEW i \in Instruction
  PROVE  PrintOf(i) \in Seq(Printings) /\ Len(PrintOf(i)) \in {2, 3, 5}
<1>1. PICK h, a, b, c, n, g, e :
        /\ h = HeadOf(i) /\ a = Mask(i.a) /\ b = Mask(i.b) /\ c = Comma /\ n = Number(i)
        /\ g = Goal(i) /\ e = LineEnd
  OBVIOUS
<1>2. {h, a, b, c, n, g, e} \subseteq Printings
  <2>1. i.a \in Word /\ i.b \in Word
    BY DEF Instruction
  <2> QED
    BY <1>1, <2>1, Zenon DEF Printings
<1>3. PICK U : U = Printings /\ h \in U /\ a \in U /\ b \in U /\ c \in U /\ n \in U /\ g \in U /\ e \in U
  BY <1>2
<1>4. PrintOf(i) = CASE i.op = "NOP" -> <<h, e>>
                      [] i.op = "CID" -> <<h, n, e>>
                      [] i.op \in {"SET", "SHR"} -> <<h, a, c, n, e>>
                      [] i.op = "JPI" -> <<h, g, e>>
                      [] OTHER -> <<h, a, c, b, e>>
  BY <1>1, Zenon DEF PrintOf
<1>5. \/ PrintOf(i) = <<h, e>>
      \/ PrintOf(i) = <<h, n, e>>
      \/ PrintOf(i) = <<h, a, c, n, e>>
      \/ PrintOf(i) = <<h, g, e>>
      \/ PrintOf(i) = <<h, a, c, b, e>>
  BY <1>4
<1>6. \A t \in {<<h, e>>, <<h, n, e>>, <<h, a, c, n, e>>, <<h, g, e>>, <<h, a, c, b, e>>} :
        t \in Seq(U) /\ Len(t) \in {2, 3, 5}
  <2>1. <<h, e>> \in Seq(U) /\ Len(<<h, e>>) = 2
    BY <1>3
  <2>2. <<h, n, e>> \in Seq(U) /\ Len(<<h, n, e>>) = 3
    BY <1>3
  <2>3. <<h, g, e>> \in Seq(U) /\ Len(<<h, g, e>>) = 3
    BY <1>3
  <2>4. <<h, a, c, n, e>> \in Seq(U) /\ Len(<<h, a, c, n, e>>) = 5
    BY <1>3
  <2>5. <<h, a, c, b, e>> \in Seq(U) /\ Len(<<h, a, c, b, e>>) = 5
    BY <1>3
  <2> QED
    BY <2>1, <2>2, <2>3, <2>4, <2>5
<1> QED
  BY <1>3, <1>5, <1>6

\* What is put before a line.
LabelsOf(p, n) == IF n - 1 \in Targets(p) THEN <<LabelOf(n - 1)>> ELSE <<>>

\* A line of a listing, and the last one.
PartOf(p, n) == IF n = Len(p) + 1 THEN <<LineEnd>> ELSE LabelsOf(p, n) \o string(p[n])

\* The front of a listing.
ListingTo(p) ==
  CHOOSE upTo : upTo = [n \in 0..Len(p) |->
    IF n = 0 THEN <<>> ELSE upTo[n - 1] \o LabelsOf(p, n) \o string(p[n])]

\* A listing is its front and a break behind it (CoreState::disassemble).
LEMMA ListingIsThat == \A p : disassemble(p) = ListingTo(p)[Len(p)] \o <<LineEnd>>
  BY Zenon DEF disassemble, ListingTo, LabelsOf, LabelOf, LineEnd

\* Three pieces are joined in either order.
LEMMA PrintingsAssociate ==
  \A s, t, u \in Seq(Printings) : s \o (t \o u) = (s \o t) \o u
<1> SUFFICES ASSUME NEW s \in Seq(Printings), NEW t \in Seq(Printings), NEW u \in Seq(Printings)
             PROVE  s \o (t \o u) = (s \o t) \o u
  OBVIOUS
<1> QED
  BY ConcatAssociative

\* A listing is its lines one after the other.
LEMMA ListingJoined ==
  ASSUME NEW p \in Seq(Instruction), NEW N \in Nat, N = Len(p),
         \A n \in 1..N : Listed(p[n])
  PROVE  \E parts \in [1..N+1 -> Seq(Printings)], joined \in [0..N+1 -> Seq(Printings)] :
           /\ \A n \in 1..N+1 : parts[n] = PartOf(p, n)
           /\ joined[0] = <<>> /\ \A n \in 1..N+1 : joined[n] = joined[n - 1] \o parts[n]
           /\ disassemble(p) = joined[N + 1]
<1>1. PICK parts : parts = [n \in 1..N+1 |-> PartOf(p, n)]
  OBVIOUS
<1>2. ASSUME NEW n \in 1..N
      PROVE  /\ LabelsOf(p, n) \in Seq(Printings) /\ string(p[n]) \in Seq(Printings)
             /\ PartOf(p, n) = LabelsOf(p, n) \o string(p[n])
  <2>1. p[n] \in Instruction /\ p[n].op # "CTR"
    BY DEF Listed
  <2>2. string(p[n]) \in Seq(Printings)
    BY <2>1, StringIsThat, PrintSeq
  <2>3. LabelOf(n - 1) \in Printings
    <3>1. n - 1 \in Nat
      OBVIOUS
    <3> QED
      BY <3>1, Zenon DEF Printings
  <2>4. LabelsOf(p, n) \in Seq(Printings)
    BY <2>3 DEF LabelsOf
  <2>5. n # N + 1
    OBVIOUS
  <2> QED
    BY <2>2, <2>4, <2>5 DEF PartOf
<1>3. LineEnd \in Printings /\ <<LineEnd>> \in Seq(Printings) /\ PartOf(p, N + 1) = <<LineEnd>>
  <2>1. LineEnd \in Printings
    BY Zenon DEF Printings
  <2> QED
    BY <2>1 DEF PartOf
<1>4. ASSUME NEW n \in 1..N+1 PROVE PartOf(p, n) \in Seq(Printings)
  <2>1. CASE n \in 1..N
    BY <1>2, <2>1, ConcatProperties
  <2>2. CASE n = N + 1
    BY <1>3, <2>2
  <2> QED
    BY <2>1, <2>2
<1>5. parts \in [1..N+1 -> Seq(Printings)]
  BY <1>1, <1>4
<1>6. PICK m \in Nat : m = N + 1
  OBVIOUS
<1>7. PICK U, qs : U = Printings /\ qs = parts
  OBVIOUS
<1>8. PICK joined \in [0..m -> Seq(Printings)] :
        joined[0] = <<>> /\ \A n \in 1..m : joined[n] = joined[n - 1] \o parts[n]
  <2>1. qs \in [1..m -> Seq(U)]
    BY <1>5, <1>6, <1>7
  <2>2. Joining(U, m, qs)
    BY <2>1, PartsJoin
  <2>3. Joining(Printings, m, parts)
    BY <1>7, <2>2
  <2> QED
    BY <2>3, Zenon DEF Joining
<1>9. \A n \in 1..N : joined[n] = joined[n - 1] \o LabelsOf(p, n) \o string(p[n])
  <2> SUFFICES ASSUME NEW n \in 1..N
               PROVE  joined[n] = joined[n - 1] \o LabelsOf(p, n) \o string(p[n])
    OBVIOUS
  <2>1. n \in 1..m /\ n - 1 \in 0..m
    BY <1>6
  <2>2. PICK s \in Seq(Printings), t \in Seq(Printings), u \in Seq(Printings) :
          s = joined[n - 1] /\ t = LabelsOf(p, n) /\ u = string(p[n])
    BY <1>2, <1>8, <2>1
  <2>3. PICK front, back : front = s \o t /\ back = t \o u
    OBVIOUS
  <2>4. s \o back = front \o u
    <3>2. s \in Seq(Printings) /\ t \in Seq(Printings) /\ u \in Seq(Printings)
      BY <2>2
    <3> QED
      BY <2>3, <3>2, PrintingsAssociate, Zenon
  <2>5. parts[n] = back
    BY <1>1, <1>2, <1>6, <2>1, <2>2, <2>3
  <2>6. joined[n] = s \o back
    BY <1>8, <2>1, <2>2, <2>5
  <2> QED
    BY <2>2, <2>3, <2>4, <2>6
<1>10. PICK f : f = [n \in 0..N |-> joined[n]]
  OBVIOUS
<1>11. f = [n \in 0..N |-> IF n = 0 THEN <<>> ELSE f[n - 1] \o LabelsOf(p, n) \o string(p[n])]
  <2>1. ASSUME NEW n \in 0..N
        PROVE  f[n] = IF n = 0 THEN <<>> ELSE f[n - 1] \o LabelsOf(p, n) \o string(p[n])
    <3>1. CASE n = 0
      BY <1>8, <1>10, <3>1
    <3>2. CASE n # 0
      <4>1. n \in 1..N /\ n - 1 \in 0..N
        BY <3>2
      <4>2. f[n] = joined[n] /\ f[n - 1] = joined[n - 1]
        BY <1>10, <4>1
      <4> QED
        BY <1>9, <3>2, <4>1, <4>2, Zenon
    <3> QED
      BY <3>1, <3>2
  <2> QED
    BY <1>10, <2>1, Zenon
<1>12. PICK g : g = ListingTo(p)
  OBVIOUS
<1>13. g = [n \in 0..N |-> IF n = 0 THEN <<>> ELSE g[n - 1] \o LabelsOf(p, n) \o string(p[n])]
  BY <1>11, <1>12, Zenon DEF ListingTo
<1>14. \A n \in 0..N : g[n] = IF n = 0 THEN <<>> ELSE g[n - 1] \o LabelsOf(p, n) \o string(p[n])
  BY <1>13, Zenon
<1>15. g[N] = joined[N]
  <2> DEFINE T == {n \in 0..N : g[n] # joined[n]}
  <2> SUFFICES ASSUME T # {} PROVE FALSE
    <3>1. N \in 0..N
      OBVIOUS
    <3> QED
      BY <3>1
  <2>1. PICK n \in T : \A y \in T : n <= y
    <3>1. T \in SUBSET Nat
      OBVIOUS
    <3> HIDE DEF T
    <3> QED
      BY <3>1, FirstPlace
  <2>2. n \in 0..N /\ g[n] # joined[n]
    BY <2>1
  <2>3. n # 0
    <3>1. 0 \in 0..N
      OBVIOUS
    <3>2. g[0] = <<>>
      BY <1>14, <3>1, Zenon
    <3> QED
      BY <1>8, <2>2, <3>2
  <2>4. n \in 1..N /\ n - 1 \in 0..N /\ ~(n <= n - 1)
    BY <2>2, <2>3
  <2>5. n - 1 \notin T
    <3> HIDE DEF T
    <3> QED
      BY <2>1, <2>4
  <2>6. g[n - 1] = joined[n - 1]
    BY <2>4, <2>5
  <2>7. g[n] = g[n - 1] \o LabelsOf(p, n) \o string(p[n])
    BY <1>14, <2>2, <2>3, Zenon
  <2> QED
    BY <1>9, <2>2, <2>4, <2>6, <2>7, Zenon
<1>16. disassemble(p) = joined[m]
  <2>1. m \in 1..m /\ m - 1 = N
    BY <1>6
  <2>2. parts[m] = <<LineEnd>>
    BY <1>1, <1>3, <1>6, <2>1
  <2>3. joined[m] = joined[N] \o <<LineEnd>>
    BY <1>8, <2>1, <2>2
  <2>4. disassemble(p) = g[N] \o <<LineEnd>>
    BY <1>12, ListingIsThat
  <2> QED
    BY <1>15, <2>3, <2>4
<1> QED
  BY <1>1, <1>5, <1>6, <1>8, <1>16

\* The tokens of a listing lie line by line: a label before what a jump names, the
\* tokens of the instruction behind it, and a break behind everything.
Laid(l, p, N, ends, heads) ==
  /\ ends \in [0..N -> Nat] /\ heads \in [1..N -> Nat] /\ ends[0] = 0
  /\ DOMAIN l = 1..ends[N]+1 /\ l[ends[N] + 1] = LineEnd
  /\ \A n \in 1..N :
       /\ heads[n] = ends[n - 1] + (IF n - 1 \in Targets(p) THEN 2 ELSE 1)
       /\ n - 1 \in Targets(p) => l[ends[n - 1] + 1] = LabelOf(n - 1)
       /\ ends[n] = heads[n] + Len(PrintOf(p[n])) - 1
       /\ \A j \in 1..Len(PrintOf(p[n])) : l[heads[n] + j - 1] = PrintOf(p[n])[j]
  /\ \A q \in 1..ends[N] : \E n \in 1..N : q > ends[n - 1] /\ q <= ends[n]

\* Every program that can be printed is listed like that (CoreState::disassemble).
LEMMA ListingLaid ==
  ASSUME NEW p \in Seq(Instruction), NEW N \in Nat, N = Len(p),
         \A n \in 1..N : Listed(p[n])
  PROVE  \E ends, heads : Laid(disassemble(p), p, N, ends, heads)
<1>1. PICK parts \in [1..N+1 -> Seq(Printings)], joined \in [0..N+1 -> Seq(Printings)] :
        /\ \A n \in 1..N+1 : parts[n] = PartOf(p, n)
        /\ joined[0] = <<>> /\ \A n \in 1..N+1 : joined[n] = joined[n - 1] \o parts[n]
        /\ disassemble(p) = joined[N + 1]
  BY ListingJoined
<1>2. PICK m \in Nat : m = N + 1
  OBVIOUS
<1>3. PICK U, ps, js : U = Printings /\ ps = parts /\ js = joined
  OBVIOUS
<1>4. m \in Nat /\ m = N + 1 /\ U = Printings /\ ps = parts /\ js = joined
  BY <1>2, <1>3
<1>5. /\ ps \in [1..m -> Seq(U)] /\ js \in [0..m -> Seq(U)] /\ js[0] = <<>>
      /\ \A n \in 1..m : js[n] = js[n - 1] \o ps[n]
  BY <1>1, <1>4
<1>6. /\ \A n \in 1..m : Len(js[n]) = Len(js[n - 1]) + Len(ps[n])
      /\ \A k \in 0..m : Lie(js, ps, k)
  BY <1>5, JoinsLie
<1>7. \A n \in 0..m : Len(js[n]) \in Nat
  BY <1>5, LenProperties
<1>8. PICK ends \in [0..N -> Nat] : ends = [n \in 0..N |-> Len(js[n])]
  <2>1. \A n \in 0..N : n \in 0..m
    BY <1>4
  <2>2. [n \in 0..N |-> Len(js[n])] \in [0..N -> Nat]
    BY <1>7, <2>1
  <2> QED
    BY <2>2
<1>9. PICK heads \in [1..N -> Nat] :
        heads = [n \in 1..N |-> ends[n - 1] + (IF n - 1 \in Targets(p) THEN 2 ELSE 1)]
  <2>1. \A n \in 1..N : n - 1 \in 0..N
    OBVIOUS
  <2>2. \A n \in 1..N : ends[n - 1] + (IF n - 1 \in Targets(p) THEN 2 ELSE 1) \in Nat
    BY <1>8, <2>1
  <2> QED
    BY <2>2
<1>10. ASSUME NEW n \in 1..N
      PROVE  /\ n \in 1..m /\ n - 1 \in 0..N /\ n \in 0..N /\ n - 1 \in 0..m
             /\ ends[n - 1] = Len(js[n - 1]) /\ ends[n] = Len(js[n])
             /\ ends[n] = ends[n - 1] + Len(ps[n])
  <2>1. n \in 1..m /\ n - 1 \in 0..N /\ n \in 0..N /\ n - 1 \in 0..m
    BY <1>4
  <2> QED
    BY <1>6, <1>8, <2>1
<1>11. ASSUME NEW n \in 1..N
      PROVE  /\ heads[n] = ends[n - 1] + (IF n - 1 \in Targets(p) THEN 2 ELSE 1)
             /\ n - 1 \in Targets(p) => js[m][ends[n - 1] + 1] = LabelOf(n - 1)
             /\ ends[n] = heads[n] + Len(PrintOf(p[n])) - 1
             /\ \A j \in 1..Len(PrintOf(p[n])) : js[m][heads[n] + j - 1] = PrintOf(p[n])[j]
  <2>1. heads[n] = ends[n - 1] + (IF n - 1 \in Targets(p) THEN 2 ELSE 1)
    BY <1>9
  <2>2. p[n] \in Instruction /\ p[n].op # "CTR" /\ string(p[n]) = PrintOf(p[n])
    <3>1. p[n] \in Instruction /\ p[n].op # "CTR"
      BY DEF Listed
    <3> QED
      BY <3>1, StringIsThat
  <2>3. PICK s \in Seq(U) : s = PrintOf(p[n]) /\ Len(s) \in Nat
    <3>1. PrintOf(p[n]) \in Seq(U) /\ Len(PrintOf(p[n])) \in {2, 3, 5}
      BY <1>4, <2>2, PrintSeq
    <3> QED
      BY <3>1
  <2>4. ps[n] = LabelsOf(p, n) \o s
    <3>1. n # N + 1 /\ n \in 1..N+1
      OBVIOUS
    <3>2. PartOf(p, n) = LabelsOf(p, n) \o string(p[n])
      BY <3>1 DEF PartOf
    <3> QED
      BY <1>1, <1>4, <2>2, <2>3, <3>1, <3>2
  <2>5. PICK e \in Nat, k \in Nat : e = ends[n - 1] /\ k = Len(s)
    BY <1>8, <1>10, <2>3
  <2>6. \A i \in 1..Len(ps[n]) : js[m][e + i] = ps[n][i]
    <3>1. Lie(js, ps, m) /\ n \in 1..m
      BY <1>4, <1>6, <1>10
    <3>2. \A i \in 1..Len(ps[n]) : js[m][Len(js[n - 1]) + i] = ps[n][i]
      BY <3>1 DEF Lie
    <3> QED
      BY <1>10, <2>5, <3>2
  <2>7. CASE n - 1 \in Targets(p)
    <3>1. PICK t : t = LabelOf(n - 1)
      OBVIOUS
    <3>2. t \in U
      <4>1. n - 1 \in Nat
        OBVIOUS
      <4> QED
        BY <1>4, <3>1, <4>1, Zenon DEF Printings
    <3>3. <<t>> \in Seq(U) /\ Len(<<t>>) = 1 /\ <<t>>[1] = t
      BY <3>2
    <3>4. PICK f \in Seq(U) : f = <<t>> /\ Len(f) = 1 /\ f[1] = t
      BY <3>3
    <3>5. PICK w : w = f \o s
      OBVIOUS
    <3>6. Len(w) = 1 + k /\ \A i \in 1..1+k : w[i] = IF i <= 1 THEN f[i] ELSE s[i - 1]
      BY <2>5, <3>4, <3>5, ConcatProperties
    <3>7. ps[n] = w
      BY <2>4, <2>7, <3>1, <3>4, <3>5 DEF LabelsOf
    <3>8. js[m][e + 1] = t
      <4>1. 1 \in 1..1+k /\ 1 <= 1
        OBVIOUS
      <4>2. w[1] = t
        BY <3>4, <3>6, <4>1
      <4> QED
        BY <2>6, <3>6, <3>7, <4>1, <4>2
    <3>9. heads[n] = e + 2
      BY <2>1, <2>5, <2>7
    <3>10. ends[n] = heads[n] + k - 1
      <4>1. Len(ps[n]) = 1 + k
        BY <3>6, <3>7
      <4>2. ends[n] = e + (1 + k)
        BY <1>10, <2>5, <4>1
      <4>3. e + (1 + k) = (e + 2) + k - 1
        OBVIOUS
      <4> QED
        BY <3>9, <4>2, <4>3
    <3>11. ASSUME NEW j \in 1..k PROVE js[m][heads[n] + j - 1] = s[j]
      <4>1. j + 1 \in 1..1+k /\ ~(j + 1 <= 1) /\ (j + 1) - 1 = j
        OBVIOUS
      <4>2. w[j + 1] = s[j]
        BY <3>6, <4>1
      <4>3. js[m][e + (j + 1)] = w[j + 1]
        BY <2>6, <3>6, <3>7, <4>1
      <4>4. heads[n] + j - 1 = e + (j + 1)
        BY <3>9
      <4> QED
        BY <4>2, <4>3, <4>4
    <3> QED
      BY <2>1, <2>3, <2>5, <3>1, <3>8, <3>10, <3>11
  <2>8. CASE n - 1 \notin Targets(p)
    <3>1. ps[n] = s
      <4>1. <<>> \o s = s
        BY <2>3, ConcatEmptySeq
      <4> QED
        BY <2>4, <2>8, <4>1 DEF LabelsOf
    <3>2. heads[n] = e + 1
      BY <2>1, <2>5, <2>8
    <3>3. ends[n] = heads[n] + k - 1
      <4>1. Len(ps[n]) = k
        BY <2>5, <3>1
      <4>2. ends[n] = e + k
        BY <1>10, <2>5, <4>1
      <4>3. e + k = (e + 1) + k - 1
        OBVIOUS
      <4> QED
        BY <3>2, <4>2, <4>3
    <3>4. ASSUME NEW j \in 1..k PROVE js[m][heads[n] + j - 1] = s[j]
      <4>1. heads[n] + j - 1 = e + j
        BY <3>2
      <4> QED
        BY <2>5, <2>6, <3>1, <4>1
    <3> QED
      BY <2>1, <2>3, <2>5, <2>8, <3>3, <3>4
  <2> QED
    BY <2>7, <2>8
<1>12. DOMAIN js[m] = 1..ends[N]+1 /\ js[m][ends[N] + 1] = LineEnd
  <2>1. m \in 1..m /\ m \in 0..m /\ m - 1 = N /\ N \in 0..N /\ N \in 0..m
    BY <1>4
  <2>2. PICK e \in Nat : e = ends[N] /\ e = Len(js[N])
    BY <1>8, <2>1
  <2>3. ps[m] = <<LineEnd>>
    BY <1>1, <1>4, <2>1 DEF PartOf
  <2>4. Len(ps[m]) = 1 /\ ps[m][1] = LineEnd
    BY <2>3
  <2>5. Len(js[m]) = e + 1
    BY <1>6, <2>1, <2>2, <2>4
  <2>6. js[m] \in Seq(U)
    BY <1>5, <2>1
  <2>7. DOMAIN js[m] = 1..e+1
    BY <2>5, <2>6, LenProperties
  <2>8. js[m][e + 1] = LineEnd
    <3>1. Lie(js, ps, m)
      BY <1>6, <2>1
    <3>2. \A i \in 1..Len(ps[m]) : js[m][Len(js[m - 1]) + i] = ps[m][i]
      BY <2>1, <3>1 DEF Lie
    <3>3. 1 \in 1..Len(ps[m])
      BY <2>4
    <3> QED
      BY <2>1, <2>2, <2>4, <3>2, <3>3
  <2> QED
    BY <2>2, <2>7, <2>8
<1>13. \A q \in 1..ends[N] : \E n \in 1..N : q > ends[n - 1] /\ q <= ends[n]
  <2> SUFFICES ASSUME NEW q \in 1..ends[N]
               PROVE  \E n \in 1..N : q > ends[n - 1] /\ q <= ends[n]
    OBVIOUS
  <2>1. N \in 0..m /\ N \in 0..N
    BY <1>4
  <2>2. Lie(js, ps, N) /\ ends[N] = Len(js[N])
    BY <1>6, <1>8, <2>1
  <2>3. PICK n \in 1..N : q > Len(js[n - 1]) /\ q <= Len(js[n - 1]) + Len(ps[n])
    BY <2>2 DEF Lie
  <2> QED
    BY <1>10, <2>3
<1>14. disassemble(p) = js[m]
  BY <1>1, <1>4
<1>15. Laid(js[m], p, N, ends, heads)
  <2>1. ends[0] = 0
    <3>1. 0 \in 0..N /\ Len(js[0]) = 0
      BY <1>5, EmptySeq
    <3> QED
      BY <1>8, <3>1
  <2> QED
    BY <1>11, <1>12, <1>13, <2>1 DEF Laid
<1> QED
  BY <1>14, <1>15

\* The token at each place of what is printed of an instruction.
LEMMA PrintTokens ==
  ASSUME NEW i, Listed(i), NEW k, k = Len(PrintOf(i))
  PROVE  /\ k \in {2, 3, 5} /\ PrintOf(i)[1] = HeadOf(i) /\ PrintOf(i)[k] = LineEnd
         /\ \A j \in 2..k-1 :
              /\ PrintOf(i)[j].type \notin {"BREAK", "LABEL"}
              /\ PrintOf(i)[j].type = "IDENTIFIER" => PrintOf(i)[j].lexeme \notin {"begin", "end"}
<1>1. PICK h, a, b, c, n, g, e :
        /\ h = HeadOf(i) /\ a = Mask(i.a) /\ b = Mask(i.b) /\ c = Comma /\ n = Number(i)
        /\ g = Goal(i) /\ e = LineEnd
  OBVIOUS
<1>2. PrintOf(i) = CASE i.op = "NOP" -> <<h, e>>
                      [] i.op = "CID" -> <<h, n, e>>
                      [] i.op \in {"SET", "SHR"} -> <<h, a, c, n, e>>
                      [] i.op = "JPI" -> <<h, g, e>>
                      [] OTHER -> <<h, a, c, b, e>>
  BY <1>1, Zenon DEF PrintOf
<1> DEFINE Inner(t) == /\ t.type \notin {"BREAK", "LABEL"}
                       /\ t.type = "IDENTIFIER" => t.lexeme \notin {"begin", "end"}
<1>3. Inner(a) /\ Inner(b) /\ Inner(n)
  BY <1>1 DEF Mask, Number, Printed
<1>4. Inner(c)
  <2>1. c.type = "SYMBOL"
    BY <1>1, Zenon DEF Comma, Printed
  <2> QED
    BY <2>1
<1>5. Inner(g)
  <2>1. i.a \in Word /\ i.b \in Word
    BY DEF Listed, Instruction
  <2>2. JumpAddress(i.a, i.b) \in Address
    BY <2>1, JumpAddressType
  <2>3. LabelName[JumpAddress(i.a, i.b)] \notin {"begin", "end"}
    BY <2>2, LabelNamesAssumption
  <2>4. g.type = "IDENTIFIER" /\ g.lexeme = LabelName[JumpAddress(i.a, i.b)]
    BY <1>1, Zenon DEF Goal, Printed
  <2> QED
    BY <2>3, <2>4
<1> HIDE DEF Inner
<1>6. PICK s : s = PrintOf(i)
  OBVIOUS
<1>7. /\ Len(s) \in {2, 3, 5} /\ s[1] = h /\ s[Len(s)] = e
      /\ \A j \in 2..Len(s)-1 : Inner(s[j])
  <2>1. \/ s = <<h, e>>
        \/ s = <<h, n, e>>
        \/ s = <<h, a, c, n, e>>
        \/ s = <<h, g, e>>
        \/ s = <<h, a, c, b, e>>
    BY <1>2, <1>6
  <2>2. CASE s = <<h, e>>
    BY <2>2
  <2>3. CASE s = <<h, n, e>>
    BY <1>3, <2>3
  <2>4. CASE s = <<h, a, c, n, e>>
    BY <1>3, <1>4, <2>4
  <2>5. CASE s = <<h, g, e>>
    BY <1>5, <2>5
  <2>6. CASE s = <<h, a, c, b, e>>
    BY <1>3, <1>4, <2>6
  <2> QED
    BY <2>1, <2>2, <2>3, <2>4, <2>5, <2>6
<1> QED
  BY <1>1, <1>6, <1>7 DEF Inner

\* A listing whose jumps have labels.
Fine(l, p, N, ends, heads) ==
  /\ N \in Nat /\ p \in [1..N -> Instruction]
  /\ \A n \in 1..N : /\ Listed(p[n])
                     /\ p[n].op = "JPI" => JumpAddress(p[n].a, p[n].b) < N
  /\ Laid(l, p, N, ends, heads)

\* Its lines follow each other.
LEMMA LinesFollow ==
  ASSUME NEW l, NEW p, NEW N, NEW ends, NEW heads, Fine(l, p, N, ends, heads)
  PROVE  /\ N \in Nat /\ \A n \in 0..N : ends[n] \in Nat
         /\ \A n \in 1..N :
              /\ n - 1 \in 0..N /\ heads[n] \in Nat
              /\ heads[n] = ends[n - 1] + (IF n - 1 \in Targets(p) THEN 2 ELSE 1)
              /\ heads[n] < ends[n]
         /\ \A m \in 0..N : \A n \in 0..m : ends[n] <= ends[m]
<1>1. N \in Nat /\ \A n \in 0..N : ends[n] \in Nat
  BY DEF Fine, Laid
<1>2. ASSUME NEW n \in 1..N
      PROVE  /\ n - 1 \in 0..N /\ heads[n] \in Nat
             /\ heads[n] = ends[n - 1] + (IF n - 1 \in Targets(p) THEN 2 ELSE 1)
             /\ heads[n] < ends[n]
  <2>1. n - 1 \in 0..N
    BY <1>1
  <2>2. heads[n] \in Nat
    BY DEF Fine, Laid
  <2>3. PICK k \in Nat : k = Len(PrintOf(p[n])) /\ k >= 2
    <3>1. PICK c : c = Len(PrintOf(p[n]))
      OBVIOUS
    <3>2. c \in {2, 3, 5}
      BY <3>1, PrintTokens DEF Fine
    <3>3. c \in Nat /\ c >= 2
      BY <3>2
    <3> QED
      BY <3>1, <3>3, Zenon
  <2>4. ends[n] = heads[n] + k - 1
    BY <2>3 DEF Fine, Laid
  <2>5. heads[n] = ends[n - 1] + (IF n - 1 \in Targets(p) THEN 2 ELSE 1)
    BY DEF Fine, Laid
  <2>6. heads[n] < heads[n] + k - 1
    <3>1. PICK a \in Nat, c \in Nat : a = heads[n] /\ c = k /\ c >= 2
      BY <2>2, <2>3
    <3>2. a < a + c - 1
      BY <3>1
    <3> QED
      BY <3>1, <3>2, Zenon
  <2> QED
    BY <2>1, <2>2, <2>4, <2>5, <2>6, Zenon
<1>3. \A m \in 0..N : \A n \in 0..m : ends[n] <= ends[m]
  <2> DEFINE T == {m \in 0..N : ~(\A n \in 0..m : ends[n] <= ends[m])}
  <2> SUFFICES ASSUME T # {} PROVE FALSE
    OBVIOUS
  <2>1. PICK m \in T : \A y \in T : m <= y
    <3>1. T \in SUBSET Nat
      OBVIOUS
    <3> HIDE DEF T
    <3> QED
      BY <3>1, FirstPlace
  <2>2. m \in 0..N /\ ~(\A n \in 0..m : ends[n] <= ends[m])
    BY <2>1
  <2>3. PICK n \in 0..m : ~(ends[n] <= ends[m])
    BY <2>2
  <2>4. n # m /\ m \in 1..N /\ m - 1 \in 0..N /\ ~(m <= m - 1) /\ n \in 0..m-1 /\ n \in 0..N
    BY <1>1, <2>2, <2>3
  <2>5. m - 1 \notin T
    <3> HIDE DEF T
    <3> QED
      BY <2>1, <2>4
  <2>6. ends[n] <= ends[m - 1]
    BY <2>4, <2>5
  <2>7. ends[m - 1] <= ends[m]
    <3>1. heads[m] \in Nat /\ ends[m - 1] \in Nat /\ ends[m] \in Nat
      BY <1>1, <1>2, <2>4
    <3>2. heads[m] = ends[m - 1] + (IF m - 1 \in Targets(p) THEN 2 ELSE 1) /\ heads[m] < ends[m]
      BY <1>2, <2>4
    <3> QED
      BY <3>1, <3>2
  <2>8. ends[n] \in Nat /\ ends[m - 1] \in Nat /\ ends[m] \in Nat
    BY <1>1, <2>2, <2>4
  <2> QED
    BY <2>3, <2>6, <2>7, <2>8
<1> QED
  BY <1>1, <1>2, <1>3

\* What each token of it is.
LEMMA TokensLaid ==
  ASSUME NEW l, NEW p, NEW N, NEW ends, NEW heads, Fine(l, p, N, ends, heads)
  PROVE  /\ l[ends[N] + 1] = LineEnd
         /\ \A n \in 1..N : /\ l[ends[n]] = LineEnd /\ l[heads[n]] = HeadOf(p[n])
                            /\ n - 1 \in Targets(p) => l[ends[n - 1] + 1] = LabelOf(n - 1)
         /\ \A n \in 1..N : \A q \in Nat : heads[n] < q /\ q < ends[n] =>
              /\ l[q].type \notin {"BREAK", "LABEL"}
              /\ l[q].type = "IDENTIFIER" => l[q].lexeme \notin {"begin", "end"}
<1>1. l[ends[N] + 1] = LineEnd
  BY DEF Fine, Laid
<1>2. ASSUME NEW n \in 1..N
      PROVE  /\ l[ends[n]] = LineEnd /\ l[heads[n]] = HeadOf(p[n])
             /\ n - 1 \in Targets(p) => l[ends[n - 1] + 1] = LabelOf(n - 1)
             /\ \A q \in Nat : heads[n] < q /\ q < ends[n] =>
                  /\ l[q].type \notin {"BREAK", "LABEL"}
                  /\ l[q].type = "IDENTIFIER" => l[q].lexeme \notin {"begin", "end"}
  <2>1. PICK s, k : /\ s = PrintOf(p[n]) /\ k = Len(s) /\ k \in {2, 3, 5}
                    /\ s[1] = HeadOf(p[n]) /\ s[k] = LineEnd
                    /\ \A j \in 2..k-1 :
                         /\ s[j].type \notin {"BREAK", "LABEL"}
                         /\ s[j].type = "IDENTIFIER" => s[j].lexeme \notin {"begin", "end"}
    BY PrintTokens DEF Fine
  <2>2. PICK a \in Nat : a = heads[n]
    BY LinesFollow
  <2>3. \A j \in 1..k : l[a + j - 1] = s[j]
    BY <2>1, <2>2 DEF Fine, Laid
  <2>4. ends[n] = a + k - 1
    BY <2>1, <2>2 DEF Fine, Laid
  <2>5. l[a] = HeadOf(p[n])
    <3>1. 1 \in 1..k /\ a + 1 - 1 = a
      BY <2>1
    <3> QED
      BY <2>1, <2>3, <3>1
  <2>6. l[a + k - 1] = LineEnd
    <3>1. k \in 1..k
      BY <2>1
    <3> QED
      BY <2>1, <2>3, <3>1
  <2>7. n - 1 \in Targets(p) => l[ends[n - 1] + 1] = LabelOf(n - 1)
    BY DEF Fine, Laid
  <2>8. ASSUME NEW q \in Nat, a < q, q < a + k - 1
        PROVE  /\ l[q].type \notin {"BREAK", "LABEL"}
               /\ l[q].type = "IDENTIFIER" => l[q].lexeme \notin {"begin", "end"}
    <3>1. PICK j \in 2..k-1 : j = q - a + 1
      BY <2>1, <2>8
    <3>2. j \in 1..k /\ a + j - 1 = q
      BY <2>1, <3>1
    <3>3. l[q] = s[j]
      BY <2>3, <3>2
    <3> QED
      BY <2>1, <3>1, <3>3
  <2> QED
    BY <2>2, <2>4, <2>5, <2>6, <2>7, <2>8
<1> QED
  BY <1>1, <1>2

\* Each place is one of these.
LEMMA PlacesLaid ==
  ASSUME NEW l, NEW p, NEW N, NEW ends, NEW heads, Fine(l, p, N, ends, heads), NEW q \in 1..ends[N]+1
  PROVE  \/ q = ends[N] + 1
         \/ \E n \in 1..N : \/ n - 1 \in Targets(p) /\ q = ends[n - 1] + 1
                            \/ q = heads[n]
                            \/ heads[n] < q /\ q < ends[n]
                            \/ q = ends[n]
<1>1. PICK z \in Nat : z = ends[N]
  <2>1. N \in 0..N
    BY LinesFollow
  <2> QED
    BY <2>1, LinesFollow
<1>2. CASE q = z + 1
  BY <1>1, <1>2
<1>3. CASE q # z + 1
  <2>1. q \in 1..z
    BY <1>1, <1>3
  <2>2. PICK n \in 1..N : q > ends[n - 1] /\ q <= ends[n]
    BY <1>1, <2>1 DEF Fine, Laid
  <2>3. PICK a \in Nat, b \in Nat, c \in Nat :
          /\ a = ends[n - 1] /\ b = heads[n] /\ c = ends[n] /\ b < c
          /\ b = a + (IF n - 1 \in Targets(p) THEN 2 ELSE 1)
    <3>1. n \in 0..N /\ n - 1 \in 0..N
      BY LinesFollow
    <3> QED
      BY <3>1, LinesFollow
  <2>4. \/ n - 1 \in Targets(p) /\ q = a + 1
        \/ q = b
        \/ b < q /\ q < c
        \/ q = c
    <3>1. q \in Nat /\ q > a /\ q <= c
      BY <2>1, <2>2, <2>3
    <3> QED
      BY <2>3, <3>1
  <2> QED
    BY <2>3, <2>4
<1> QED
  BY <1>2, <1>3

\* What the tokens of listings are, one by one.
LEMMA PrintedKinds ==
  /\ LineEnd.type = "BREAK" /\ \A n : LabelOf(n).type = "LABEL"
  /\ \A i : HeadOf(i).type = "IDENTIFIER" /\ HeadOf(i).cond = CondOf(i) /\ HeadOf(i).lexeme = NameOf(i)
<1>1. LineEnd.type = "BREAK"
  BY Zenon DEF LineEnd, Printed
<1>2. \A n : LabelOf(n).type = "LABEL"
  BY Zenon DEF LabelOf, Printed
<1>3. \A i : HeadOf(i).type = "IDENTIFIER" /\ HeadOf(i).cond = CondOf(i) /\ HeadOf(i).lexeme = NameOf(i)
  BY DEF HeadOf
<1> QED
  BY <1>1, <1>2, <1>3

\* No listing has blocks.
LEMMA NoBlocks ==
  ASSUME NEW l, NEW p, NEW N, NEW ends, NEW heads, Fine(l, p, N, ends, heads), NEW q \in 1..ends[N]+1,
         l[q].type = "IDENTIFIER"
  PROVE  l[q].lexeme \notin {"begin", "end"}
<1>1. q \in Nat
  <2>1. N \in 0..N
    BY LinesFollow
  <2>2. ends[N] \in Nat
    BY <2>1, LinesFollow
  <2> QED
    BY <2>2
<1>2. CASE q = ends[N] + 1
  BY <1>2, TokensLaid, PrintedKinds
<1>3. ASSUME NEW n \in 1..N, n - 1 \in Targets(p), q = ends[n - 1] + 1 PROVE FALSE
  BY <1>3, TokensLaid, PrintedKinds
<1>4. ASSUME NEW n \in 1..N, q = heads[n] PROVE l[q].lexeme \notin {"begin", "end"}
  <2>1. l[q].lexeme = NameOf(p[n])
    BY <1>4, TokensLaid, PrintedKinds
  <2>2. p[n].op \in Ops \ {"EXT"}
    BY DEF Fine, Listed, Instruction
  <2> QED
    BY <2>1, <2>2, NameFacts
<1>5. ASSUME NEW n \in 1..N, heads[n] < q, q < ends[n] PROVE l[q].lexeme \notin {"begin", "end"}
  BY <1>1, <1>5, TokensLaid
<1>6. ASSUME NEW n \in 1..N, q = ends[n] PROVE FALSE
  BY <1>6, TokensLaid, PrintedKinds
<1> QED
  BY <1>2, <1>3, <1>4, <1>5, <1>6, PlacesLaid

\* Where a line begins.
Begins(l, q) == q = 1 \/ l[q - 1].type \in {"BREAK", "LABEL"}

\* Lines begin at labels, at mnemonics and at the end.
LEMMA LinesBegin ==
  ASSUME NEW l, NEW p, NEW N, NEW ends, NEW heads, Fine(l, p, N, ends, heads)
  PROVE  /\ \A n \in 0..N : Begins(l, ends[n] + 1)
         /\ \A n \in 1..N : Begins(l, heads[n])
         /\ \A q \in 1..ends[N]+1 : Begins(l, q) =>
              \/ q = ends[N] + 1
              \/ \E n \in 1..N : q = heads[n] \/ (n - 1 \in Targets(p) /\ q = ends[n - 1] + 1)
<1>1. ASSUME NEW n \in 0..N PROVE Begins(l, ends[n] + 1)
  <2>1. PICK e \in Nat : e = ends[n]
    BY LinesFollow
  <2>2. CASE n = 0
    BY <2>2 DEF Fine, Laid, Begins
  <2>3. CASE n # 0
    <3>1. n \in 1..N /\ e + 1 - 1 = e
      BY <2>3, LinesFollow
    <3>2. l[e].type = "BREAK"
      BY <2>1, <3>1, TokensLaid, PrintedKinds
    <3> QED
      BY <2>1, <3>1, <3>2 DEF Begins
  <2> QED
    BY <2>2, <2>3
<1>2. ASSUME NEW n \in 1..N PROVE Begins(l, heads[n])
  <2>1. PICK e \in Nat : e = ends[n - 1]
    BY LinesFollow
  <2>2. n - 1 \in 0..N /\ heads[n] = e + (IF n - 1 \in Targets(p) THEN 2 ELSE 1)
    BY <2>1, LinesFollow
  <2>3. CASE n - 1 \in Targets(p)
    <3>1. heads[n] - 1 = e + 1
      BY <2>2, <2>3
    <3>2. l[e + 1].type = "LABEL"
      BY <2>1, <2>3, TokensLaid, PrintedKinds
    <3> QED
      BY <3>1, <3>2 DEF Begins
  <2>4. CASE n - 1 \notin Targets(p)
    <3>1. heads[n] = ends[n - 1] + 1
      BY <2>1, <2>2, <2>4
    <3> QED
      BY <1>1, <2>2, <3>1
  <2> QED
    BY <2>3, <2>4
<1>3. ASSUME NEW q \in 1..ends[N]+1, Begins(l, q)
      PROVE  \/ q = ends[N] + 1
             \/ \E n \in 1..N : q = heads[n] \/ (n - 1 \in Targets(p) /\ q = ends[n - 1] + 1)
  <2>1. PICK z \in Nat : z = ends[N] /\ N \in Nat
    <3>1. N \in 0..N
      BY LinesFollow
    <3> QED
      BY <3>1, LinesFollow
  <2>2. ASSUME NEW n \in 0..N, q = ends[n] + 1
        PROVE  \/ q = ends[N] + 1
               \/ \E k \in 1..N : q = heads[k] \/ (k - 1 \in Targets(p) /\ q = ends[k - 1] + 1)
    <3>1. CASE n = N
      BY <2>2, <3>1
    <3>2. CASE n # N
      <4>1. PICK k \in 1..N : k = n + 1
        BY <2>1, <3>2
      <4>2. k - 1 = n
        BY <4>1
      <4>3. heads[k] = ends[n] + (IF n \in Targets(p) THEN 2 ELSE 1)
        BY <4>2, LinesFollow
      <4>4. CASE n \in Targets(p)
        BY <2>2, <4>2, <4>4
      <4>5. CASE n \notin Targets(p)
        BY <2>2, <4>3, <4>5
      <4> QED
        BY <4>4, <4>5
    <3> QED
      BY <3>1, <3>2
  <2>3. CASE q = 1
    <3>1. 0 \in 0..N /\ q = ends[0] + 1
      BY <2>1, <2>3 DEF Fine, Laid
    <3> QED
      BY <2>2, <3>1
  <2>4. CASE q # 1
    <3>1. PICK r \in 1..z+1 : r = q - 1 /\ q = r + 1 /\ r # z + 1
      <4>1. q - 1 \in 1..z+1 /\ q = (q - 1) + 1 /\ q - 1 # z + 1
        BY <1>3, <2>1, <2>4
      <4> QED
        BY <4>1
    <3>2. l[r].type \in {"BREAK", "LABEL"}
      BY <1>3, <2>4, <3>1 DEF Begins
    <3>3. PICK n \in 1..N : \/ n - 1 \in Targets(p) /\ r = ends[n - 1] + 1
                            \/ r = heads[n]
                            \/ heads[n] < r /\ r < ends[n]
                            \/ r = ends[n]
      BY <2>1, <3>1, PlacesLaid
    <3>4. CASE n - 1 \in Targets(p) /\ r = ends[n - 1] + 1
      <4>1. PICK e \in Nat : e = ends[n - 1] /\ heads[n] = e + 2
        BY <3>4, LinesFollow
      <4>2. q = heads[n]
        BY <3>1, <3>4, <4>1
      <4> QED
        BY <4>2
    <3>5. r # heads[n]
      BY <3>2, TokensLaid, PrintedKinds
    <3>6. ~(heads[n] < r /\ r < ends[n])
      <4>1. r \in Nat
        BY <3>1
      <4> QED
        BY <3>2, <4>1, TokensLaid
    <3>7. CASE r = ends[n]
      <4>1. n \in 0..N /\ q = ends[n] + 1
        BY <2>1, <3>1, <3>7
      <4> QED
        BY <2>2, <4>1
    <3> QED
      BY <3>3, <3>4, <3>5, <3>6, <3>7
  <2> QED
    BY <2>3, <2>4
<1> QED
  BY <1>1, <1>2, <1>3

(***************************************************************************)
(* A listing as a source.                                                  *)
(***************************************************************************)
LineAt(l, q, kinds) ==
  /\ q + Len(kinds) + 1 \in DOMAIN l
  /\ \A i \in DOMAIN kinds : l[q + i].type = kinds[i]
  /\ l[q + Len(kinds) + 1].type = "BREAK"

JumpAt(l, q) == l[q].lexeme = "jmp" /\ LineAt(l, q, <<"IDENTIFIER">>)

BlockWord(l, q) == l[q].type = "IDENTIFIER" /\ l[q].cond = "" /\ l[q].lexeme \in {"begin", "end"}

\* That is what a source's lines and statements are.
LEMMA SourceIsThat ==
  ASSUME NEW l
  PROVE  /\ \A q : Source(l)!LineStart(q) <=> Begins(l, q) \/ BlockWord(l, q - 1)
         /\ \A q : Source(l)!JumpToLabel(q) <=> JumpAt(l, q)
         /\ \A q : Source(l)!StatementAt(q) <=>
              /\ Source(l)!LineStart(q)
              /\ l[q].type = "IDENTIFIER"
              /\ l[q].cond \in AP!conditions \cup {""}
              /\ l[q].lexeme \in DOMAIN AP!Operands
              /\ JumpAt(l, q) \/ LineAt(l, q, AP!Operands[l[q].lexeme])
         /\ Source(l)!Statements = {q \in DOMAIN l : Source(l)!StatementAt(q)}
<1>1. \A q : Source(l)!LineStart(q) <=> Begins(l, q) \/ BlockWord(l, q - 1)
  BY DEF Source!LineStart, Source!Is, Begins, BlockWord
<1>2. \A q, kinds : Source(l)!Line(q, kinds) <=> LineAt(l, q, kinds)
  BY Zenon DEF Source!Line, Source!Places, LineAt
<1>3. \A q : Source(l)!JumpToLabel(q) <=> JumpAt(l, q)
  BY <1>2, Zenon DEF Source!JumpToLabel, JumpAt
<1>4. Source(l)!conditions = AP!conditions /\ Source(l)!Operands = AP!Operands
  BY Zenon DEF Source!conditions, AP!conditions, Source!Operands, AP!Operands, Source!Binary,
    AP!Binary, Source!Immediate, AP!Immediate
<1>5. \A q : Source(l)!StatementAt(q) <=>
              /\ Source(l)!LineStart(q)
              /\ l[q].type = "IDENTIFIER"
              /\ l[q].cond \in AP!conditions \cup {""}
              /\ l[q].lexeme \in DOMAIN AP!Operands
              /\ JumpAt(l, q) \/ LineAt(l, q, AP!Operands[l[q].lexeme])
  BY <1>2, <1>3, <1>4, Zenon DEF Source!StatementAt
<1>6. Source(l)!Statements = {q \in DOMAIN l : Source(l)!StatementAt(q)}
  BY Zenon DEF Source!Statements, Source!Places
<1> QED
  BY <1>1, <1>3, <1>5, <1>6

\* What follows a mnemonic that is printed, and what the operands are.
LEMMA LineLaid ==
  ASSUME NEW l, NEW p, NEW N, NEW ends, NEW heads, Fine(l, p, N, ends, heads), NEW n \in 1..N,
         NEW a, a = heads[n], NEW i, i = p[n]
  PROVE  /\ JumpAt(l, a) <=> i.op = "JPI"
         /\ JumpAt(l, a) \/ LineAt(l, a, AP!Operands[NameOf(i)])
         /\ a + 1 \in DOMAIN l
         /\ i.op = "CID" => l[a + 1] = Number(i)
         /\ i.op \in {"SET", "SHR"} => l[a + 1] = Mask(i.a) /\ l[a + 3] = Number(i)
         /\ i.op = "JPI" => l[a + 1] = Goal(i)
         /\ i.op \notin {"NOP", "CID", "SET", "SHR", "JPI"} =>
              l[a + 1] = Mask(i.a) /\ l[a + 3] = Mask(i.b)
<1>1. PICK s, k : /\ s = PrintOf(i) /\ k = Len(s)
  OBVIOUS
<1>2. k \in {2, 3, 5} /\ Listed(i) /\ i \in Instruction
  BY <1>1, PrintTokens DEF Fine, Listed
<1>3. a \in Nat /\ a >= 1
  <2>1. heads[n] \in Nat /\ ends[n - 1] \in Nat /\ heads[n] = ends[n - 1] + (IF n - 1 \in Targets(p) THEN 2 ELSE 1)
    BY LinesFollow
  <2> QED
    BY <2>1
<1>4. /\ ends[n] = a + k - 1
      /\ \A j \in 1..k : l[a + j - 1] = s[j]
  BY <1>1 DEF Fine, Laid
<1>5. \A j \in 1..k : a + j - 1 \in DOMAIN l
  <2>1. PICK z \in Nat : z = ends[N] /\ N \in Nat
    <3>1. N \in 0..N
      BY LinesFollow
    <3> QED
      BY <3>1, LinesFollow
  <2>2. N \in 0..N /\ n \in 0..N
    BY <2>1
  <2>3. ends[n] <= ends[N]
    BY <2>2, LinesFollow
  <2>4. a + k - 1 <= z
    BY <1>4, <2>1, <2>3
  <2>5. DOMAIN l = 1..z+1
    BY <2>1 DEF Fine, Laid
  <2> QED
    BY <1>2, <1>3, <2>4, <2>5
<1>6. PICK h, x, b, c, m, g, e :
        /\ h = HeadOf(i) /\ x = Mask(i.a) /\ b = Mask(i.b) /\ c = Comma /\ m = Number(i)
        /\ g = Goal(i) /\ e = LineEnd
  OBVIOUS
<1>7. s = CASE i.op = "NOP" -> <<h, e>>
            [] i.op = "CID" -> <<h, m, e>>
            [] i.op \in {"SET", "SHR"} -> <<h, x, c, m, e>>
            [] i.op = "JPI" -> <<h, g, e>>
            [] OTHER -> <<h, x, c, b, e>>
  BY <1>1, <1>6, Zenon DEF PrintOf
<1>8. /\ h.lexeme = NameOf(i) /\ x.type = "REGSET" /\ b.type = "REGSET" /\ c.type = "SYMBOL"
      /\ m.type = "INTEGER" /\ g.type = "IDENTIFIER" /\ e.type = "BREAK"
  BY <1>6, PrintedKinds, Zenon DEF Mask, Comma, Number, Goal, Printed
<1>9. l[a] = h
  BY <1>6, TokensLaid
<1>10. NameOf(i) = "jmp" <=> i.op \in {"JPR", "JPI"}
  <2>1. i.op \in Ops \ {"EXT"}
    BY <1>2 DEF Listed, Instruction
  <2> QED
    BY <2>1, NameFacts DEF JumpOps
<1>11. PICK kinds : kinds = AP!Operands[NameOf(i)]
  OBVIOUS
<1>12. i.op \in Ops \ {"EXT", "CTR"}
  BY <1>2 DEF Listed, Instruction
<1>13. CASE k = 2
  <2>1. s = <<h, e>> /\ i.op = "NOP"
    BY <1>1, <1>7, <1>13
  <2>2. l[a + 1] = e /\ a + 1 \in DOMAIN l
    <3>1. 2 \in 1..k /\ a + 2 - 1 = a + 1
      BY <1>3, <1>13
    <3> QED
      BY <1>4, <1>5, <2>1, <3>1
  <2>3. kinds = <<>>
    BY <1>11, <1>12, <2>1, OperandKinds
  <2>4. LineAt(l, a, kinds)
    <3>1. Len(<<>>) = 0 /\ DOMAIN <<>> = {} /\ a + 0 + 1 = a + 1
      BY <1>3
    <3> QED
      BY <1>8, <2>2, <2>3, <3>1 DEF LineAt
  <2>5. ~JumpAt(l, a)
    BY <1>8, <1>9, <1>10, <2>1 DEF JumpAt
  <2> QED
    BY <1>11, <2>1, <2>2, <2>4, <2>5
<1>14. CASE k = 3
  <2>1. \/ s = <<h, m, e>> /\ i.op = "CID"
        \/ s = <<h, g, e>> /\ i.op = "JPI"
    BY <1>1, <1>7, <1>14
  <2>2. l[a + 1] = s[2] /\ l[a + 2] = s[3] /\ a + 1 \in DOMAIN l /\ a + 2 \in DOMAIN l
    <3>1. 2 \in 1..k /\ a + 2 - 1 = a + 1 /\ 3 \in 1..k /\ a + 3 - 1 = a + 2
      BY <1>3, <1>14
    <3> QED
      BY <1>4, <1>5, <3>1
  <2>3. ASSUME NEW t, t = l[a + 1].type PROVE LineAt(l, a, <<t>>)
    <3>0. Len(<<t>>) = 1 /\ DOMAIN <<t>> = {1} /\ <<t>>[1] = t
      OBVIOUS
    <3>1. PICK ks : ks = <<t>> /\ Len(ks) = 1 /\ DOMAIN ks = {1} /\ ks[1] = t
      BY <3>0, Zenon
    <3>2. a + Len(ks) + 1 = a + 2
      BY <1>3, <3>1
    <3>3. l[a + 2].type = "BREAK"
      BY <1>8, <2>1, <2>2
    <3> QED
      BY <2>2, <2>3, <3>1, <3>2, <3>3 DEF LineAt
  <2>4. CASE s = <<h, m, e>> /\ i.op = "CID"
    <3>1. l[a + 1] = m
      BY <2>2, <2>4
    <3>2. LineAt(l, a, <<"INTEGER">>)
      BY <1>8, <2>3, <3>1
    <3>3. kinds = <<"INTEGER">>
      BY <1>11, <1>12, <2>4, OperandKinds
    <3>4. ~JumpAt(l, a)
      BY <1>8, <1>9, <1>10, <2>4 DEF JumpAt
    <3> QED
      BY <1>6, <1>11, <2>2, <2>4, <3>1, <3>2, <3>3, <3>4
  <2>5. CASE s = <<h, g, e>> /\ i.op = "JPI"
    <3>1. l[a + 1] = g
      BY <2>2, <2>5
    <3>2. LineAt(l, a, <<"IDENTIFIER">>)
      BY <1>8, <2>3, <3>1
    <3>3. JumpAt(l, a)
      BY <1>8, <1>9, <1>10, <2>5, <3>2 DEF JumpAt
    <3> QED
      BY <1>6, <2>2, <2>5, <3>1, <3>3
  <2> QED
    BY <2>1, <2>4, <2>5
<1>15. CASE k = 5
  <2>1. \/ s = <<h, x, c, m, e>> /\ i.op \in {"SET", "SHR"}
        \/ s = <<h, x, c, b, e>> /\ i.op \notin {"NOP", "CID", "SET", "SHR", "JPI"}
    BY <1>1, <1>7, <1>15
  <2>2. /\ l[a + 1] = s[2] /\ l[a + 2] = s[3] /\ l[a + 3] = s[4] /\ l[a + 4] = s[5]
        /\ a + 1 \in DOMAIN l /\ a + 4 \in DOMAIN l
    <3>1. /\ 2 \in 1..k /\ a + 2 - 1 = a + 1 /\ 3 \in 1..k /\ a + 3 - 1 = a + 2
          /\ 4 \in 1..k /\ a + 4 - 1 = a + 3 /\ 5 \in 1..k /\ a + 5 - 1 = a + 4
      BY <1>3, <1>15
    <3> QED
      BY <1>4, <1>5, <3>1
  <2>3. l[a + 1] = x /\ l[a + 2] = c /\ l[a + 4] = e /\ l[a + 1].type = "REGSET"
    BY <1>8, <2>1, <2>2
  <2>4. ASSUME NEW t, t = l[a + 3].type PROVE LineAt(l, a, <<"REGSET", "SYMBOL", t>>)
    <3>0. /\ Len(<<"REGSET", "SYMBOL", t>>) = 3 /\ DOMAIN <<"REGSET", "SYMBOL", t>> = {1, 2, 3}
          /\ <<"REGSET", "SYMBOL", t>>[1] = "REGSET" /\ <<"REGSET", "SYMBOL", t>>[2] = "SYMBOL"
          /\ <<"REGSET", "SYMBOL", t>>[3] = t
      OBVIOUS
    <3>1. PICK ks : /\ ks = <<"REGSET", "SYMBOL", t>> /\ Len(ks) = 3 /\ DOMAIN ks = {1, 2, 3}
                    /\ ks[1] = "REGSET" /\ ks[2] = "SYMBOL" /\ ks[3] = t
      BY <3>0, Zenon
    <3>2. a + Len(ks) + 1 = a + 4
      BY <1>3, <3>1
    <3> QED
      BY <1>8, <2>2, <2>3, <2>4, <3>1, <3>2 DEF LineAt
  <2>5. ~JumpAt(l, a)
    <3>1. ~LineAt(l, a, <<"IDENTIFIER">>)
      <4>0. DOMAIN <<"IDENTIFIER">> = {1} /\ <<"IDENTIFIER">>[1] = "IDENTIFIER"
        OBVIOUS
      <4>1. PICK ks : ks = <<"IDENTIFIER">> /\ DOMAIN ks = {1} /\ ks[1] = "IDENTIFIER"
        BY <4>0, Zenon
      <4> QED
        BY <2>3, <4>1 DEF LineAt
    <3> QED
      BY <3>1 DEF JumpAt
  <2>6. CASE s = <<h, x, c, m, e>> /\ i.op \in {"SET", "SHR"}
    <3>1. l[a + 3] = m
      BY <2>2, <2>6
    <3>2. kinds = <<"REGSET", "SYMBOL", "INTEGER">>
      BY <1>11, <1>12, <2>6, OperandKinds
    <3>3. LineAt(l, a, kinds)
      BY <1>8, <2>4, <3>1, <3>2
    <3> QED
      BY <1>6, <1>11, <2>2, <2>3, <2>5, <2>6, <3>1, <3>3
  <2>7. CASE s = <<h, x, c, b, e>> /\ i.op \notin {"NOP", "CID", "SET", "SHR", "JPI"}
    <3>1. l[a + 3] = b
      BY <2>2, <2>7
    <3>2. kinds = <<"REGSET", "SYMBOL", "REGSET">>
      BY <1>11, <1>12, <2>7, OperandKinds
    <3>3. LineAt(l, a, kinds)
      BY <1>8, <2>4, <3>1, <3>2
    <3> QED
      BY <1>6, <1>11, <2>2, <2>3, <2>5, <2>7, <3>1, <3>3
  <2> QED
    BY <2>1, <2>6, <2>7
<1> QED
  BY <1>2, <1>13, <1>14, <1>15

\* The statements of a listing are the lines of its instructions.
LEMMA StatementsLaid ==
  ASSUME NEW l, NEW p, NEW N, NEW ends, NEW heads, Fine(l, p, N, ends, heads)
  PROVE  /\ DOMAIN l = 1..ends[N]+1 /\ ends[N] \in Nat
         /\ \A q \in DOMAIN l : Source(l)!LineStart(q) <=> Begins(l, q)
         /\ \A n \in 1..N : heads[n] \in DOMAIN l
         /\ Source(l)!Statements = {heads[n] : n \in 1..N}
<1>1. PICK z : z = ends[N]
  OBVIOUS
<1>2. N \in 0..N /\ z \in Nat /\ N \in Nat
  <2>1. N \in 0..N
    BY LinesFollow
  <2> QED
    BY <1>1, <2>1, LinesFollow
<1>3. DOMAIN l = 1..z+1 /\ l[z + 1].type = "BREAK"
  BY <1>1, PrintedKinds DEF Fine, Laid
<1>4. \A q \in DOMAIN l : Source(l)!LineStart(q) <=> Begins(l, q)
  <2>1. ASSUME NEW q \in 1..z+1 PROVE BlockWord(l, q - 1) => Begins(l, q)
    <3>1. CASE q = 1
      BY <3>1 DEF Begins
    <3>2. CASE q # 1
      <4>1. q - 1 \in 1..ends[N]+1
        BY <1>1, <1>2, <3>2
      <4>2. ~BlockWord(l, q - 1)
        BY <4>1, NoBlocks DEF BlockWord
      <4> QED
        BY <4>2
    <3> QED
      BY <3>1, <3>2
  <2> QED
    BY <1>3, <2>1, SourceIsThat
<1>5. ASSUME NEW n \in 1..N
      PROVE  /\ heads[n] \in 1..z+1 /\ l[heads[n]] = HeadOf(p[n])
             /\ n - 1 \in Targets(p) => l[ends[n - 1] + 1] = LabelOf(n - 1)
  <2>1. n \in 0..N /\ n - 1 \in 0..N
    BY <1>2
  <2>2. PICK a, b, c : a = ends[n - 1] /\ b = heads[n] /\ c = ends[n]
    OBVIOUS
  <2>3. a \in Nat /\ b \in Nat /\ c \in Nat
    BY <2>1, <2>2, LinesFollow
  <2>4. b >= a + 1 /\ b < c /\ c <= z
    <3>1. b = a + (IF n - 1 \in Targets(p) THEN 2 ELSE 1) /\ b < c
      BY <2>2, LinesFollow
    <3>2. c <= z
      BY <1>1, <1>2, <2>1, <2>2, LinesFollow
    <3> QED
      BY <2>3, <3>1, <3>2
  <2>5. b \in 1..z+1
    BY <1>2, <2>3, <2>4
  <2> QED
    BY <2>2, <2>5, TokensLaid
<1>6. ASSUME NEW n \in 1..N PROVE Source(l)!StatementAt(heads[n])
  <2>1. PICK i : i = p[n]
    OBVIOUS
  <2>2. PICK a : a = heads[n]
    OBVIOUS
  <2>3. /\ i \in Instruction /\ i.op \in Ops \ {"EXT"} /\ i.cond \in SUBSET FlagValues
        /\ Mnemonic(i.cond) # "bits"
    BY <2>1 DEF Fine, Listed, Instruction
  <2>4. l[a].type = "IDENTIFIER" /\ l[a].cond = CondOf(i) /\ l[a].lexeme = NameOf(i)
    BY <1>5, <2>1, <2>2, PrintedKinds
  <2>5. CondOf(i) \in AP!conditions \cup {""}
    BY <2>3, ConditionReadsBack DEF CondOf
  <2>6. NameOf(i) \in DOMAIN AP!Operands
    BY <2>3, NameFacts
  <2>7. JumpAt(l, a) \/ LineAt(l, a, AP!Operands[NameOf(i)])
    BY <2>1, <2>2, LineLaid
  <2>8. Source(l)!LineStart(a)
    BY <1>3, <1>4, <1>5, <2>2, LinesBegin
  <2>9. Source(l)!StatementAt(a)
    <3>1. JumpAt(l, a) \/ LineAt(l, a, AP!Operands[l[a].lexeme])
      BY <2>4, <2>7, Zenon
    <3>2. l[a].cond \in AP!conditions \cup {""} /\ l[a].lexeme \in DOMAIN AP!Operands
      BY <2>4, <2>5, <2>6, Zenon
    <3> QED
      BY <2>4, <2>8, <3>1, <3>2, SourceIsThat, Zenon
  <2> QED
    BY <2>2, <2>9, Zenon
<1>7. ASSUME NEW q \in DOMAIN l, Source(l)!StatementAt(q) PROVE \E n \in 1..N : q = heads[n]
  <2>1. l[q].type = "IDENTIFIER" /\ Begins(l, q)
    BY <1>4, <1>7, SourceIsThat, Zenon
  <2>2. q \in 1..ends[N]+1
    BY <1>1, <1>3
  <2>3. \/ q = ends[N] + 1
        \/ \E n \in 1..N : q = heads[n] \/ (n - 1 \in Targets(p) /\ q = ends[n - 1] + 1)
    BY <2>1, <2>2, LinesBegin
  <2>4. q # ends[N] + 1
    BY <1>1, <1>3, <2>1
  <2>5. ASSUME NEW n \in 1..N, n - 1 \in Targets(p) PROVE q # ends[n - 1] + 1
    BY <1>5, <2>1, <2>5, PrintedKinds
  <2> QED
    BY <2>3, <2>4, <2>5
<1>8. Source(l)!Statements = {q \in DOMAIN l : Source(l)!StatementAt(q)}
  BY SourceIsThat, Zenon
<1>9. \A n \in 1..N : heads[n] \in DOMAIN l
  BY <1>3, <1>5
<1>10. Source(l)!Statements = {heads[n] : n \in 1..N}
  <2>1. \A q : q \in Source(l)!Statements <=> q \in DOMAIN l /\ Source(l)!StatementAt(q)
    BY <1>8, Zenon
  <2> QED
    BY <1>6, <1>7, <1>9, <2>1, Zenon
<1> QED
  BY <1>1, <1>2, <1>3, <1>4, <1>9, <1>10

\* They are in order, and what lies before each.
LEMMA HeadsAscend ==
  ASSUME NEW l, NEW p, NEW N, NEW ends, NEW heads, Fine(l, p, N, ends, heads)
  PROVE  /\ \A m, n \in 1..N : m < n => heads[m] < heads[n]
         /\ \A m \in 1..N : \A a \in 0..N : heads[m] < ends[a] + 1 <=> m <= a
<1>1. N \in Nat
  BY LinesFollow
<1>2. ASSUME NEW m \in 1..N, NEW a \in 0..N PROVE heads[m] < ends[a] + 1 <=> m <= a
  <2>1. m \in 0..N /\ m - 1 \in 0..N
    BY <1>1
  <2>2. PICK x, y, z, e : x = ends[m - 1] /\ y = heads[m] /\ z = ends[m] /\ e = ends[a]
    OBVIOUS
  <2>3. x \in Nat /\ y \in Nat /\ z \in Nat /\ e \in Nat
    BY <2>1, <2>2, LinesFollow
  <2>4. y >= x + 1 /\ y < z
    <3>1. y = x + (IF m - 1 \in Targets(p) THEN 2 ELSE 1) /\ y < z
      BY <2>2, LinesFollow
    <3> QED
      BY <2>3, <3>1
  <2>5. CASE m <= a
    <3>1. m \in 0..a
      BY <1>1, <2>5
    <3>2. z <= e
      BY <2>2, <3>1, LinesFollow
    <3> QED
      BY <2>2, <2>3, <2>4, <2>5, <3>2
  <2>6. CASE ~(m <= a)
    <3>1. a \in 0..m-1
      BY <1>1, <2>6
    <3>2. e <= x
      BY <2>1, <2>2, <3>1, LinesFollow
    <3> QED
      BY <2>2, <2>3, <2>4, <2>6, <3>2
  <2> QED
    BY <2>5, <2>6
<1>3. ASSUME NEW m \in 1..N, NEW n \in 1..N, m < n PROVE heads[m] < heads[n]
  <2>1. n - 1 \in 0..N /\ m <= n - 1
    BY <1>1, <1>3
  <2>2. PICK x, y, z : x = heads[m] /\ y = ends[n - 1] /\ z = heads[n]
    OBVIOUS
  <2>3. x \in Nat /\ y \in Nat /\ z \in Nat /\ z = y + (IF n - 1 \in Targets(p) THEN 2 ELSE 1)
    BY <2>1, <2>2, LinesFollow
  <2>4. x < y + 1
    BY <1>2, <2>1, <2>2
  <2> QED
    BY <2>2, <2>3, <2>4
<1> QED
  BY <1>2, <1>3

\* As many as there are indices, when the places ascend.
LEMMA CountAscending ==
  ASSUME NEW N \in Nat, NEW f, \A n \in 1..N : f[n] \in Nat,
         \A m, n \in 1..N : m < n => f[m] < f[n], NEW k \in 0..N
  PROVE  Cardinality({f[n] : n \in 1..k}) = k
<1>1. PICK T : T = {f[n] : n \in 1..k}
  OBVIOUS
<1>2. PICK g : g = [n \in 1..k |-> f[n]]
  OBVIOUS
<1>3. \A n \in 1..k : n \in 1..N /\ g[n] = f[n]
  BY <1>2
<1>4. \A m, n \in 1..k : m # n => g[m] # g[n]
  <2>1. ASSUME NEW m \in 1..k, NEW n \in 1..k, m # n PROVE g[m] # g[n]
    <3>1. m \in 1..N /\ n \in 1..N /\ g[m] = f[m] /\ g[n] = f[n]
      BY <1>3
    <3>2. m < n \/ n < m
      BY <2>1
    <3>3. f[m] < f[n] \/ f[n] < f[m]
      BY <3>1, <3>2
    <3>4. f[m] \in Nat /\ f[n] \in Nat
      BY <3>1
    <3> QED
      BY <3>1, <3>3, <3>4
  <2> QED
    BY <2>1
<1>5. g \in Bijection(1..k, T)
  <2>1. g \in [1..k -> T]
    BY <1>1, <1>2
  <2>2. \A t \in T : \E n \in 1..k : g[n] = t
    BY <1>1, <1>2
  <2> QED
    <3>1. DOMAIN g = 1..k
      BY <1>2
    <3>2. IsInjective(g)
      BY <1>4, <3>1, Zenon DEF IsInjective
    <3> QED
      BY <2>1, <2>2, <3>2, Zenon DEF Bijection, Injection, Surjection
<1>6. IsFiniteSet(1..k) /\ Cardinality(1..k) = k
  <2>1. 1 \in Int /\ k \in Int
    OBVIOUS
  <2>2. IsFiniteSet(1..k) /\ Cardinality(1..k) = IF 1 > k THEN 0 ELSE k-1+1
    BY <2>1, FS_Interval
  <2> QED
    BY <2>2
<1>7. ExistsBijection(1..k, T)
  BY <1>5, Zenon DEF ExistsBijection
<1> QED
  BY <1>1, <1>6, <1>7, FS_Bijection

\* So the instruction of an index is the one with as many statements before it.
LEMMA StatementsCounted ==
  ASSUME NEW l, NEW p, NEW N, NEW ends, NEW heads, Fine(l, p, N, ends, heads)
  PROVE  /\ Source(l)!Cardinality(Source(l)!Statements) = N
         /\ \A n \in 1..N : Source(l)!StatementsBefore(heads[n]) = n - 1
         /\ \A a \in 0..N : Source(l)!StatementsBefore(ends[a] + 1) = a
<1>1. PICK S : S = Source(l)!Statements
  OBVIOUS
<1>2. S = {heads[n] : n \in 1..N}
  BY <1>1, StatementsLaid
<1>3. N \in Nat /\ \A n \in 1..N : heads[n] \in Nat
  BY LinesFollow
<1>4. \A T : Source(l)!Cardinality(T) = Cardinality(T)
  BY Zenon DEF Cardinality, Source!Cardinality
<1>5. \A k \in 0..N : Cardinality({heads[n] : n \in 1..k}) = k
  BY <1>3, HeadsAscend, CountAscending
<1>6. \A x : Source(l)!StatementsBefore(x) = Cardinality({q \in S : q < x})
  <2>1. \A x : Source(l)!StatementsBefore(x) = Source(l)!Cardinality({q \in S : q < x})
    BY <1>1, Zenon DEF Source!StatementsBefore
  <2> QED
    BY <1>4, <2>1, Zenon
<1>7. Source(l)!Cardinality(Source(l)!Statements) = N
  <2>1. N \in 0..N
    BY <1>3
  <2>2. Cardinality(S) = N
    BY <1>2, <1>5, <2>1, Zenon
  <2> QED
    BY <1>1, <1>4, <2>2, Zenon
<1>8. ASSUME NEW n \in 1..N PROVE Source(l)!StatementsBefore(heads[n]) = n - 1
  <2>1. n - 1 \in 0..N
    BY <1>3
  <2>2. \A m \in 1..N : heads[m] < heads[n] <=> m \in 1..n-1
    <3>1. ASSUME NEW m \in 1..N PROVE heads[m] < heads[n] <=> m \in 1..n-1
      <4>1. m < n => heads[m] < heads[n]
        BY HeadsAscend
      <4>2. n < m => heads[n] < heads[m]
        BY HeadsAscend
      <4>3. heads[m] \in Nat /\ heads[n] \in Nat
        BY <1>3
      <4>4. m < n <=> m \in 1..n-1
        BY <1>3
      <4>5. m < n \/ m = n \/ n < m
        BY <1>3
      <4> QED
        BY <4>1, <4>2, <4>3, <4>4, <4>5
    <3> QED
      BY <3>1
  <2>3. \A m \in 1..n-1 : m \in 1..N
    BY <1>3
  <2>4. {q \in S : q < heads[n]} = {heads[m] : m \in 1..n-1}
    BY <1>2, <2>2, <2>3, Zenon
  <2> QED
    BY <1>5, <1>6, <2>1, <2>4, Zenon
<1>9. ASSUME NEW a \in 0..N PROVE Source(l)!StatementsBefore(ends[a] + 1) = a
  <2>1. \A m \in 1..N : heads[m] < ends[a] + 1 <=> m \in 1..a
    <3>1. \A m \in 1..N : m <= a <=> m \in 1..a
      BY <1>3
    <3> QED
      BY <3>1, HeadsAscend, Zenon
  <2>2. \A m \in 1..a : m \in 1..N
    BY <1>3
  <2>3. {q \in S : q < ends[a] + 1} = {heads[m] : m \in 1..a}
    BY <1>2, <2>1, <2>2, Zenon
  <2> QED
    BY <1>5, <1>6, <2>3, Zenon
<1> QED
  BY <1>7, <1>8, <1>9

(***************************************************************************)
(* The labels of a listing.                                                *)
(***************************************************************************)

\* No two addresses have the same name.
LEMMA NamesDiffer ==
  ASSUME NEW a \in Address, NEW b \in Address, LabelName[a] = LabelName[b]
  PROVE  a = b
<1>1. PICK T : T = {LabelName[address] : address \in Address}
  OBVIOUS
<1>2. Cardinality(T) = PcMod /\ LabelName \in [Address -> T]
  BY <1>1, LabelNamesAssumption
<1>3. PcMod \in Nat /\ PcMod >= 1
  BY PcModAssumption
<1>4. IsFiniteSet(Address) /\ Cardinality(Address) = PcMod
  <2>1. 0 \in Int /\ PcMod - 1 \in Int
    BY <1>3
  <2>2. /\ IsFiniteSet(0..PcMod-1)
        /\ Cardinality(0..PcMod-1) = IF 0 > PcMod - 1 THEN 0 ELSE (PcMod - 1) - 0 + 1
    BY <2>1, FS_Interval
  <2> QED
    BY <1>3, <2>2 DEF Address
<1>5. LabelName \in Surjection(Address, T)
  <2>1. \A t \in T : \E address \in Address : LabelName[address] = t
    BY <1>1
  <2> QED
    BY <1>2, <2>1, Zenon DEF Surjection
<1>6. LabelName \in Injection(Address, T)
  BY <1>2, <1>4, <1>5, FS_Surjection
<1>7. DOMAIN LabelName = Address
  BY LabelNamesAssumption
<1> QED
  BY <1>6, <1>7, Zenon DEF Injection, IsInjective

\* Jumps lead to instructions of the listing.
LEMMA TargetsType ==
  ASSUME NEW l, NEW p, NEW N, NEW ends, NEW heads, Fine(l, p, N, ends, heads)
  PROVE  /\ \A a \in Targets(p) : a \in Address /\ a + 1 \in 1..N /\ a \in 0..N /\ (a + 1) - 1 = a
         /\ \A n \in 1..N : p[n].op = "JPI" => JumpAddress(p[n].a, p[n].b) \in Targets(p)
<1>1. N \in Nat /\ DOMAIN p = 1..N
  BY DEF Fine
<1>2. ASSUME NEW n \in 1..N, p[n].op = "JPI" PROVE JumpAddress(p[n].a, p[n].b) \in Targets(p)
  BY <1>1, <1>2 DEF Targets
<1>3. ASSUME NEW a \in Targets(p) PROVE a \in Address /\ a + 1 \in 1..N /\ a \in 0..N /\ (a + 1) - 1 = a
  <2>1. PICK n \in 1..N : p[n].op = "JPI" /\ a = JumpAddress(p[n].a, p[n].b)
    BY <1>1 DEF Targets
  <2>2. p[n].a \in Word /\ p[n].b \in Word
    BY DEF Fine, Instruction
  <2>3. a \in Address /\ a < N
    <3>1. JumpAddress(p[n].a, p[n].b) < N
      BY <2>1 DEF Fine
    <3> QED
      BY <2>1, <2>2, <3>1, JumpAddressType
  <2>4. a \in Nat
    BY <2>3, PcModAssumption DEF Address
  <2> QED
    BY <1>1, <2>3, <2>4
<1> QED
  BY <1>2, <1>3

\* A label is in front of each instruction that a jump names, and nowhere else.
LEMMA LabelsLaid ==
  ASSUME NEW l, NEW p, NEW N, NEW ends, NEW heads, Fine(l, p, N, ends, heads)
  PROVE  /\ \A q \in DOMAIN l : l[q].type = "LABEL" => \E a \in Targets(p) : q = ends[a] + 1
         /\ \A a \in Targets(p) :
              /\ ends[a] + 1 \in DOMAIN l /\ l[ends[a] + 1] = LabelOf(a)
              /\ Source(l)!LabelsAt(Source(l)!Name(LabelOf(a))) = {ends[a] + 1}
<1>1. DOMAIN l = 1..ends[N]+1 /\ ends[N] \in Nat /\ N \in Nat /\ N \in 0..N
  BY StatementsLaid, LinesFollow
<1>2. ASSUME NEW q \in DOMAIN l, l[q].type = "LABEL"
      PROVE  \E a \in Targets(p) : q = ends[a] + 1
  <2>1. \/ q = ends[N] + 1
        \/ \E n \in 1..N : \/ n - 1 \in Targets(p) /\ q = ends[n - 1] + 1
                           \/ q = heads[n]
                           \/ heads[n] < q /\ q < ends[n]
                           \/ q = ends[n]
    BY <1>1, PlacesLaid
  <2>2. q # ends[N] + 1
    BY <1>2, TokensLaid, PrintedKinds
  <2>3. PICK n \in 1..N : \/ n - 1 \in Targets(p) /\ q = ends[n - 1] + 1
                          \/ q = heads[n]
                          \/ heads[n] < q /\ q < ends[n]
                          \/ q = ends[n]
    BY <2>1, <2>2
  <2>4. q # heads[n] /\ q # ends[n]
    BY <1>2, TokensLaid, PrintedKinds
  <2>5. ~(heads[n] < q /\ q < ends[n])
    <3>1. q \in Nat
      BY <1>1
    <3> QED
      BY <1>2, <3>1, TokensLaid
  <2> QED
    BY <2>3, <2>4, <2>5
<1>3. ASSUME NEW a \in Targets(p) PROVE ends[a] + 1 \in DOMAIN l /\ l[ends[a] + 1] = LabelOf(a)
  <2>1. a + 1 \in 1..N /\ a \in 0..N /\ (a + 1) - 1 = a
    BY TargetsType
  <2>2. l[ends[a] + 1] = LabelOf(a)
    BY <2>1, TokensLaid
  <2>3. ends[a] \in Nat /\ ends[a] <= ends[N]
    BY <1>1, <2>1, LinesFollow
  <2> QED
    BY <1>1, <2>2, <2>3
<1>4. \A a : LabelOf(a).cond = "" /\ LabelOf(a).lexeme = LabelName[a] /\ LabelOf(a).type = "LABEL"
  BY DEF LabelOf, Printed
<1>5. ASSUME NEW a \in Targets(p)
      PROVE  Source(l)!LabelsAt(Source(l)!Name(LabelOf(a))) = {ends[a] + 1}
  <2>1. PICK name : name = Source(l)!Name(LabelOf(a))
    OBVIOUS
  <2>2. name = <<"", LabelName[a]>>
    BY <1>4, <2>1 DEF Source!Name
  <2>3. Source(l)!LabelsAt(name) =
          {q \in DOMAIN l : l[q].type = "LABEL" /\ <<l[q].cond, l[q].lexeme>> = name}
    BY Zenon DEF Source!LabelsAt, Source!Places, Source!Name
  <2>4. ASSUME NEW q \in DOMAIN l, l[q].type = "LABEL", <<l[q].cond, l[q].lexeme>> = name
        PROVE  q = ends[a] + 1
    <3>1. PICK b \in Targets(p) : q = ends[b] + 1
      BY <1>2, <2>4
    <3>2. l[q].lexeme = LabelName[b]
      BY <1>3, <1>4, <3>1
    <3>3. l[q].lexeme = LabelName[a]
      <4>1. <<l[q].cond, l[q].lexeme>> = <<"", LabelName[a]>>
        BY <2>2, <2>4, Zenon
      <4>2. \A u, v, x, y : <<u, v>> = <<x, y>> => v = y
        OBVIOUS
      <4> QED
        BY <4>1, <4>2, Zenon
    <3>4. a \in Address /\ b \in Address
      BY TargetsType
    <3> QED
      BY <3>1, <3>2, <3>3, <3>4, NamesDiffer
  <2>5. LET q == ends[a] + 1 IN q \in DOMAIN l /\ l[q].type = "LABEL" /\ <<l[q].cond, l[q].lexeme>> = name
    BY <1>3, <1>4, <2>2
  <2> QED
    BY <2>1, <2>3, <2>4, <2>5
<1> QED
  BY <1>2, <1>3, <1>5

(***************************************************************************)
(* A listing keeps the language's rules.                                   *)
(***************************************************************************)

\* Nothing opens or closes a block.
LEMMA NothingBlocks ==
  ASSUME NEW l, NEW p, NEW N, NEW ends, NEW heads, Fine(l, p, N, ends, heads)
  PROVE  \A q \in DOMAIN l : ~Source(l)!Is(l[q], "begin") /\ ~Source(l)!Is(l[q], "end")
<1>1. DOMAIN l = 1..ends[N]+1
  BY StatementsLaid
<1>2. ASSUME NEW q \in DOMAIN l, l[q].type = "IDENTIFIER" PROVE l[q].lexeme \notin {"begin", "end"}
  BY <1>1, <1>2, NoBlocks
<1> QED
  BY <1>2 DEF Source!Is

\* So blocks are balanced.
LEMMA ListingBalanced ==
  ASSUME NEW l, NEW p, NEW N, NEW ends, NEW heads, Fine(l, p, N, ends, heads)
  PROVE  Source(l)!Balanced(1, Len(l))
<1>1. PICK z \in Nat : DOMAIN l = 1..z
  <2>1. DOMAIN l = 1..ends[N]+1 /\ ends[N] \in Nat
    BY StatementsLaid
  <2>2. ends[N] + 1 \in Nat
    BY <2>1
  <2> QED
    BY <2>1, <2>2
<1>2. Len(l) = z
  BY <1>1
<1>3. ASSUME NEW q, q \in 0..z, NEW w \in {"begin", "end"} PROVE Source(l)!Count(1, q, w) = 0
  <2>1. {x \in 1..q : Source(l)!Is(l[x], w)} = {}
    <3>1. \A x \in 1..q : x \in DOMAIN l
      BY <1>1, <1>3
    <3> QED
      BY <3>1, NothingBlocks
  <2>2. Source(l)!Count(1, q, w) = Source(l)!Cardinality({x \in 1..q : Source(l)!Is(l[x], w)})
    BY Zenon DEF Source!Count
  <2>3. Source(l)!Cardinality({}) = Cardinality({})
    BY Zenon DEF Cardinality, Source!Cardinality
  <2> QED
    BY <2>1, <2>2, <2>3, FS_EmptySet, Zenon
<1>4. /\ Source(l)!Count(1, z, "begin") = 0 /\ Source(l)!Count(1, z, "end") = 0
      /\ \A q \in 1..z : Source(l)!Count(1, q, "begin") = 0 /\ Source(l)!Count(1, q, "end") = 0
  <2>1. \A q \in 1..z : q \in 0..z
    OBVIOUS
  <2>2. z \in 0..z
    OBVIOUS
  <2> QED
    BY <1>3, <2>1, <2>2
<1>5. \A q \in 1..z : Source(l)!Count(1, q, "end") <= Source(l)!Count(1, q, "begin")
  BY <1>4
<1> QED
  BY <1>2, <1>4, <1>5 DEF Source!Balanced

\* Each line is one of the language,
LEMMA ListingLines ==
  ASSUME NEW l, NEW p, NEW N, NEW ends, NEW heads, Fine(l, p, N, ends, heads)
  PROVE  Source(l)!LinesWellFormed
<1>1. DOMAIN l = 1..ends[N]+1
  BY StatementsLaid
<1>2. ASSUME NEW q \in DOMAIN l, Source(l)!LineStart(q)
      PROVE  l[q].type \in {"BREAK", "LABEL"} \/ Source(l)!StatementAt(q)
  <2>1. Begins(l, q)
    BY <1>2, StatementsLaid
  <2>2. \/ q = ends[N] + 1
        \/ \E n \in 1..N : q = heads[n] \/ (n - 1 \in Targets(p) /\ q = ends[n - 1] + 1)
    BY <1>1, <2>1, LinesBegin
  <2>3. CASE q = ends[N] + 1
    BY <2>3, TokensLaid, PrintedKinds
  <2>4. ASSUME NEW n \in 1..N, q = heads[n] PROVE Source(l)!StatementAt(q)
    <3>1. q \in Source(l)!Statements
      BY <2>4, StatementsLaid
    <3> QED
      BY <3>1, SourceIsThat
  <2>5. ASSUME NEW n \in 1..N, n - 1 \in Targets(p), q = ends[n - 1] + 1 PROVE l[q].type = "LABEL"
    BY <2>5, TokensLaid, PrintedKinds
  <2> QED
    BY <2>2, <2>3, <2>4, <2>5
<1>3. ASSUME NEW q \in DOMAIN l, l[q].type = "LABEL" PROVE Source(l)!LineStart(q)
  <2>1. PICK a \in Targets(p) : q = ends[a] + 1
    BY <1>3, LabelsLaid
  <2>2. a \in 0..N
    BY TargetsType
  <2> QED
    BY <2>1, <2>2, LinesBegin, StatementsLaid
<1>4. Source(l)!Places = DOMAIN l
  BY DEF Source!Places
<1>5. \A q \in DOMAIN l : ~Source(l)!Is(l[q], "begin") /\ ~Source(l)!Is(l[q], "end")
  BY NothingBlocks
<1> QED
  BY <1>2, <1>3, <1>4, <1>5, Zenon DEF Source!LinesWellFormed

\* each label is there once, and each jump has one,
LEMMA ListingLabels ==
  ASSUME NEW l, NEW p, NEW N, NEW ends, NEW heads, Fine(l, p, N, ends, heads)
  PROVE  Source(l)!LabelsWellFormed
<1>1. Source(l)!Places = DOMAIN l
  BY DEF Source!Places
<1>2. ASSUME NEW q \in DOMAIN l, l[q].type = "LABEL"
      PROVE  Source(l)!LabelsAt(Source(l)!Name(l[q])) = {q}
  <2>1. PICK a \in Targets(p) : q = ends[a] + 1
    BY <1>2, LabelsLaid
  <2> QED
    BY <2>1, LabelsLaid
<1>3. ASSUME NEW q \in Source(l)!Statements, Source(l)!JumpToLabel(q)
      PROVE  Source(l)!LabelsAt(Source(l)!Name(l[q + 1])) # {}
  <2>1. PICK n \in 1..N : q = heads[n]
    BY StatementsLaid
  <2>2. PICK i : i = p[n]
    OBVIOUS
  <2>3. i.op = "JPI"
    <3>1. JumpAt(l, q)
      BY <1>3, SourceIsThat, Zenon
    <3>2. JumpAt(l, q) <=> i.op = "JPI"
      BY <2>1, <2>2, LineLaid
    <3> QED
      BY <3>1, <3>2, Zenon
  <2>4. l[q + 1] = Goal(i)
    BY <2>1, <2>2, <2>3, LineLaid
  <2>5. PICK a : a = JumpAddress(i.a, i.b)
    OBVIOUS
  <2>6. a \in Targets(p)
    BY <2>2, <2>3, <2>5, TargetsType
  <2>7. Source(l)!Name(Goal(i)) = Source(l)!Name(LabelOf(a))
    BY <2>5 DEF Source!Name, Goal, LabelOf, Printed
  <2>8. Source(l)!LabelsAt(Source(l)!Name(LabelOf(a))) = {ends[a] + 1}
    BY <2>6, LabelsLaid
  <2> QED
    BY <2>4, <2>7, <2>8
<1> QED
  BY <1>1, <1>2, <1>3, Zenon DEF Source!LabelsWellFormed

\* and that is all that the language asks for.
LEMMA ListingWellFormed ==
  ASSUME NEW l, NEW p, NEW N, NEW ends, NEW heads, Fine(l, p, N, ends, heads)
  PROVE  Source(l)!WellFormed
  BY ListingLines, ListingLabels, ListingBalanced DEF Source!WellFormed

(***************************************************************************)
(* What a listing means.                                                   *)
(***************************************************************************)

\* What follows a place.
LEMMA RestBehind ==
  ASSUME NEW l, NEW z \in Nat, NEW q \in Nat, NEW d \in Nat, d >= 1, q + d \in 1..z
  PROVE  SubSeq(l, q + 1, z)[d] = l[q + d]
<1>1. PICK S : S = {l[x] : x \in 1..z}
  OBVIOUS
<1>2. \A x \in q+1..z : l[x] \in S
  BY <1>1
<1>3. q + 1 \in Int /\ z \in Int
  OBVIOUS
<1>4. \A x \in 1..(z - (q + 1) + 1) : SubSeq(l, q + 1, z)[x] = l[(q + 1) + x - 1]
  BY <1>2, <1>3, SubSeqProperties
<1>5. d \in 1..(z - (q + 1) + 1) /\ (q + 1) + d - 1 = q + d
  OBVIOUS
<1> QED
  BY <1>4, <1>5

\* The operands of a line that is no jump to a label.
LEMMA ListedArguments ==
  ASSUME NEW l, NEW p, NEW N, NEW ends, NEW heads, Fine(l, p, N, ends, heads), NEW n \in 1..N,
         NEW q, q = heads[n], NEW i, i = p[n], i.op # "JPI",
         NEW args, args = Source(l)!MeantArguments(q)
  PROVE  /\ i.op = "CID" => Len(args) = 1 /\ args[1] = Decimal(Val(i.b))
         /\ i.op \in {"SET", "SHR"} => Len(args) = 2 /\ args[1] = regset(i.a) /\ args[2] = Decimal(Val(i.b))
         /\ i.op \notin {"NOP", "CID", "SET", "SHR"} =>
              Len(args) = 2 /\ args[1] = regset(i.a) /\ args[2] = regset(i.b)
<1>1. i.op \in Ops \ {"EXT", "CTR", "JPI"}
  BY DEF Fine, Listed, Instruction
<1>2. PICK kinds : kinds = AP!Operands[NameOf(i)]
  OBVIOUS
<1>3. PICK z \in Nat : DOMAIN l = 1..z
  <2>1. DOMAIN l = 1..ends[N]+1 /\ ends[N] \in Nat
    BY StatementsLaid
  <2>2. ends[N] + 1 \in Nat
    BY <2>1
  <2> QED
    BY <2>1, <2>2
<1>4. Len(l) = z
  BY <1>3
<1>5. PICK rest : rest = SubSeq(l, q + 1, z)
  OBVIOUS
<1>6. l[q].lexeme = NameOf(i)
  BY TokensLaid, PrintedKinds
<1>7. args = [k \in 1..((Len(kinds) + 1) \div 2) |-> rest[2 * k - 1].lexeme]
  <2>1. ~Source(l)!JumpToLabel(q)
    <3>1. JumpAt(l, q) <=> i.op = "JPI"
      BY LineLaid
    <3> QED
      BY <3>1, SourceIsThat, Zenon
  <2>2. Source(l)!Operands = AP!Operands
    BY Zenon DEF Source!Operands, AP!Operands, Source!Binary, AP!Binary, Source!Immediate, AP!Immediate
  <2>3. Source(l)!MeantArguments(q) =
          Source(l)!Arguments(SubSeq(l, q + 1, Len(l)), Source(l)!Operands[l[q].lexeme])
    BY <2>1, Zenon DEF Source!MeantArguments
  <2>4. args = Source(l)!Arguments(rest, kinds)
    BY <1>2, <1>4, <1>5, <1>6, <2>2, <2>3, Zenon
  <2> QED
    BY <2>4, Zenon DEF Source!Arguments
<1>8. q \in Nat /\ q + 1 \in 1..z
  <2>1. q \in Nat
    BY LinesFollow
  <2>2. q + 1 \in DOMAIN l
    BY LineLaid
  <2> QED
    BY <1>3, <2>1, <2>2
<1>9. ASSUME NEW d \in {1, 3}, q + d \in 1..z PROVE rest[d] = l[q + d]
  <2>1. d \in Nat /\ d >= 1
    OBVIOUS
  <2>2. SubSeq(l, q + 1, z)[d] = l[q + d]
    BY <1>8, <1>9, <2>1, RestBehind
  <2> QED
    BY <1>5, <2>2, Zenon
<1>10. rest[1] = l[q + 1]
  <2>1. 1 \in {1, 3}
    OBVIOUS
  <2> QED
    BY <1>8, <1>9, <2>1
<1>11. \A x, j : Mask(x).lexeme = regset(x) /\ Number(j).lexeme = Decimal(Val(j.b))
  BY Zenon DEF Mask, Number, Printed
<1>12. ASSUME i.op = "CID" PROVE Len(args) = 1 /\ args[1] = Decimal(Val(i.b))
  <2>1. kinds = <<"INTEGER">>
    BY <1>1, <1>2, <1>12, OperandKinds
  <2>2. PICK w : w = (Len(kinds) + 1) \div 2
    OBVIOUS
  <2>3. w = 1
    BY <2>1, <2>2
  <2>4. Len(args) = 1 /\ args[1] = rest[1].lexeme
    <3>1. args = [k \in 1..w |-> rest[2 * k - 1].lexeme]
      BY <1>7, <2>2, Zenon
    <3> QED
      BY <2>3, <3>1
  <2>5. l[q + 1] = Number(i)
    BY <1>12, LineLaid
  <2> QED
    BY <1>10, <1>11, <2>4, <2>5, Zenon
<1>13. ASSUME i.op \notin {"NOP", "CID"}
       PROVE  Len(args) = 2 /\ args[1] = l[q + 1].lexeme /\ args[2] = l[q + 3].lexeme
  <2>1. /\ Len(kinds) = 3
        /\ kinds = <<"REGSET", "SYMBOL", "INTEGER">> \/ kinds = <<"REGSET", "SYMBOL", "REGSET">>
    <3>1. kinds = <<"REGSET", "SYMBOL", "INTEGER">> \/ kinds = <<"REGSET", "SYMBOL", "REGSET">>
      BY <1>1, <1>2, <1>13, OperandKinds
    <3> QED
      BY <3>1
  <2>2. PICK w : w = (Len(kinds) + 1) \div 2
    OBVIOUS
  <2>3. w = 2
    BY <2>1, <2>2
  <2>4. Len(args) = 2 /\ args[1] = rest[1].lexeme /\ args[2] = rest[3].lexeme
    <3>1. args = [k \in 1..w |-> rest[2 * k - 1].lexeme]
      BY <1>7, <2>2, Zenon
    <3> QED
      BY <2>3, <3>1
  <2>5. q + 3 \in 1..z
    <3>1. LineAt(l, q, kinds)
      <4>1. JumpAt(l, q) \/ LineAt(l, q, AP!Operands[NameOf(i)])
        BY LineLaid
      <4>2. ~JumpAt(l, q)
        <5>1. JumpAt(l, q) <=> i.op = "JPI"
          BY LineLaid
        <5> QED
          BY <5>1
      <4> QED
        BY <1>2, <4>1, <4>2, Zenon
    <3>2. q + Len(kinds) + 1 \in DOMAIN l
      BY <3>1, Zenon DEF LineAt
    <3> QED
      BY <1>3, <1>8, <2>1, <3>2
  <2>6. rest[3] = l[q + 3]
    <3>1. 3 \in {1, 3}
      OBVIOUS
    <3> QED
      BY <1>9, <2>5, <3>1
  <2> QED
    BY <1>10, <2>4, <2>6
<1>14. ASSUME i.op \in {"SET", "SHR"}
       PROVE  l[q + 1].lexeme = regset(i.a) /\ l[q + 3].lexeme = Decimal(Val(i.b))
  <2>1. l[q + 1] = Mask(i.a) /\ l[q + 3] = Number(i)
    BY <1>14, LineLaid
  <2> QED
    BY <1>11, <2>1, Zenon
<1>15. ASSUME i.op \notin {"NOP", "CID", "SET", "SHR"}
       PROVE  l[q + 1].lexeme = regset(i.a) /\ l[q + 3].lexeme = regset(i.b)
  <2>1. l[q + 1] = Mask(i.a) /\ l[q + 3] = Mask(i.b)
    BY <1>15, LineLaid
  <2> QED
    BY <1>11, <2>1, Zenon
<1>16. i.op \in {"SET", "SHR"} => i.op \notin {"NOP", "CID"}
  OBVIOUS
<1>17. i.op \notin {"NOP", "CID", "SET", "SHR"} => i.op \notin {"NOP", "CID"}
  OBVIOUS
<1> QED
  BY <1>12, <1>13, <1>14, <1>15, <1>16, <1>17, Zenon

\* A jump to a label is linked to the instruction behind it.
LEMMA ListedJump ==
  ASSUME NEW l, NEW p, NEW N, NEW ends, NEW heads, Fine(l, p, N, ends, heads), NEW n \in 1..N,
         NEW q, q = heads[n], NEW i, i = p[n], i.op = "JPI"
  PROVE  Source(l)!MeantArguments(q) = <<JumpAddress(i.a, i.b)>>
<1>1. PICK a : a = JumpAddress(i.a, i.b)
  OBVIOUS
<1>2. a \in Targets(p) /\ a \in 0..N
  BY <1>1, TargetsType
<1>3. Source(l)!JumpToLabel(q)
  <2>1. JumpAt(l, q) <=> i.op = "JPI"
    BY LineLaid
  <2> QED
    BY <2>1, SourceIsThat, Zenon
<1>4. l[q + 1] = Goal(i)
  BY LineLaid
<1>5. Source(l)!Name(Goal(i)) = Source(l)!Name(LabelOf(a))
  BY <1>1 DEF Source!Name, Goal, LabelOf, Printed
<1>6. Source(l)!LabelsAt(Source(l)!Name(l[q + 1])) = {ends[a] + 1}
  BY <1>2, <1>4, <1>5, LabelsLaid
<1>7. PICK place : place = CHOOSE x \in Source(l)!LabelsAt(Source(l)!Name(l[q + 1])) : TRUE
  OBVIOUS
<1>8. place = ends[a] + 1
  BY <1>6, <1>7
<1>9. Source(l)!StatementsBefore(place) = a
  BY <1>2, <1>8, StatementsCounted
<1>10. Source(l)!MeantArguments(q) = <<Source(l)!StatementsBefore(place)>>
  BY <1>3, <1>7, Zenon DEF Source!MeantArguments
<1> QED
  BY <1>1, <1>9, <1>10

\* What a line means.
LineMeans(l, i, q, meant) ==
  meant = [op |-> NameOf(i), cond |-> IF CondOf(i) = "" THEN "t" ELSE CondOf(i),
           args |-> Source(l)!MeantArguments(q)]

\* Each instruction is meant by its line, and nothing else is.
LEMMA ListingMeans ==
  ASSUME NEW l, NEW p, NEW N, NEW ends, NEW heads, Fine(l, p, N, ends, heads)
  PROVE  /\ DOMAIN Source(l)!Meaning = 1..N
         /\ \A n \in 1..N : LineMeans(l, p[n], heads[n], Source(l)!Meaning[n])
<1>1. PICK S : S = Source(l)!Statements
  OBVIOUS
<1>2. S = {heads[n] : n \in 1..N} /\ N \in Nat
  BY <1>1, StatementsLaid, LinesFollow
<1>3. Source(l)!Cardinality(S) = N
  BY <1>1, StatementsCounted
<1>4. PICK at : at = [n \in 1..N |-> CHOOSE q \in S : Source(l)!StatementsBefore(q) = n - 1]
  OBVIOUS
<1>5. Source(l)!Meaning =
        [n \in 1..N |-> [op |-> l[at[n]].lexeme, cond |-> Source(l)!MeantCondition(at[n]),
                         args |-> Source(l)!MeantArguments(at[n])]]
  <2>1. Source(l)!Meaning =
          [n \in 1..N |->
             LET q == CHOOSE q \in S : Source(l)!StatementsBefore(q) = n - 1
             IN  [op |-> l[q].lexeme, cond |-> Source(l)!MeantCondition(q),
                  args |-> Source(l)!MeantArguments(q)]]
    BY <1>1, <1>3, Zenon DEF Source!Meaning
  <2> QED
    BY <1>4, <2>1, Zenon
<1>6. ASSUME NEW n \in 1..N PROVE at[n] = heads[n]
  <2>1. heads[n] \in S /\ Source(l)!StatementsBefore(heads[n]) = n - 1
    BY <1>2, StatementsCounted
  <2>2. at[n] = CHOOSE q \in S : Source(l)!StatementsBefore(q) = n - 1
    BY <1>4
  <2>3. at[n] \in S /\ Source(l)!StatementsBefore(at[n]) = n - 1
    BY <2>1, <2>2, Zenon
  <2>4. PICK m \in 1..N : at[n] = heads[m]
    BY <1>2, <2>3
  <2>5. Source(l)!StatementsBefore(heads[m]) = m - 1
    BY StatementsCounted
  <2>6. m - 1 = n - 1
    BY <2>3, <2>4, <2>5, Zenon
  <2>7. m = n
    BY <1>2, <2>6
  <2> QED
    BY <2>4, <2>7
<1>7. ASSUME NEW n \in 1..N
      PROVE  /\ l[heads[n]].lexeme = NameOf(p[n])
             /\ Source(l)!MeantCondition(heads[n]) = IF CondOf(p[n]) = "" THEN "t" ELSE CondOf(p[n])
  <2>1. PICK q : q = heads[n]
    OBVIOUS
  <2>2. l[q].lexeme = NameOf(p[n]) /\ l[q].cond = CondOf(p[n])
    BY <2>1, TokensLaid, PrintedKinds
  <2>3. Source(l)!Enclosing(q) = {}
    <3>1. \A b \in 1..q-1 : b \in DOMAIN l
      <4>1. q \in DOMAIN l /\ DOMAIN l = 1..ends[N]+1 /\ ends[N] \in Nat
        BY <2>1, StatementsLaid
      <4> QED
        BY <4>1
    <3>2. \A b \in 1..q-1 : ~Source(l)!Is(l[b], "begin")
      BY <3>1, NothingBlocks
    <3> QED
      BY <3>2, Zenon DEF Source!Enclosing
  <2>4. Source(l)!MeantCondition(q) = IF CondOf(p[n]) = "" THEN "t" ELSE CondOf(p[n])
    BY <2>2, <2>3 DEF Source!MeantCondition
  <2> QED
    BY <2>1, <2>2, <2>4
<1>8. DOMAIN Source(l)!Meaning = 1..N
  BY <1>5
<1>9. ASSUME NEW n \in 1..N PROVE LineMeans(l, p[n], heads[n], Source(l)!Meaning[n])
  <2>1. Source(l)!Meaning[n] =
          [op |-> l[at[n]].lexeme, cond |-> Source(l)!MeantCondition(at[n]),
           args |-> Source(l)!MeantArguments(at[n])]
    BY <1>5
  <2> QED
    BY <1>6, <1>7, <2>1, Zenon DEF LineMeans
<1> QED
  BY <1>8, <1>9, Zenon

(***************************************************************************)
(* What is put of it again.                                                *)
(***************************************************************************)

\* A line with two operands is no jump to a label.
LEMMA TwoIsNotOne == 2 # 1
  OBVIOUS

\* An instruction that is written from its listing is that instruction.
LEMMA PutAgain ==
  ASSUME NEW i, Listed(i), NEW args, NEW w,
         i.op = "JPI" => /\ HighByte(JumpAddress(i.a, i.b)) = i.a
                         /\ LowByte(JumpAddress(i.a, i.b)) = i.b,
         w = [op |-> NameOf(i), cond |-> IF CondOf(i) = "" THEN "t" ELSE CondOf(i), args |-> args],
         i.op = "JPI" => args = <<JumpAddress(i.a, i.b)>>,
         i.op = "CID" => Len(args) = 1 /\ args[1] = Decimal(Val(i.b)),
         i.op \in {"SET", "SHR"} => Len(args) = 2 /\ args[1] = regset(i.a) /\ args[2] = Decimal(Val(i.b)),
         i.op \notin {"NOP", "CID", "SET", "SHR", "JPI"} =>
           Len(args) = 2 /\ args[1] = regset(i.a) /\ args[2] = regset(i.b)
  PROVE  Put(w) = i
<1>1. /\ i.op \in Ops \ {"EXT", "CTR"} /\ i.cond \in SUBSET FlagValues /\ i.a \in Word /\ i.b \in Word
      /\ i = [op |-> i.op, cond |-> i.cond, a |-> i.a, b |-> i.b]
  BY DEF Listed, Instruction
<1>2. w.op = NameOf(i) /\ w.args = args /\ w.cond = IF CondOf(i) = "" THEN "t" ELSE CondOf(i)
  OBVIOUS
<1>3. PICK cond : cond = Condition(w.cond)
  OBVIOUS
<1>4. cond = i.cond
  <2>1. CASE i.op = "NOP"
    <3>1. w.cond = "t" /\ i.cond = FlagValues
      BY <1>2, <2>1 DEF CondOf, Listed
    <3>2. Condition("t") = FlagValues
      BY DEF Condition
    <3> QED
      BY <1>3, <3>1, <3>2
  <2>2. CASE i.op # "NOP"
    <3>1. CondOf(i) = Mnemonic(i.cond)
      BY <2>2 DEF CondOf
    <3>2. Mnemonic(i.cond) # "bits"
      BY DEF Listed
    <3>3. Condition(IF Mnemonic(i.cond) = "" THEN "t" ELSE Mnemonic(i.cond)) = i.cond
      BY <1>1, <3>2, ConditionReadsBack
    <3> QED
      BY <1>3, <1>2, <3>1, <3>3, Zenon
  <2> QED
    BY <2>1, <2>2
<1>5. Val(i.b) \in 0..255 /\ Immediate(Decimal(Val(i.b))) = i.b
  BY <1>1, WordOfVal, DecimalReadsBack
<1>6. RegisterSet(regset(i.a)) = i.a /\ RegisterSet(regset(i.b)) = i.b
  BY <1>1, RegsetReadsBack
<1>7. PICK o, x, y : o = i.op /\ x = i.a /\ y = i.b
  OBVIOUS
<1>8. w.op # "jmp" => opcodeOf[w.op] = o
  BY <1>1, <1>7, <1>2, NameFacts
<1>9. CASE i.op = "JPI"
  <2>1. w.op = "jmp"
    BY <1>1, <1>9, <1>2, NameFacts DEF JumpOps
  <2>2. PICK a : a = JumpAddress(i.a, i.b)
    OBVIOUS
  <2>3. Len(args) = 1 /\ args[1] = a
    <3>1. args = <<a>>
      BY <1>9, <2>2, Zenon
    <3>2. \A t : Len(<<t>>) = 1 /\ <<t>>[1] = t
      OBVIOUS
    <3> QED
      BY <3>1, <3>2, Zenon
  <2>4. HighByte(a) = x /\ LowByte(a) = y
    BY <1>7, <1>9, <2>2
  <2>5. Put(w) = [op |-> "JPI", cond |-> cond, a |-> HighByte(a), b |-> LowByte(a)]
    BY <1>3, <1>2, <2>1, <2>3 DEF Put
  <2> QED
    BY <1>1, <1>4, <1>7, <1>9, <2>4, <2>5
<1>10. CASE i.op = "NOP"
  <2>1. w.op = "nop"
    BY <1>1, <1>10, <1>2, OperandKinds
  <2>2. Put(w) = [op |-> opcodeOf[w.op], cond |-> cond, a |-> Zero, b |-> Zero]
    BY <1>3, <1>2, <2>1 DEF Put
  <2>3. x = Zero /\ y = Zero
    BY <1>7, <1>10 DEF Listed
  <2>4. opcodeOf[w.op] = o
    BY <1>8, <2>1
  <2> QED
    BY <1>1, <1>4, <1>7, <2>2, <2>3, <2>4
<1>11. CASE i.op = "CID"
  <2>1. w.op = "cid"
    BY <1>1, <1>11, <1>2, OperandKinds
  <2>2. PICK b : b = Immediate(args[1])
    OBVIOUS
  <2>3. Put(w) = [op |-> opcodeOf[w.op], cond |-> cond, a |-> Zero, b |-> b]
    BY <1>3, <1>2, <2>1, <2>2 DEF Put
  <2>4. x = Zero /\ y = b
    <3>1. i.a = Zero
      BY <1>11 DEF Listed
    <3>2. args[1] = Decimal(Val(i.b))
      BY <1>11
    <3> QED
      BY <1>5, <1>7, <2>2, <3>1, <3>2
  <2>5. opcodeOf[w.op] = o
    BY <1>8, <2>1
  <2> QED
    BY <1>1, <1>4, <1>7, <2>3, <2>4, <2>5
<1>12. CASE i.op \in {"SET", "SHR"}
  <2>1. w.op \in {"set", "shr"}
    BY <1>1, <1>12, <1>2, OperandKinds
  <2>2. PICK a, b : a = RegisterSet(args[1]) /\ b = Immediate(args[2])
    OBVIOUS
  <2>3. Put(w) = [op |-> opcodeOf[w.op], cond |-> cond, a |-> a, b |-> b]
    BY <1>3, <1>2, <2>1, <2>2 DEF Put
  <2>4. x = a /\ y = b
    <3>1. args[1] = regset(i.a) /\ args[2] = Decimal(Val(i.b))
      BY <1>12
    <3> QED
      BY <1>5, <1>6, <1>7, <2>2, <3>1
  <2>5. opcodeOf[w.op] = o
    BY <1>8, <2>1
  <2> QED
    BY <1>1, <1>4, <1>7, <2>3, <2>4, <2>5
<1>13. CASE i.op \notin {"NOP", "CID", "SET", "SHR", "JPI"}
  <2>1. w.op \notin {"nop", "cid", "set", "ctr", "shr"}
    BY <1>1, <1>13, <1>2, OperandKinds
  <2>2. PICK a, b : a = RegisterSet(args[1]) /\ b = RegisterSet(args[2])
    OBVIOUS
  <2>3. Len(args) # 1
    <3>1. Len(args) = 2
      BY <1>13, Zenon
    <3>2. 2 # 1
      BY TwoIsNotOne, Zenon
    <3> QED
      BY <3>1, <3>2, Zenon
  <2>4. Put(w) = [op |-> IF w.op # "jmp" THEN opcodeOf[w.op] ELSE "JPR",
                  cond |-> cond, a |-> a, b |-> b]
    BY <1>3, <1>2, <2>1, <2>2, <2>3 DEF Put
  <2>5. x = a /\ y = b
    <3>1. args[1] = regset(i.a) /\ args[2] = regset(i.b)
      BY <1>13
    <3> QED
      BY <1>6, <1>7, <2>2, <3>1
  <2>6. (IF w.op # "jmp" THEN opcodeOf[w.op] ELSE "JPR") = o
    <3>1. w.op = "jmp" <=> i.op \in JumpOps
      BY <1>1, <1>2, NameFacts
    <3> QED
      BY <1>7, <1>8, <1>13, <3>1 DEF JumpOps
  <2>7. Put(w) = [op |-> o, cond |-> cond, a |-> a, b |-> b]
    BY <2>4, <2>6, Zenon
  <2> QED
    BY <1>1, <1>4, <1>7, <2>5, <2>7
<1> QED
  BY <1>9, <1>10, <1>11, <1>12, <1>13

\* A program that is read and can be printed.
LEMMA ReadIsListed ==
  ASSUME NEW bytes \in Seq(Byte), Readable(bytes), NEW p, p = toProgram(bytes),
         \A n \in DOMAIN p : /\ p[n].op # "CTR"
                             /\ p[n].op = "CID" => p[n].a = Zero
                             /\ Mnemonic(p[n].cond) # "bits"
  PROVE  \E N \in Nat : /\ p \in [1..N -> Instruction] /\ N = Len(p)
                        /\ \A n \in 1..N : Listed(p[n])
<1>1. PICK N \in Nat : N = Len(bytes) \div 3
  <2>1. Len(bytes) \in Nat
    BY LenProperties
  <2> QED
    BY <2>1
<1>2. PICK made : made = [n \in 1..N |->
        LET op == OpcodeAt(bytes, n)
            head == bytes[3 * n - 2]
        IN  IF op = "NOP" THEN [op |-> op, cond |-> FlagValues, a |-> Zero, b |-> Zero]
            ELSE [op |-> op,
                  cond |-> {flagBits[k] : k \in {k \in 1..4 : (head \div 2^(4 - k)) % 2 = 1}},
                  a |-> WordOf(bytes[3 * n - 1]), b |-> WordOf(bytes[3 * n])]]
  OBVIOUS
<1>3. p = made
  BY <1>1, <1>2, Zenon DEF toProgram
<1>4. DOMAIN p = 1..N
  BY <1>2, <1>3
<1>5. \A n \in 1..N : p[n] \in Instruction
  BY <1>4, ProgramType
<1>6. p \in [1..N -> Instruction]
  <2>1. p = [n \in 1..N |-> p[n]]
    BY <1>2, <1>3
  <2> QED
    BY <1>5, <2>1
<1>7. Len(p) = N
  BY <1>4
<1>8. ASSUME NEW n \in 1..N PROVE Listed(p[n])
  <2>1. PICK op, cond, a, b :
          /\ op = OpcodeAt(bytes, n) /\ a = WordOf(bytes[3 * n - 1]) /\ b = WordOf(bytes[3 * n])
          /\ cond = {flagBits[k] : k \in {k \in 1..4 : (bytes[3 * n - 2] \div 2^(4 - k)) % 2 = 1}}
    OBVIOUS
  <2>2. p[n] = IF op = "NOP" THEN [op |-> op, cond |-> FlagValues, a |-> Zero, b |-> Zero]
               ELSE [op |-> op, cond |-> cond, a |-> a, b |-> b]
    BY <1>2, <1>3, <2>1, Zenon
  <2>3. op # "EXT"
    BY <1>1, <2>1, Zenon DEF Readable
  <2>4. PICK i : i = p[n]
    OBVIOUS
  <2>5. /\ i.op = op
        /\ op = "NOP" => i.cond = FlagValues /\ i.a = Zero /\ i.b = Zero
    BY <2>2, <2>4
  <2>6. i \in Instruction
    BY <1>5, <2>4
  <2>7. i.op # "CTR" /\ (i.op = "CID" => i.a = Zero) /\ Mnemonic(i.cond) # "bits"
    BY <1>4, <2>4
  <2> QED
    BY <2>3, <2>4, <2>5, <2>6, <2>7 DEF Listed
<1> QED
  BY <1>6, <1>7, <1>8

\* What is printed of a program, as a source.
Echoes(p, l) ==
  /\ Source(l)!WellFormed
  /\ [n \in DOMAIN Source(l)!Meaning |-> Put(Source(l)!Meaning[n])] = p

\* A program that has names for everything reads back from its listing.
LEMMA FineEchoes ==
  ASSUME 2^W * 2^W <= PcMod, NEW l, NEW p, NEW N, NEW ends, NEW heads, Fine(l, p, N, ends, heads)
  PROVE  Echoes(p, l)
<1>1. PICK meaning : meaning = Source(l)!Meaning
  OBVIOUS
<1>2. DOMAIN meaning = 1..N
  BY <1>1, ListingMeans
<1>3. ASSUME NEW n \in 1..N PROVE Put(meaning[n]) = p[n]
  <2>1. PICK i : i = p[n]
    OBVIOUS
  <2>2. PICK q : q = heads[n]
    OBVIOUS
  <2>3. PICK args : args = Source(l)!MeantArguments(q)
    OBVIOUS
  <2>4. PICK w : w = meaning[n]
    OBVIOUS
  <2>5. w = [op |-> NameOf(i), cond |-> IF CondOf(i) = "" THEN "t" ELSE CondOf(i), args |-> args]
    <3>1. LineMeans(l, p[n], heads[n], Source(l)!Meaning[n])
      BY ListingMeans
    <3>2. LineMeans(l, i, q, w)
      BY <1>1, <2>1, <2>2, <2>4, <3>1, Zenon
    <3> QED
      BY <2>3, <3>2, Zenon DEF LineMeans
  <2>6. Listed(i)
    BY <2>1 DEF Fine
  <2>7. i.op = "JPI" => args = <<JumpAddress(i.a, i.b)>>
    BY <2>1, <2>2, <2>3, ListedJump
  <2>8. i.a \in Word /\ i.b \in Word
    BY <2>6 DEF Listed, Instruction
  <2>9. HighByte(JumpAddress(i.a, i.b)) = i.a /\ LowByte(JumpAddress(i.a, i.b)) = i.b
    BY <2>8, AddressReadsBack
  <2>10. i.op # "JPI" =>
           /\ i.op = "CID" => Len(args) = 1 /\ args[1] = Decimal(Val(i.b))
           /\ i.op \in {"SET", "SHR"} =>
                Len(args) = 2 /\ args[1] = regset(i.a) /\ args[2] = Decimal(Val(i.b))
           /\ i.op \notin {"NOP", "CID", "SET", "SHR"} =>
                Len(args) = 2 /\ args[1] = regset(i.a) /\ args[2] = regset(i.b)
    BY <2>1, <2>2, <2>3, ListedArguments
  <2>11. /\ i.op = "CID" => Len(args) = 1 /\ args[1] = Decimal(Val(i.b))
         /\ i.op \in {"SET", "SHR"} =>
              Len(args) = 2 /\ args[1] = regset(i.a) /\ args[2] = Decimal(Val(i.b))
         /\ i.op \notin {"NOP", "CID", "SET", "SHR", "JPI"} =>
              Len(args) = 2 /\ args[1] = regset(i.a) /\ args[2] = regset(i.b)
    <3>1. /\ i.op = "CID" => i.op # "JPI"
          /\ i.op \in {"SET", "SHR"} => i.op # "JPI"
          /\ i.op \notin {"NOP", "CID", "SET", "SHR", "JPI"} =>
               i.op # "JPI" /\ i.op \notin {"NOP", "CID", "SET", "SHR"}
      OBVIOUS
    <3> QED
      BY <2>10, <3>1, Zenon
  <2>12. Put(w) = i
    BY <2>5, <2>6, <2>7, <2>9, <2>11, PutAgain, Zenon
  <2> QED
    BY <2>1, <2>4, <2>12, Zenon
<1>4. p = [n \in 1..N |-> p[n]]
  BY DEF Fine
<1>5. [n \in DOMAIN meaning |-> Put(meaning[n])] = [n \in 1..N |-> p[n]]
  BY <1>2, <1>3, Zenon
<1>6. Source(l)!WellFormed
  BY ListingWellFormed
<1> QED
  BY <1>1, <1>4, <1>5, <1>6, Zenon DEF Echoes

\* What a listing shows: a program that was read.
Shown(p, l) ==
  \E bytes \in Seq(Byte) : Readable(bytes) /\ p = toProgram(bytes) /\ l = disassemble(p)

\* Whether each instruction of a program has a name of its own.
Nameable(p) ==
  \A n \in DOMAIN p :
    /\ p[n].op # "CTR"
    /\ p[n].op = "CID" => p[n].a = Zero
    /\ Mnemonic(p[n].cond) # "bits"
    /\ p[n].op = "JPI" => JumpAddress(p[n].a, p[n].b) < Len(p)

\* So whatever is shown reads back.
LEMMA ShownEchoes ==
  ASSUME 2^W * 2^W <= PcMod, NEW p, NEW l, Shown(p, l), Nameable(p)
  PROVE  Echoes(p, l)
<1>1. PICK bytes \in Seq(Byte) : Readable(bytes) /\ p = toProgram(bytes) /\ l = disassemble(p)
  BY DEF Shown
<1>2. PICK N \in Nat : /\ p \in [1..N -> Instruction] /\ N = Len(p)
                       /\ \A n \in 1..N : Listed(p[n])
  BY <1>1, ReadIsListed DEF Nameable
<1>3. p \in Seq(Instruction)
  BY <1>2
<1>4. PICK ends, heads : Laid(l, p, N, ends, heads)
  BY <1>1, <1>2, <1>3, ListingLaid
<1>5. Fine(l, p, N, ends, heads)
  <2>1. DOMAIN p = 1..N
    BY <1>2
  <2>2. \A n \in 1..N : p[n].op = "JPI" => JumpAddress(p[n].a, p[n].b) < N
    BY <1>2, <2>1, Zenon DEF Nameable
  <2> QED
    BY <1>2, <1>4, <2>2, Zenon DEF Fine
<1> QED
  BY <1>5, FineEchoes

(***************************************************************************)
(* Listings: the invariant.                                                *)
(***************************************************************************)

\* Only a process that has ended shows a listing, and that of a program it read.
ListingInv == listing # <<>> => stage = "exited" /\ Shown(program, listing)

\* At the start nothing is listed.
LEMMA ListingInit == Init => ListingInv
  BY DEF Init, ListingInv

\* Only disassembling lists anything, and the next process clears it.
LEMMA ListingStep == BytesInv /\ ListingInv /\ [Next]_vars => ListingInv'
<1> SUFFICES ASSUME BytesInv, ListingInv, [Next]_vars PROVE ListingInv'
  OBVIOUS
<1>1. CASE Invoke
  BY <1>1 DEF Invoke, ListingInv
<1>2. CASE \/ ReadArguments \/ RefuseArguments \/ NoTask \/ StartAssembling \/ ReadText \/ Abort
           \/ StartParsing \/ Assemble \/ MissingFile \/ Quit \/ WriteFile \/ RunAssembled \/ RunLoaded
  <2>1. listing' = listing /\ stage # "exited"
    BY <1>2 DEF ReadArguments, RefuseArguments, NoTask, StartAssembling, ReadText, Abort, StartParsing,
                Assemble, MissingFile, Quit, WriteFile, RunAssembled, RunLoaded, Dispatching, Loading,
                Assembled, processVars
  <2> QED
    BY <2>1 DEF ListingInv
<1>3. CASE Disassemble
  <2>1. Loading /\ stage # "exited" /\ listing = <<>>
    BY <1>3 DEF Disassemble, Loading, Dispatching, ListingInv
  <2>2. PICK image : image = loadBinaryInput
    OBVIOUS
  <2>3. image \in Seq(Byte)
    BY <2>1, <2>2, LoadedBytes
  <2>4. CASE Readable(image)
    <3>1. program' = toProgram(image) /\ listing' = disassemble(program') /\ stage' = "exited"
      BY <1>3, <2>2, <2>4 DEF Disassemble, Exit
    <3>2. PICK p, l : p = program' /\ l = listing'
      OBVIOUS
    <3>3. Shown(p, l)
      BY <2>3, <2>4, <3>1, <3>2 DEF Shown
    <3> QED
      BY <3>1, <3>2, <3>3 DEF ListingInv
  <2>5. CASE ~Readable(image)
    BY <1>3, <2>1, <2>2, <2>5 DEF Disassemble, ListingInv
  <2> QED
    BY <2>4, <2>5
<1>4. CASE UNCHANGED vars
  BY <1>4 DEF vars, processVars, ListingInv
<1> QED
  BY <1>1, <1>2, <1>3, <1>4 DEF Next, Process

\* Whatever is listed of a program file, the listing without its addresses is a source
\* that keeps the language's rules and is put as the program again, as long as
\* each instruction has a name in the language; for a program counter that takes
\* the two bytes of a jump (CoreState::disassemble, Labeler, MicroInst::string).
THEOREM ListingsReadBack == ASSUME 2^W * 2^W <= PcMod PROVE Spec => []ListingReadsBack
<1>1. ListingInv => ListingReadsBack
  <2> SUFFICES ASSUME ListingInv, listing # <<>>, Printable PROVE Echoes(program, listing)
    BY DEF ListingReadsBack, Echoes
  <2>1. PICK p, l : p = program /\ l = listing
    OBVIOUS
  <2>2. Shown(p, l) /\ Nameable(p)
    BY <2>1, Zenon DEF ListingInv, Printable, Nameable
  <2>3. Echoes(p, l)
    BY <2>2, ShownEchoes
  <2> QED
    BY <2>1, <2>3
<1> QED
  BY <1>1, TextInit, TextStep, GapInit, GapStepNext, AsmInit, AsmStep, BytesInit, BytesStep,
     ListingInit, ListingStep, PTL DEF Spec
=============================================================================
