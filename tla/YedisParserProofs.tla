-------------------------- MODULE YedisParserProofs --------------------------
(***************************************************************************)
(* Theorems about the parser for whatever bytes arrive and for requests of *)
(* any number of parameters of any length, cut anywhere and followed by    *)
(* anything.                                                               *)
(***************************************************************************)
EXTENDS YedisParser, NatRecursion, SequenceTheorems, TLAPS

-----------------------------------------------------------------------------
(* Digits and numbers                                                       *)

LEMMA DigitsDiffer ==
    /\ Len(Digits) = 10
    /\ DOMAIN Digits = 1 .. 10
    /\ \A i, j \in 1 .. 10 : Digits[i] = Digits[j] => i = j
<1>1. Len(Digits) = 10 /\ DOMAIN Digits = 1 .. 10
  BY DEF Digits
<1>2. /\ Digits[1] = "0" /\ Digits[2] = "1" /\ Digits[3] = "2" /\ Digits[4] = "3" /\ Digits[5] = "4"
      /\ Digits[6] = "5" /\ Digits[7] = "6" /\ Digits[8] = "7" /\ Digits[9] = "8" /\ Digits[10] = "9"
  BY DEF Digits
<1>3. \A i \in 1 .. 10 : i \in {1, 2, 3, 4, 5, 6, 7, 8, 9, 10}
  OBVIOUS
<1>4. \A i, j \in 1 .. 10 : Digits[i] = Digits[j] => i = j
  BY <1>2, <1>3
<1> QED
  BY <1>1, <1>4

(* The value of a digit.                                                    *)
LEMMA DigitValue ==
    ASSUME NEW d \in 0 .. 9
    PROVE  IsDigit(Digits[d + 1]) /\ Value(Digits[d + 1]) = d /\ Digits[d + 1] \in Bytes
<1>1. d + 1 \in 1 .. 10
  OBVIOUS
<1>2. Digits[d + 1] \in Range(Digits)
  BY <1>1, DigitsDiffer DEF Range
<1> DEFINE i == CHOOSE i \in DOMAIN Digits : Digits[i] = Digits[d + 1]
<1>3. i \in 1 .. 10 /\ Digits[i] = Digits[d + 1]
  BY <1>1, DigitsDiffer
<1>4. Value(Digits[d + 1]) = i - 1
  BY DEF Value
<1> HIDE DEF i
<1>5. i = d + 1
  BY <1>1, <1>3, DigitsDiffer
<1> QED
  BY <1>2, <1>4, <1>5, InputsAssumption DEF IsDigit

LEMMA SomeDigit ==
    ASSUME NEW b, IsDigit(b)
    PROVE  \E d \in 0 .. 9 : b = Digits[d + 1] /\ Value(b) = d
<1>1. PICK i \in 1 .. 10 : b = Digits[i]
  BY DigitsDiffer DEF IsDigit, Range
<1>2. i - 1 \in 0 .. 9 /\ (i - 1) + 1 = i
  OBVIOUS
<1> QED
  BY <1>1, <1>2, DigitValue

(* The bytes that are no digits.                                            *)
LEMMA NoDigits == ~ IsDigit(CR) /\ ~ IsDigit("-") /\ ~ IsDigit("+")
<1>1. /\ Digits[1] = "0" /\ Digits[2] = "1" /\ Digits[3] = "2" /\ Digits[4] = "3" /\ Digits[5] = "4"
      /\ Digits[6] = "5" /\ Digits[7] = "6" /\ Digits[8] = "7" /\ Digits[9] = "8" /\ Digits[10] = "9"
  BY DEF Digits
<1>2. \A i \in 1 .. 10 : i \in {1, 2, 3, 4, 5, 6, 7, 8, 9, 10}
  OBVIOUS
<1>3. \A i \in 1 .. 10 : Digits[i] # "-" /\ Digits[i] # "+"
  BY <1>1, <1>2
<1>4. \A i \in 1 .. 10 : Digits[i] # CR
  BY <1>1, <1>2 DEF CR
<1> QED
  BY <1>3, <1>4, DigitsDiffer DEF IsDigit, Range

AllDigits(s) == s \in Seq(Bytes) /\ \A i \in 1 .. Len(s) : IsDigit(s[i])

SumsOf(sum, s) == sum = [k \in 0 .. Len(s) |-> IF k = 0 THEN 0 ELSE 10 * sum[k - 1] + Value(s[k])]

(* The loop of getIntUntilCRLF computes its partial sums.                    *)
LEMMA NumberSums ==
    ASSUME NEW s, AllDigits(s)
    PROVE  \E sum : SumsOf(sum, s) /\ Number(s) = sum[Len(s)]
<1> DEFINE T == Nat
           n == Len(s)
           F == [i \in 1 .. n |-> [x \in T |-> 10 * x + Value(s[i])]]
           sums == CHOOSE sum : SumsOf(sum, s)
<1>1. n \in Nat
  BY DEF AllDigits
<1>2. \A i \in 1 .. n : Value(s[i]) \in Nat
  BY SomeDigit DEF AllDigits
<1>3. F \in [1 .. n -> [T -> T]]
  <2> HIDE DEF n
  <2> QED
    BY <1>1, <1>2
<1>4. PICK p \in [0 .. n -> T] : Iterates(p, 0, n, F)
  <2>1. 0 \in T
    OBVIOUS
  <2> HIDE DEF F, n, T
  <2> QED
    BY <1>1, <1>3, <2>1, IterationExists
<1> HIDE DEF n
<1>5. \A k \in 0 .. n : p[k] = IF k = 0 THEN 0 ELSE 10 * p[k - 1] + Value(s[k])
  <2>1. \A k \in 0 .. n : p[k] = IF k = 0 THEN 0 ELSE F[k][p[k - 1]]
    <3> HIDE DEF F
    <3> QED
      BY <1>4 DEF Iterates
  <2>2. \A k \in 1 .. n, x \in T : F[k][x] = 10 * x + Value(s[k])
    OBVIOUS
  <2>3. \A k \in 1 .. n : p[k - 1] \in T
    BY <1>1, <1>4
  <2> HIDE DEF F, T
  <2> QED
    BY <1>1, <2>1, <2>2, <2>3
<1>6. p = [k \in 0 .. n |-> p[k]]
  BY <1>4
<1>7. p = [k \in 0 .. n |-> IF k = 0 THEN 0 ELSE 10 * p[k - 1] + Value(s[k])]
  BY <1>5, <1>6
<1>8. SumsOf(p, s)
  BY <1>7 DEF SumsOf, n
<1>9. SumsOf(sums, s)
  BY <1>8
<1>10. Number(s) = sums[Len(s)]
  BY DEF Number, SumsOf
<1> QED
  BY <1>9, <1>10

(* Sums over digits agree as long as the digits do.                         *)
LEMMA SumsAgree ==
    ASSUME NEW s, AllDigits(s), NEW t, AllDigits(t), Len(s) <= Len(t),
           \A i \in 1 .. Len(s) : t[i] = s[i],
           NEW p, SumsOf(p, s), NEW q, SumsOf(q, t)
    PROVE  \A k \in 0 .. Len(s) : p[k] = q[k] /\ p[k] \in Nat
<1> DEFINE S == {k \in 0 .. Len(s) : p[k] = q[k] /\ p[k] \in Nat}
<1>1. Len(s) \in Nat /\ Len(t) \in Nat
  BY DEF AllDigits
<1>2. /\ \A k \in 0 .. Len(s) : p[k] = IF k = 0 THEN 0 ELSE 10 * p[k - 1] + Value(s[k])
      /\ \A k \in 0 .. Len(t) : q[k] = IF k = 0 THEN 0 ELSE 10 * q[k - 1] + Value(t[k])
  BY DEF SumsOf
<1>3. 0 \in S
  BY <1>1, <1>2
<1>4. ASSUME NEW k \in 1 .. Len(s), k - 1 \in S
      PROVE  k \in S
  <2>1. k \in 0 .. Len(s) /\ k \in 0 .. Len(t) /\ k # 0
    BY <1>1
  <2>2. p[k] = 10 * p[k - 1] + Value(s[k]) /\ q[k] = 10 * q[k - 1] + Value(s[k])
    BY <1>2, <2>1
  <2>3. Value(s[k]) \in Nat
    BY SomeDigit DEF AllDigits
  <2>4. p[k - 1] = q[k - 1] /\ p[k - 1] \in Nat
    BY <1>4
  <2> QED
    BY <2>1, <2>2, <2>3, <2>4
<1> HIDE DEF S
<1>5. \A k \in 0 .. Len(s) : k \in S
  BY <1>1, <1>3, <1>4, IndicesReached
<1> QED
  BY <1>5 DEF S

(* Number is what spelling in tens says.                                    *)
LEMMA NumberOfDigits ==
    /\ Number(<<>>) = 0
    /\ \A s : AllDigits(s) => Number(s) \in Nat
    /\ \A s, b : AllDigits(s) /\ IsDigit(b) =>
          AllDigits(Append(s, b)) /\ Number(Append(s, b)) = 10 * Number(s) + Value(b)
<1>1. ASSUME NEW s, AllDigits(s)
      PROVE  Number(s) \in Nat
  <2>1. PICK p : SumsOf(p, s) /\ Number(s) = p[Len(s)]
    BY <1>1, NumberSums
  <2>2. Len(s) \in Nat
    BY <1>1 DEF AllDigits
  <2>3. \A k \in 0 .. Len(s) : p[k] = p[k] /\ p[k] \in Nat
    BY <1>1, <2>1, <2>2, SumsAgree
  <2> QED
    BY <2>1, <2>2, <2>3
<1>2. Number(<<>>) = 0
  <2>1. AllDigits(<<>>) /\ Len(<<>>) = 0
    BY DEF AllDigits
  <2>2. PICK p : SumsOf(p, <<>>) /\ Number(<<>>) = p[Len(<<>>)]
    BY <2>1, NumberSums
  <2> QED
    BY <2>1, <2>2 DEF SumsOf
<1>3. ASSUME NEW s, AllDigits(s), NEW b, IsDigit(b)
      PROVE  AllDigits(Append(s, b)) /\ Number(Append(s, b)) = 10 * Number(s) + Value(b)
  <2> DEFINE t == Append(s, b)
             n == Len(s)
  <2>1. b \in Bytes
    BY <1>3, InputsAssumption DEF IsDigit
  <2>2. /\ n \in Nat /\ t \in Seq(Bytes) /\ Len(t) = n + 1
        /\ t[n + 1] = b /\ \A i \in 1 .. n : t[i] = s[i]
    BY <1>3, <2>1 DEF AllDigits
  <2> HIDE DEF t, n
  <2>3. AllDigits(t)
    BY <1>3, <2>2 DEF AllDigits, n
  <2>4. PICK p : SumsOf(p, s) /\ Number(s) = p[n]
    BY <1>3, NumberSums DEF n
  <2>5. PICK q : SumsOf(q, t) /\ Number(t) = q[n + 1]
    BY <2>2, <2>3, NumberSums
  <2>6. p[n] = q[n]
    <3>1. n <= n + 1 /\ n \in 0 .. n
      BY <2>2
    <3> QED
      BY <1>3, <2>2, <2>3, <2>4, <2>5, <3>1, SumsAgree DEF n
  <2>7. q[n + 1] = 10 * q[n] + Value(b)
    <3>1. n + 1 \in 0 .. n + 1 /\ n + 1 # 0 /\ (n + 1) - 1 = n
      BY <2>2
    <3>2. \A k \in 0 .. n + 1 : q[k] = IF k = 0 THEN 0 ELSE 10 * q[k - 1] + Value(t[k])
      BY <2>2, <2>5 DEF SumsOf
    <3> QED
      BY <2>2, <3>1, <3>2
  <2> QED
    BY <2>3, <2>4, <2>5, <2>6, <2>7 DEF t
<1> QED
  BY <1>1, <1>2, <1>3

(* A number whose first digit is not 0 is not 0.                             *)
LEMMA PositiveNumber ==
    ASSUME NEW s, AllDigits(s), Len(s) >= 1, Value(s[1]) >= 1
    PROVE  Number(s) >= 1
<1>1. Len(s) \in Nat
  BY DEF AllDigits
<1>2. PICK p : SumsOf(p, s) /\ Number(s) = p[Len(s)]
  BY NumberSums
<1>3. \A k \in 0 .. Len(s) : p[k] = IF k = 0 THEN 0 ELSE 10 * p[k - 1] + Value(s[k])
  BY <1>2 DEF SumsOf
<1>4. \A k \in 1 .. Len(s) : Value(s[k]) \in Nat
  BY SomeDigit DEF AllDigits
<1> DEFINE S == {k \in 0 .. Len(s) : p[k] \in Nat /\ (k # 0 => p[k] >= 1)}
<1>5. 0 \in S
  BY <1>1, <1>3
<1>6. ASSUME NEW k \in 1 .. Len(s), k - 1 \in S
      PROVE  k \in S
  <2>1. p[k] = 10 * p[k - 1] + Value(s[k]) /\ k \in 0 .. Len(s)
    BY <1>1, <1>3
  <2>2. p[k - 1] \in Nat /\ (k - 1 # 0 => p[k - 1] >= 1)
    BY <1>6
  <2>3. k - 1 = 0 => Value(s[k]) >= 1
    OBVIOUS
  <2>4. Value(s[k]) \in Nat
    BY <1>4
  <2> QED
    BY <2>1, <2>2, <2>3, <2>4
<1> HIDE DEF S
<1>7. \A k \in 0 .. Len(s) : k \in S
  BY <1>1, <1>5, <1>6, IndicesReached
<1> QED
  BY <1>1, <1>2, <1>7 DEF S

DigitsTo(f, n) ==
    f = [k \in 0 .. n |-> IF k < 10 THEN <<Digits[k + 1]>>
                          ELSE Append(f[k \div 10], Digits[(k % 10) + 1])]

LEMMA DividedByTen ==
    ASSUME NEW n \in Nat
    PROVE  /\ n \div 10 \in Nat /\ n % 10 \in 0 .. 9
           /\ n = 10 * (n \div 10) + (n % 10)
           /\ n >= 10 => n \div 10 >= 1 /\ n \div 10 <= n - 1
           /\ n < 10 => n % 10 = n
OBVIOUS

LEMMA DigitsExist ==
    ASSUME NEW n \in Nat
    PROVE  \E f : DigitsTo(f, n)
<1> DEFINE T == Seq(Bytes)
           L == 0 .. 9
           D(k) == Digits[(k % 10) + 1]
           B == [k \in 0 .. n |-> <<D(k)>>]
           P == [k \in 0 .. n |-> k \div 10]
           F == [k \in 0 .. n |-> [x \in T |-> Append(x, D(k))]]
<1>1. \A k \in 0 .. n : D(k) \in Bytes
  BY DividedByTen, DigitValue
<1>2. \A k \in 0 .. n : k \notin L => P[k] \in 0 .. k - 1
  BY DividedByTen
<1>3. B \in [0 .. n -> T] /\ F \in [0 .. n -> [T -> T]]
  <2> HIDE DEF D
  <2> QED
    BY <1>1
<1>4. PICK f \in [0 .. n -> T] : \A k \in 0 .. n : f[k] = IF k \in L THEN B[k] ELSE F[k][f[P[k]]]
  <2> HIDE DEF B, P, F, L, T
  <2>1. \E f \in [0 .. n -> T] : Descends(f, n, L, B, P, F)
    BY <1>2, <1>3, DescentExists
  <2> QED
    BY <2>1 DEF Descends
<1>5. ASSUME NEW k \in 0 .. n
      PROVE  f[k] = IF k < 10 THEN <<Digits[k + 1]>> ELSE Append(f[k \div 10], Digits[(k % 10) + 1])
  <2>1. CASE k < 10
    <3>1. k % 10 = k
      BY <2>1, DividedByTen
    <3>2. B[k] = <<Digits[k + 1]>>
      BY <3>1
    <3>3. k \in L
      BY <2>1
    <3> QED
      BY <1>4, <2>1, <3>2, <3>3
  <2>2. CASE ~ (k < 10)
    <3>1. k \notin L /\ P[k] = k \div 10
      BY <2>2
    <3>2. f[k \div 10] \in T
      BY <1>2, <1>4, <3>1
    <3>3. \A x \in T : F[k][x] = Append(x, D(k))
      OBVIOUS
    <3>4. f[k] = F[k][f[k \div 10]]
      <4> HIDE DEF F, L, B, P
      <4> QED
        BY <1>4, <3>1
    <3>5. f[k] = Append(f[k \div 10], D(k))
      <4> HIDE DEF F, T, D
      <4> QED
        BY <3>2, <3>3, <3>4
    <3> QED
      BY <2>2, <3>5
  <2> QED
    BY <2>1, <2>2
<1>6. f = [k \in 0 .. n |-> f[k]]
  BY <1>4
<1>7. f = [k \in 0 .. n |-> IF k < 10 THEN <<Digits[k + 1]>>
                            ELSE Append(f[k \div 10], Digits[(k % 10) + 1])]
  BY <1>5, <1>6
<1> QED
  BY <1>7 DEF DigitsTo

LEMMA DigitsAgree ==
    ASSUME NEW n \in Nat, NEW m \in Nat, NEW f, DigitsTo(f, n), NEW g, DigitsTo(g, m)
    PROVE  \A k \in Nat : k <= n /\ k <= m => f[k] = g[k]
<1> DEFINE S == {k \in Nat : k <= n /\ k <= m => f[k] = g[k]}
<1>1. /\ \A k \in 0 .. n : f[k] = IF k < 10 THEN <<Digits[k + 1]>>
                                  ELSE Append(f[k \div 10], Digits[(k % 10) + 1])
      /\ \A k \in 0 .. m : g[k] = IF k < 10 THEN <<Digits[k + 1]>>
                                  ELSE Append(g[k \div 10], Digits[(k % 10) + 1])
  BY DEF DigitsTo
<1>2. ASSUME NEW k \in Nat, \A j \in 0 .. k - 1 : j \in S
      PROVE  k \in S
  <2> SUFFICES ASSUME k <= n, k <= m
               PROVE  f[k] = g[k]
    OBVIOUS
  <2> DEFINE j == k \div 10
  <2>1. k \in 0 .. n /\ k \in 0 .. m
    OBVIOUS
  <2>2. CASE k < 10
    <3>1. f[k] = <<Digits[k + 1]>> /\ g[k] = <<Digits[k + 1]>>
      BY <1>1, <2>1, <2>2
    <3> QED
      BY <3>1
  <2>3. CASE ~ (k < 10)
    <3>1. j \in 0 .. k - 1
      BY <2>3, DividedByTen
    <3>2. f[j] = g[j]
      <4>1. j \in S /\ j <= n /\ j <= m
        BY <1>2, <3>1
      <4> QED
        BY <4>1
    <3> QED
      BY <1>1, <2>1, <2>3, <3>2
  <2> QED
    BY <2>2, <2>3
<1> HIDE DEF S
<1>3. \A k \in Nat : k \in S
  BY <1>2, NumbersReachedFromBelow
<1> QED
  BY <1>3 DEF S

(* The digits of n are those of n \div 10 and one more.                      *)
LEMMA NumberBytesSteps ==
    ASSUME NEW n \in Nat
    PROVE  NumberBytes(n) = IF n < 10 THEN <<Digits[n + 1]>>
                            ELSE Append(NumberBytes(n \div 10), Digits[(n % 10) + 1])
<1>1. ASSUME NEW m \in Nat
      PROVE  \E f : DigitsTo(f, m) /\ NumberBytes(m) = f[m]
  <2> DEFINE f == CHOOSE f : DigitsTo(f, m)
  <2>1. DigitsTo(f, m)
    BY DigitsExist
  <2>2. NumberBytes(m) = f[m]
    BY DEF NumberBytes, DigitsTo
  <2> QED
    BY <2>1, <2>2
<1>2. PICK f : DigitsTo(f, n) /\ NumberBytes(n) = f[n]
  BY <1>1
<1>3. f[n] = IF n < 10 THEN <<Digits[n + 1]>> ELSE Append(f[n \div 10], Digits[(n % 10) + 1])
  <2>1. \A k \in 0 .. n : f[k] = IF k < 10 THEN <<Digits[k + 1]>>
                                  ELSE Append(f[k \div 10], Digits[(k % 10) + 1])
    BY <1>2 DEF DigitsTo
  <2> QED
    BY <2>1
<1>4. ASSUME n >= 10
      PROVE  f[n \div 10] = NumberBytes(n \div 10)
  <2> DEFINE j == n \div 10
  <2>1. j \in Nat /\ j <= n
    BY DividedByTen
  <2> HIDE DEF j
  <2>2. PICK g : DigitsTo(g, j) /\ NumberBytes(j) = g[j]
    BY <1>1, <2>1
  <2>3. f[j] = g[j]
    BY <1>2, <2>1, <2>2, DigitsAgree
  <2> QED
    BY <2>2, <2>3 DEF j
<1> QED
  BY <1>2, <1>3, <1>4

(* A number is spelled in digits that have its value; the first is not 0     *)
(* unless the number is.                                                    *)
LEMMA NumberSpelled ==
    ASSUME NEW n \in Nat
    PROVE  /\ AllDigits(NumberBytes(n)) /\ Len(NumberBytes(n)) >= 1
           /\ Number(NumberBytes(n)) = n
           /\ n < 10 => Len(NumberBytes(n)) = 1
           /\ n >= 1 => Value(NumberBytes(n)[1]) >= 1
<1> DEFINE Spelled(k) ==
              /\ AllDigits(NumberBytes(k)) /\ Len(NumberBytes(k)) >= 1
              /\ Number(NumberBytes(k)) = k
              /\ k < 10 => Len(NumberBytes(k)) = 1
              /\ k >= 1 => Value(NumberBytes(k)[1]) >= 1
           S == {k \in Nat : Spelled(k)}
<1>1. ASSUME NEW k \in Nat, \A j \in 0 .. k - 1 : j \in S
      PROVE  k \in S
  <2> DEFINE s == NumberBytes(k)
  <2>1. CASE k < 10
    <3> DEFINE b == Digits[k + 1]
    <3>1. s = <<b>>
      BY <2>1, NumberBytesSteps
    <3>2. IsDigit(b) /\ Value(b) = k
      BY <2>1, DigitValue
    <3> HIDE DEF b, s
    <3>3. AllDigits(<<>>) /\ s = Append(<<>>, b) /\ Len(s) = 1 /\ s[1] = b
      BY <3>1 DEF AllDigits
    <3>4. AllDigits(s) /\ Number(s) = k
      <4>1. AllDigits(Append(<<>>, b)) /\ Number(Append(<<>>, b)) = 10 * Number(<<>>) + Value(b)
        BY <3>2, <3>3, NumberOfDigits
      <4> QED
        BY <3>2, <3>3, <4>1, NumberOfDigits
    <3>5. Value(s[1]) = k
      BY <3>2, <3>3
    <3> QED
      BY <3>3, <3>4, <3>5 DEF s
  <2>2. CASE ~ (k < 10)
    <3> DEFINE q == k \div 10
               r == k % 10
               t == NumberBytes(q)
               b == Digits[r + 1]
    <3>1. q \in 0 .. k - 1 /\ q >= 1 /\ r \in 0 .. 9 /\ k = 10 * q + r
      BY <2>2, DividedByTen
    <3>2. s = Append(t, b)
      BY <2>2, NumberBytesSteps
    <3> HIDE DEF q, r
    <3>3. Spelled(q)
      BY <1>1, <3>1
    <3>4. IsDigit(b) /\ Value(b) = r
      BY <3>1, DigitValue
    <3> HIDE DEF s, b, t
    <3>5. AllDigits(t) /\ Len(t) >= 1 /\ Number(t) = q /\ Value(t[1]) >= 1
      BY <3>1, <3>3 DEF t
    <3>6. AllDigits(s) /\ Number(s) = k
      BY <3>1, <3>2, <3>4, <3>5, NumberOfDigits
    <3>7. Len(s) >= 1 /\ s[1] = t[1]
      <4>1. t \in Seq(Bytes) /\ b \in Bytes /\ Len(t) \in Nat
        BY <3>4, <3>5, InputsAssumption DEF AllDigits, IsDigit
      <4> QED
        BY <3>2, <3>5, <4>1
    <3> QED
      BY <2>2, <3>5, <3>6, <3>7 DEF s
  <2> QED
    BY <2>1, <2>2
<1> HIDE DEF S
<1>2. n \in S
  BY <1>1, NumbersReachedFromBelow
<1> QED
  BY <1>2 DEF S

-----------------------------------------------------------------------------
(* Reading a number                                                         *)

LEMMA BufferBytes ==
    ASSUME input \in Inputs
    PROVE  /\ buffer \in Seq(Bytes) /\ Len(buffer) \in Nat /\ end = Len(buffer) + 1
           /\ \A i \in 1 .. end - 1 : buffer[i] \in Bytes
BY InputsAssumption DEF buffer, end

(* The digits end at the first byte that is none, or with the bytes.        *)
LEMMA DigitsEndProperty ==
    ASSUME input \in Inputs, NEW p \in Nat, p <= end, p # 0
    PROVE  /\ DigitsEnd(p) \in p .. end
           /\ \A j \in p .. DigitsEnd(p) - 1 : IsDigit(buffer[j])
           /\ DigitsEnd(p) < end => ~ IsDigit(buffer[DigitsEnd(p)])
<1>1. end \in Nat
  BY BufferBytes
<1>2. CASE \A i \in p .. end - 1 : IsDigit(buffer[i])
  BY <1>1, <1>2 DEF DigitsEnd
<1>3. CASE ~ \A i \in p .. end - 1 : IsDigit(buffer[i])
  <2> DEFINE Other(i) == ~ IsDigit(buffer[i]) /\ \A j \in p .. i - 1 : IsDigit(buffer[j])
             S == {i \in p .. end - 1 : ~ IsDigit(buffer[i])}
             i == CHOOSE i \in p .. end - 1 : Other(i)
  <2>1. S \in SUBSET Nat /\ S # {}
    BY <1>1, <1>3
  <2>2. PICK k \in S : \A m \in S : k <= m
    <3> HIDE DEF S
    <3> QED
      BY <2>1, LeastNumber
  <2>3. k \in p .. end - 1 /\ Other(k)
    BY <1>1, <2>2
  <2>4. i \in p .. end - 1 /\ Other(i)
    BY <2>3
  <2>5. DigitsEnd(p) = i
    BY <1>3 DEF DigitsEnd
  <2> HIDE DEF i
  <2> QED
    BY <1>1, <2>4, <2>5
<1> QED
  BY <1>2, <1>3

(* Bytes of the buffer that are digits spell a number.                       *)
LEMMA DigitsBetween ==
    ASSUME input \in Inputs, NEW p \in Nat, p # 0, NEW q \in Nat, q <= end, p <= q,
           \A j \in p .. q - 1 : IsDigit(buffer[j])
    PROVE  /\ AllDigits(SubSeq(buffer, p, q - 1))
           /\ Len(SubSeq(buffer, p, q - 1)) = q - p
           /\ \A i \in 1 .. q - p : SubSeq(buffer, p, q - 1)[i] = buffer[p + i - 1]
<1> DEFINE s == SubSeq(buffer, p, q - 1)
<1>1. \A i \in p .. q - 1 : buffer[i] \in Bytes
  BY BufferBytes
<1>2. p \in Int /\ q - 1 \in Int
  OBVIOUS
<1>3. /\ s \in Seq(Bytes)
      /\ Len(s) = IF p <= q - 1 THEN (q - 1) - p + 1 ELSE 0
      /\ \A i \in 1 .. (q - 1) - p + 1 : s[i] = buffer[p + i - 1]
  BY <1>1, <1>2, SubSeqProperties
<1> HIDE DEF s
<1>4. Len(s) = q - p /\ \A i \in 1 .. q - p : s[i] = buffer[p + i - 1]
  BY <1>3
<1>5. \A i \in 1 .. q - p : p + i - 1 \in p .. q - 1
  OBVIOUS
<1> QED
  BY <1>3, <1>4, <1>5 DEF AllDigits, s

(* Whatever the bytes, getIntUntilCRLF gives a number and a position.       *)
LEMMA IntTyped ==
    ASSUME input \in Inputs, NEW p \in Nat, p # 0
    PROVE  LET n == getIntUntilCRLF(p)
           IN  n.ret \in {"ok", "wait", "error"} /\ n.val \in Int /\ n.next \in Nat \ {0}
<1> DEFINE signed == Left(p) >= 3 /\ buffer[p] \in {"-", "+"}
           first  == IF signed THEN p + 1 ELSE p
           stop   == DigitsEnd(first)
           sign   == IF signed /\ buffer[p] = "-" THEN -1 ELSE 1
           num    == Number(SubSeq(buffer, first, stop - 1))
           n      == getIntUntilCRLF(p)
<1>1. Nothing("wait", p).ret = "wait" /\ Nothing("wait", p).val = -1 /\ Nothing("wait", p).next = p
  BY DEF Nothing
<1>2. Nothing("error", p).ret = "error" /\ Nothing("error", p).val = -1 /\ Nothing("error", p).next = p
  BY DEF Nothing
<1>3. \/ n = Nothing("wait", p) \/ n = Nothing("error", p)
      \/ Left(p) >= 3 /\ n = [ret |-> "ok", val |-> sign * num, next |-> stop + 2]
  BY BufferBytes DEF getIntUntilCRLF, Left
<1>4. ASSUME Left(p) >= 3
      PROVE  sign * num \in Int /\ stop + 2 \in Nat \ {0}
  <2>1. first \in Nat /\ first # 0 /\ first <= end /\ end \in Nat
    BY <1>4, BufferBytes DEF Left
  <2>2. sign \in Int
    OBVIOUS
  <2> HIDE DEF first, sign
  <2>3. stop \in first .. end /\ \A j \in first .. stop - 1 : IsDigit(buffer[j])
    BY <2>1, DigitsEndProperty
  <2> HIDE DEF stop
  <2>4. AllDigits(SubSeq(buffer, first, stop - 1))
    BY <2>1, <2>3, DigitsBetween
  <2>5. num \in Nat
    BY <2>4, NumberOfDigits
  <2> HIDE DEF num
  <2> QED
    BY <2>1, <2>2, <2>3, <2>5
<1> HIDE DEF n, sign, num, stop, signed, first
<1>5. n.ret \in {"ok", "wait", "error"} /\ n.val \in Int /\ n.next \in Nat \ {0}
  BY <1>1, <1>2, <1>3, <1>4
<1> QED
  BY <1>5 DEF n

LEMMA TaggedTyped ==
    ASSUME input \in Inputs, ptr \in Nat \ {0}, NEW tag
    PROVE  LET n == Tagged(tag)
           IN  n.ret \in {"ok", "wait", "error"} /\ n.val \in Int /\ n.next \in Nat \ {0}
<1>1. /\ Nothing("wait", ptr).ret = "wait" /\ Nothing("wait", ptr).val = -1
      /\ Nothing("wait", ptr).next = ptr
      /\ Nothing("error", ptr).ret = "error" /\ Nothing("error", ptr).val = -1
      /\ Nothing("error", ptr).next = ptr
  BY DEF Nothing
<1> DEFINE g == getIntUntilCRLF(ptr + 1)
           n == Tagged(tag)
<1>2. g.ret \in {"ok", "wait", "error"} /\ g.val \in Int /\ g.next \in Nat \ {0}
  <2>1. ptr + 1 \in Nat /\ ptr + 1 # 0
    OBVIOUS
  <2> QED
    BY <2>1, IntTyped
<1>3. n = Nothing("wait", ptr) \/ n = Nothing("error", ptr) \/ n = g
  BY DEF Tagged
<1> HIDE DEF g, n
<1>4. n.ret \in {"ok", "wait", "error"} /\ n.val \in Int /\ n.next \in Nat \ {0}
  BY <1>1, <1>2, <1>3
<1> QED
  BY <1>4 DEF n

-----------------------------------------------------------------------------
(* Types                                                                    *)

LEMMA ReplacedElement ==
    ASSUME NEW S, NEW v \in Seq(S), NEW k \in 1 .. Len(v), NEW e \in S
    PROVE  LET w == [v EXCEPT ![k] = e]
           IN  /\ w \in Seq(S) /\ Len(w) = Len(v)
               /\ w[k] = e /\ \A i \in 1 .. Len(v) : i # k => w[i] = v[i]
<1> DEFINE n == Len(v)
           w == [v EXCEPT ![k] = e]
<1>1. n \in Nat /\ v \in [1 .. n -> S]
  OBVIOUS
<1>2. w \in [1 .. n -> S] /\ w[k] = e /\ \A i \in 1 .. n : i # k => w[i] = v[i]
  <2> HIDE DEF n
  <2> QED
    BY <1>1
<1> HIDE DEF w, n
<1>3. w \in Seq(S) /\ Len(w) = n
  BY <1>1, <1>2
<1> QED
  BY <1>2, <1>3 DEF w, n

(* The inductive invariant: when a parameter is read there is room for it.  *)
Typed ==
    /\ TypeOK
    /\ input \in Inputs
    /\ m_vecParams \in Seq(Seq(Bytes))
    /\ pc \in {"parseStrlen", "parseStrval"} => Len(m_vecParams) = m_nNumOfParam + 1
    /\ pc = "parseStrval" => m_nParamLen \in Nat

LEMMA TypedInit == Init => Typed
<1> SUFFICES ASSUME Init PROVE Typed
  OBVIOUS
<1>1. m_vecParams \in Seq(Seq(Bytes)) /\ Len(m_vecParams) = 0
  BY DEF Init
<1> QED
  BY <1>1 DEF Init, Typed, TypeOK

LEMMA TypedStep == Typed /\ [Next]_vars => Typed'
<1> SUFFICES ASSUME Typed, [Next]_vars PROVE Typed'
  OBVIOUS
<1>1. /\ input \in Inputs /\ ptr \in Nat \ {0} /\ m_nMulti \in Int /\ m_nParamLen \in Int
      /\ m_vecParams \in Seq(Seq(Bytes)) /\ Len(m_vecParams) \in Nat
      /\ m_nNumOfParam \in 0 .. Len(m_vecParams) /\ Len(m_vecParams) <= m_nNumOfParam + 1
      /\ result \in {"ok", "wait", "error"}
  BY DEF Typed, TypeOK
<1>2. CASE parseMulti
  <2> DEFINE n == Tagged("*")
  <2>1. n.ret \in {"ok", "wait", "error"} /\ n.val \in Int /\ n.next \in Nat \ {0}
    BY <1>1, TaggedTyped
  <2> HIDE DEF n
  <2>2. /\ ptr' = n.next /\ m_nMulti' \in Int
        /\ pc' \in {"done", "parseStrlist"} /\ result' \in {"ok", "wait", "error"}
        /\ input' = input /\ m_nParamLen' = m_nParamLen
        /\ m_nNumOfParam' = m_nNumOfParam /\ m_vecParams' = m_vecParams
    BY <1>1, <1>2, <2>1 DEF parseMulti, Stop, Continue, n
  <2> QED
    BY <1>1, <2>1, <2>2 DEF Typed, TypeOK
<1>3. CASE parseStrlist
  <2>1. /\ input' = input /\ ptr' = ptr /\ m_nMulti' = m_nMulti /\ m_nParamLen' = m_nParamLen
        /\ m_nNumOfParam' = m_nNumOfParam
    BY <1>3 DEF parseStrlist
  <2>2. CASE m_nNumOfParam < m_nMulti
    <3>1. /\ m_vecParams' = IF Len(m_vecParams) < m_nNumOfParam + 1
                            THEN Append(m_vecParams, <<>>) ELSE m_vecParams
          /\ pc' = "parseStrlen" /\ result' = result
      BY <1>3, <2>2 DEF parseStrlist, Continue
    <3>2. <<>> \in Seq(Bytes)
      OBVIOUS
    <3>3. m_vecParams' \in Seq(Seq(Bytes)) /\ Len(m_vecParams') = m_nNumOfParam + 1
      BY <1>1, <3>1, <3>2
    <3> QED
      BY <1>1, <2>1, <3>1, <3>3 DEF Typed, TypeOK
  <2>3. CASE ~ (m_nNumOfParam < m_nMulti)
    <3>1. /\ m_vecParams' = SubSeq(m_vecParams, 1, m_nNumOfParam)
          /\ pc' = "done" /\ result' = "ok"
      BY <1>3, <2>3 DEF parseStrlist, Stop
    <3>2. m_vecParams' \in Seq(Seq(Bytes)) /\ Len(m_vecParams') = m_nNumOfParam
      BY <1>1, <3>1
    <3> QED
      BY <1>1, <2>1, <3>1, <3>2 DEF Typed, TypeOK
  <2> QED
    BY <2>2, <2>3
<1>4. CASE parseStrlen
  <2> DEFINE n == Tagged("$")
  <2>1. n.ret \in {"ok", "wait", "error"} /\ n.val \in Int /\ n.next \in Nat \ {0}
    BY <1>1, TaggedTyped
  <2> HIDE DEF n
  <2>2. Len(m_vecParams) = m_nNumOfParam + 1
    BY <1>4 DEF Typed, parseStrlen
  <2>3. input' = input /\ m_nMulti' = m_nMulti /\ m_vecParams' = m_vecParams
    BY <1>4 DEF parseStrlen
  <2>4. CASE n.ret # "ok"
    <3>1. /\ pc' = "done" /\ result' = n.ret
          /\ ptr' = ptr /\ m_nParamLen' = m_nParamLen /\ m_nNumOfParam' = m_nNumOfParam
      BY <1>4, <2>4 DEF parseStrlen, Stop, n
    <3> QED
      BY <1>1, <2>1, <2>3, <3>1 DEF Typed, TypeOK
  <2>5. CASE n.ret = "ok"
    <3>1. /\ ptr' = n.next /\ m_nParamLen' = n.val
          /\ \/ pc' = "done" /\ result' = "error" /\ m_nNumOfParam' = m_nNumOfParam
             \/ pc' = "parseStrlist" /\ result' = result /\ m_nNumOfParam' = m_nNumOfParam + 1
             \/ /\ pc' = "parseStrval" /\ result' = result /\ m_nNumOfParam' = m_nNumOfParam
                /\ ~ (n.val < -1) /\ n.val # -1
      BY <1>4, <2>5 DEF parseStrlen, Stop, Continue, n
    <3>2. pc' = "parseStrval" => n.val \in Nat
      BY <2>1, <3>1
    <3> QED
      BY <1>1, <2>1, <2>2, <2>3, <3>1, <3>2 DEF Typed, TypeOK
  <2> QED
    BY <2>4, <2>5
<1>5. CASE parseStrval
  <2> DEFINE tail == ptr + m_nParamLen
             s == SubSeq(buffer, ptr, tail - 1)
  <2>1. Len(m_vecParams) = m_nNumOfParam + 1 /\ m_nParamLen \in Nat
    BY <1>5 DEF Typed, parseStrval
  <2>2. input' = input /\ m_nMulti' = m_nMulti
    BY <1>5 DEF parseStrval
  <2>3. \/ /\ pc' = "done" /\ result' \in {"wait", "error"}
           /\ ptr' = ptr /\ m_nParamLen' = m_nParamLen /\ m_nNumOfParam' = m_nNumOfParam
           /\ m_vecParams' = m_vecParams
        \/ /\ Left(ptr) >= m_nParamLen + 2
           /\ m_vecParams' = [m_vecParams EXCEPT ![m_nNumOfParam + 1] = s]
           /\ ptr' = tail + 2 /\ m_nParamLen' = -1 /\ m_nNumOfParam' = m_nNumOfParam + 1
           /\ pc' = "parseStrlist" /\ result' = result
    BY <1>5 DEF parseStrval, Stop, Continue
  <2>4. ASSUME Left(ptr) >= m_nParamLen + 2
        PROVE  s \in Seq(Bytes)
    <3>1. \A i \in ptr .. tail - 1 : i \in 1 .. end - 1
      BY <1>1, <2>1, <2>4, BufferBytes DEF Left
    <3>2. \A i \in ptr .. tail - 1 : buffer[i] \in Bytes
      BY <1>1, <3>1, BufferBytes
    <3>3. ptr \in Int /\ tail - 1 \in Int
      BY <1>1
    <3> QED
      BY <3>2, <3>3, SubSeqProperties
  <2>5. tail + 2 \in Nat \ {0}
    BY <1>1, <2>1
  <2> HIDE DEF s, tail
  <2>6. CASE pc' = "done"
    BY <1>1, <2>1, <2>2, <2>3, <2>6 DEF Typed, TypeOK
  <2>7. CASE pc' # "done"
    <3>1. m_vecParams' \in Seq(Seq(Bytes)) /\ Len(m_vecParams') = Len(m_vecParams)
      <4>1. m_nNumOfParam + 1 \in 1 .. Len(m_vecParams)
        BY <1>1, <2>1
      <4>2. s \in Seq(Bytes) /\ m_vecParams' = [m_vecParams EXCEPT ![m_nNumOfParam + 1] = s]
        BY <2>3, <2>4, <2>7
      <4> QED
        BY <1>1, <4>1, <4>2, ReplacedElement
    <3> QED
      BY <1>1, <2>1, <2>2, <2>3, <2>5, <2>7, <3>1 DEF Typed, TypeOK
  <2> QED
    BY <2>6, <2>7
<1>6. CASE UNCHANGED vars
  BY <1>6 DEF vars, Typed, TypeOK
<1> QED
  BY <1>2, <1>3, <1>4, <1>5, <1>6 DEF Next

LEMMA TypedInvariance == Spec => []Typed
BY TypedInit, TypedStep, PTL DEF Spec

(* Whatever bytes arrive, the parser keeps its counters and positions, and   *)
(* there is room for the parameter it reads.                                *)
THEOREM ParserTypeCorrect == Spec => []TypeOK
<1>1. Typed => TypeOK
  BY DEF Typed
<1> QED
  BY <1>1, TypedInvariance, PTL

-----------------------------------------------------------------------------
(* What stands in the buffer                                                *)

(* t stands behind the first p bytes, as far as the buffer goes.            *)
Stands(p, t) == \A j \in 1 .. Len(t) : p + j <= Len(buffer) => buffer[p + j] = t[j]

LEMMA StandsSplit ==
    ASSUME NEW p \in Nat, NEW s \in Seq(Bytes), NEW t \in Seq(Bytes), Stands(p, s \o t)
    PROVE  Stands(p, s) /\ Stands(p + Len(s), t)
<1> DEFINE n == Len(s)
           m == Len(t)
           u == s \o t
<1>1. /\ n \in Nat /\ m \in Nat /\ Len(u) = n + m
      /\ \A i \in 1 .. n + m : u[i] = IF i <= n THEN s[i] ELSE t[i - n]
  BY ConcatProperties
<1>2. \A j \in 1 .. Len(u) : p + j <= Len(buffer) => buffer[p + j] = u[j]
  BY DEF Stands
<1> HIDE DEF u, n, m
<1>3. ASSUME NEW j \in 1 .. n, p + j <= Len(buffer)
      PROVE  buffer[p + j] = s[j]
  <2>1. j \in 1 .. n + m /\ j <= n
    BY <1>1
  <2> QED
    BY <1>1, <1>2, <1>3, <2>1
<1>4. ASSUME NEW j \in 1 .. m, (p + n) + j <= Len(buffer)
      PROVE  buffer[(p + n) + j] = t[j]
  <2>1. n + j \in 1 .. n + m /\ ~ (n + j <= n) /\ (n + j) - n = j /\ (p + n) + j = p + (n + j)
    BY <1>1
  <2>2. u[n + j] = t[j]
    BY <1>1, <2>1
  <2>3. buffer[p + (n + j)] = u[n + j]
    BY <1>1, <1>2, <1>4, <2>1
  <2> QED
    BY <2>1, <2>2, <2>3
<1> QED
  BY <1>3, <1>4 DEF Stands, n, m

(* A line: a tag, the digits, the line end.                                  *)
LEMMA LineParts ==
    ASSUME NEW tag \in Bytes, NEW n \in Nat
    PROVE  /\ Line(tag, n) \in Seq(Bytes)
           /\ Len(Line(tag, n)) = Len(NumberBytes(n)) + 3
           /\ Len(NumberBytes(n)) \in Nat /\ Len(NumberBytes(n)) >= 1
           /\ NumberBytes(n) \in Seq(Bytes)
<1>1. NumberBytes(n) \in Seq(Bytes) /\ Len(NumberBytes(n)) >= 1
  BY NumberSpelled DEF AllDigits
<1>2. CR \in Bytes /\ LF \in Bytes
  BY InputsAssumption
<1> DEFINE b == NumberBytes(n)
           t == <<tag>>
           e == <<CR, LF>>
<1>3. t \in Seq(Bytes) /\ Len(t) = 1 /\ e \in Seq(Bytes) /\ Len(e) = 2
  BY <1>2
<1> HIDE DEF b, t, e
<1>4. t \o b \in Seq(Bytes) /\ Len(t \o b) = 1 + Len(b)
  BY <1>1, <1>3, ConcatProperties DEF b
<1>5. (t \o b) \o e \in Seq(Bytes) /\ Len((t \o b) \o e) = Len(t \o b) + 2
  <2> DEFINE u == t \o b
  <2>1. u \in Seq(Bytes)
    BY <1>4
  <2> HIDE DEF u
  <2>2. e \in Seq(Bytes) /\ Len(e) = 2
    BY <1>3
  <2>3. u \o e \in Seq(Bytes) /\ Len(u \o e) = Len(u) + Len(e)
    BY <2>1, <2>2, ConcatProperties
  <2> QED
    BY <2>2, <2>3 DEF u
<1>6. Line(tag, n) = (t \o b) \o e
  BY DEF Line, t, b, e
<1>7. Len(b) \in Nat
  BY <1>1 DEF b
<1> QED
  BY <1>1, <1>4, <1>5, <1>6, <1>7 DEF b

LEMMA LineStands ==
    ASSUME input \in Inputs, NEW p \in Nat, NEW tag \in Bytes, NEW n \in Nat, Stands(p, Line(tag, n))
    PROVE  LET k == Len(NumberBytes(n)) IN
           /\ p + 1 <= Len(buffer) => buffer[p + 1] = tag
           /\ \A j \in 1 .. k : (p + 1) + j <= Len(buffer) => buffer[(p + 1) + j] = NumberBytes(n)[j]
           /\ p + k + 2 <= Len(buffer) => buffer[p + k + 2] = CR
           /\ p + k + 3 <= Len(buffer) => buffer[p + k + 3] = LF
<1> DEFINE b == NumberBytes(n)
           k == Len(b)
           t == <<tag>>
           e == <<CR, LF>>
<1>1. b \in Seq(Bytes) /\ k \in Nat
  BY LineParts
<1>2. CR \in Bytes /\ LF \in Bytes
  BY InputsAssumption
<1>3. /\ t \in Seq(Bytes) /\ Len(t) = 1 /\ t[1] = tag
      /\ e \in Seq(Bytes) /\ Len(e) = 2 /\ e[1] = CR /\ e[2] = LF
  BY <1>2
<1>4. Line(tag, n) = (t \o b) \o e
  BY DEF Line
<1> HIDE DEF b, k, t, e
<1>5. t \o b \in Seq(Bytes) /\ Len(t \o b) = 1 + k
  BY <1>1, <1>3, ConcatProperties DEF k
<1>6. Stands(p, t \o b) /\ Stands(p + Len(t \o b), e)
  BY <1>3, <1>4, <1>5, StandsSplit
<1>7. Stands(p, t) /\ Stands(p + Len(t), b)
  BY <1>1, <1>3, <1>6, StandsSplit
<1>8. p + 1 <= Len(buffer) => buffer[p + 1] = tag
  BY <1>3, <1>7 DEF Stands
<1>9. \A j \in 1 .. k : (p + 1) + j <= Len(buffer) => buffer[(p + 1) + j] = b[j]
  BY <1>3, <1>7 DEF Stands, k
<1>10. p + k + 2 <= Len(buffer) => buffer[p + k + 2] = CR
  <2>1. (p + (1 + k)) + 1 = p + k + 2
    BY <1>1
  <2> QED
    BY <1>3, <1>5, <1>6, <2>1 DEF Stands
<1>11. p + k + 3 <= Len(buffer) => buffer[p + k + 3] = LF
  <2>1. (p + (1 + k)) + 2 = p + k + 3
    BY <1>1
  <2> QED
    BY <1>3, <1>5, <1>6, <2>1 DEF Stands
<1> QED
  BY <1>8, <1>9, <1>10, <1>11 DEF b, k

(* The number of a line that stands in the buffer is read whole, or the     *)
(* parser asks for more, or what there is of it fills the buffer and is     *)
(* taken for a number.                                                      *)
LEMMA NumberRead ==
    ASSUME input \in Inputs, NEW p \in Nat, NEW tag \in Bytes, NEW n \in Nat,
           Stands(p, Line(tag, n)), p <= Len(buffer)
    PROVE  LET t == getIntUntilCRLF(p + 2)
               q == p + Len(Line(tag, n))
           IN  \/ q <= Len(buffer) /\ t.ret = "ok" /\ t.val = n /\ t.next = q + 1
               \/ q > Len(buffer) /\ t.ret = "wait"
               \/ /\ q > Len(buffer) /\ t.ret = "ok" /\ t.val \in Nat /\ t.val >= 1
                  /\ t.next = Len(buffer) + 3
<1> DEFINE b == NumberBytes(n)
           k == Len(b)
           s == p + 2
           L == Len(buffer)
           q == p + Len(Line(tag, n))
           t == getIntUntilCRLF(s)
           stop == DigitsEnd(s)
<1>1. /\ AllDigits(b) /\ k \in Nat /\ k >= 1 /\ Number(b) = n
      /\ n < 10 => k = 1
      /\ n >= 1 => Value(b[1]) >= 1
      /\ b \in Seq(Bytes) /\ q = p + k + 3
  <2>1. Len(Line(tag, n)) = k + 3 /\ k \in Nat
    BY LineParts
  <2> HIDE DEF b
  <2>2. q = p + k + 3
    BY <2>1
  <2> QED
    BY <2>1, <2>2, NumberSpelled DEF AllDigits, b
<1>2. L \in Nat /\ end = L + 1
  BY BufferBytes
<1>3. /\ \A j \in 1 .. k : (p + 1) + j <= L => buffer[(p + 1) + j] = b[j]
      /\ p + k + 2 <= L => buffer[p + k + 2] = CR
      /\ p + k + 3 <= L => buffer[p + k + 3] = LF
  BY LineStands
<1> HIDE DEF b, k, L, q, t
<1>4. CASE Left(s) < 3
  <2>1. t = Nothing("wait", s)
    BY <1>4 DEF getIntUntilCRLF, t
  <2>2. q > L
    BY <1>1, <1>2, <1>4 DEF Left
  <2> QED
    BY <2>1, <2>2 DEF Nothing, t, q, L
<1>5. CASE ~ (Left(s) < 3)
  <2>1. s \in Nat /\ s # 0 /\ s <= L /\ s <= end
    BY <1>2, <1>5 DEF Left
  <2>2. \A j \in 1 .. k : IsDigit(b[j])
    BY <1>1 DEF AllDigits, k
  <2>3. buffer[s] = b[1] /\ IsDigit(buffer[s])
    <3>1. 1 \in 1 .. k /\ (p + 1) + 1 = s
      BY <1>1
    <3> QED
      BY <1>3, <2>1, <2>2, <3>1
  <2>4. buffer[s] \notin {"-", "+"}
    BY <2>3, NoDigits
  <2>5. /\ stop \in s .. end
        /\ \A j \in s .. stop - 1 : IsDigit(buffer[j])
        /\ stop < end => ~ IsDigit(buffer[stop])
    BY <2>1, DigitsEndProperty
  <2> DEFINE num == Number(SubSeq(buffer, s, stop - 1))
  <2>6. t = IF stop < end /\ (buffer[stop] # CR \/ (stop + 1 < end /\ buffer[stop + 1] # LF))
            THEN Nothing("error", s)
            ELSE IF stop + 1 = end THEN Nothing("wait", s)
            ELSE [ret |-> "ok", val |-> 1 * num, next |-> stop + 2]
    BY <1>5, <2>4 DEF getIntUntilCRLF, t
  <2> HIDE DEF stop, s
  <2>7. AllDigits(SubSeq(buffer, s, stop - 1)) /\ Len(SubSeq(buffer, s, stop - 1)) = stop - s
        /\ \A i \in 1 .. stop - s : SubSeq(buffer, s, stop - 1)[i] = buffer[s + i - 1]
    <3>1. stop \in Nat /\ stop <= end /\ s <= stop
      BY <1>2, <2>1, <2>5
    <3> QED
      BY <2>1, <2>5, <3>1, DigitsBetween
  <2>8. num \in Nat /\ 1 * num = num
    BY <2>7, NumberOfDigits
  <2> DEFINE d == SubSeq(buffer, s, stop - 1)
  <2> HIDE DEF num, d
  <2>9. stop <= s + k
    <3> SUFFICES ASSUME stop > s + k PROVE FALSE
      BY <1>1, <1>2, <2>1, <2>5
    <3>1. s + k \in s .. stop - 1 /\ s + k = p + k + 2 /\ s + k <= L
      BY <1>1, <1>2, <2>1, <2>5 DEF s
    <3> QED
      BY <1>3, <2>5, <3>1, NoDigits
  <2>10. stop = s + k \/ stop = end
    <3> SUFFICES ASSUME stop < s + k, stop < end PROVE FALSE
      BY <1>1, <1>2, <2>1, <2>5, <2>9
    <3> DEFINE j == stop - (p + 1)
    <3>1. j \in 1 .. k /\ (p + 1) + j = stop /\ stop <= L
      BY <1>1, <1>2, <2>1, <2>5 DEF s
    <3> QED
      BY <1>3, <2>2, <2>5, <3>1
  <2>11. \A i \in 1 .. stop - s : d[i] = b[i]
    <3> SUFFICES ASSUME NEW i \in 1 .. stop - s
                 PROVE  d[i] = b[i]
      OBVIOUS
    <3>1. /\ i \in 1 .. k /\ (p + 1) + i = s + i - 1 /\ (p + 1) + i <= L
      BY <1>1, <1>2, <2>1, <2>5, <2>9 DEF s
    <3>2. d[i] = buffer[s + i - 1]
      BY <2>7 DEF d
    <3> QED
      BY <1>3, <3>1, <3>2
  <2>12. CASE stop = s + k /\ stop < end
    <3>1. stop = p + k + 2 /\ stop <= L /\ buffer[stop] = CR
      BY <1>1, <1>2, <1>3, <2>12 DEF s
    <3>2. CASE stop + 1 = end
      <4>1. t = Nothing("wait", s)
        BY <1>2, <2>6, <3>1, <3>2
      <4>2. q > L
        BY <1>1, <1>2, <3>1, <3>2
      <4> QED
        BY <4>1, <4>2 DEF Nothing, t, q, L, s
    <3>3. CASE stop + 1 # end
      <4>1. q <= L /\ stop + 1 = p + k + 3 /\ stop + 2 = q + 1 /\ stop + 1 < end
        <5>1. q = p + k + 3 /\ k \in Nat /\ stop = p + k + 2 /\ stop + 1 # L + 1 /\ stop <= L
          BY <1>1, <1>2, <3>1, <3>3
        <5> HIDE DEF stop
        <5> QED
          BY <1>2, <5>1
      <4>2. buffer[stop + 1] = LF
        BY <1>1, <1>3, <4>1
      <4>3. t = [ret |-> "ok", val |-> num, next |-> stop + 2]
        <5>1. ~ (stop < end /\ (buffer[stop] # CR \/ (stop + 1 < end /\ buffer[stop + 1] # LF)))
          BY <3>1, <4>2
        <5>2. t = [ret |-> "ok", val |-> 1 * num, next |-> stop + 2]
          BY <2>6, <3>3, <5>1
        <5> QED
          BY <2>8, <5>2
      <4>4. d = b
        <5>1. d \in Seq(Bytes) /\ b \in Seq(Bytes) /\ Len(d) = stop - s /\ Len(b) = k
          BY <1>1, <2>7 DEF AllDigits, d, k
        <5>3. Len(d) = k
          <6>1. s \in Int /\ k \in Int /\ stop = s + k
            BY <1>1, <2>1, <2>12
          <6> QED
            BY <5>1, <6>1
        <5>2. \A i \in 1 .. Len(d) : d[i] = b[i]
          BY <2>11, <5>1
        <5> QED
          BY <5>1, <5>2, <5>3, SeqEqual
      <4>5. num = n
        BY <1>1, <4>4 DEF num, d
      <4> QED
        BY <4>1, <4>3, <4>5 DEF t, q, L, s
    <3> QED
      BY <3>2, <3>3
  <2>13. CASE stop = end
    <3>1. q > L
      BY <1>1, <1>2, <2>9, <2>13 DEF s
    <3>2. ~ (stop < end) /\ stop + 1 # end /\ stop + 2 = L + 3
      BY <1>2, <2>13
    <3>3. t = [ret |-> "ok", val |-> num, next |-> L + 3]
      BY <2>6, <2>8, <3>2
    <3>4. stop - s >= 3 /\ stop - s <= k /\ k \in Nat
      <4>1. Left(s) = end - s
        BY DEF Left
      <4> QED
        BY <1>1, <1>2, <1>5, <2>1, <2>9, <2>13, <4>1
    <3>5. n >= 1
      <4>1. stop \in Int /\ s \in Int
        BY <1>2, <2>1, <2>13
      <4>2. k # 1
        BY <3>4, <4>1
      <4> QED
        BY <1>1, <4>2
    <3>6. AllDigits(d) /\ Len(d) >= 1 /\ d[1] = b[1]
      <4>1. 1 \in 1 .. stop - s
        BY <2>1, <2>5, <3>4
      <4> QED
        BY <2>1, <2>5, <2>7, <2>11, <3>4, <4>1 DEF d
    <3>7. num >= 1
      BY <1>1, <3>5, <3>6, PositiveNumber DEF num, d
    <3> QED
      BY <2>8, <3>1, <3>3, <3>7 DEF t, q, L, s
  <2> QED
    BY <1>2, <2>5, <2>10, <2>12, <2>13
<1> QED
  BY <1>4, <1>5

LEMMA LineRead ==
    ASSUME input \in Inputs, NEW p \in Nat, NEW tag \in Bytes, NEW n \in Nat,
           Stands(p, Line(tag, n)), p <= Len(buffer), ptr = p + 1
    PROVE  LET t == Tagged(tag)
               q == p + Len(Line(tag, n))
           IN  \/ q <= Len(buffer) /\ t.ret = "ok" /\ t.val = n /\ t.next = q + 1
               \/ q > Len(buffer) /\ t.ret = "wait"
               \/ /\ q > Len(buffer) /\ t.ret = "ok" /\ t.val \in Nat /\ t.val >= 1
                  /\ t.next = Len(buffer) + 3
<1> DEFINE q == p + Len(Line(tag, n))
           t == Tagged(tag)
           k == Len(NumberBytes(n))
<1>1. Len(buffer) \in Nat /\ end = Len(buffer) + 1
  BY BufferBytes
<1>2. Len(Line(tag, n)) = k + 3 /\ k \in Nat
  BY LineParts
<1> HIDE DEF k
<1>3. CASE Left(ptr) < 3
  <2>1. t = Nothing("wait", ptr)
    BY <1>3 DEF Tagged
  <2>2. q > Len(buffer)
    BY <1>1, <1>2, <1>3 DEF Left
  <2> QED
    BY <2>1, <2>2 DEF Nothing
<1>4. CASE ~ (Left(ptr) < 3)
  <2>1. p + 1 <= Len(buffer)
    BY <1>1, <1>4 DEF Left
  <2>2. buffer[ptr] = tag
    BY <2>1, LineStands
  <2>3. t = getIntUntilCRLF(p + 2)
    <3>1. ptr + 1 = p + 2
      OBVIOUS
    <3> QED
      BY <1>4, <2>2, <3>1 DEF Tagged
  <2> HIDE DEF t
  <2> QED
    BY <2>3, NumberRead DEF t
<1> QED
  BY <1>3, <1>4

-----------------------------------------------------------------------------
(* The parts of a request                                                   *)

Flat(g, parts) ==
    g = [i \in 1 .. Len(parts) |-> IF i = 1 THEN parts[i] ELSE g[i - 1] \o parts[i]]

(* FlattenSeq puts one part behind the other.                               *)
LEMMA Flattened ==
    ASSUME NEW parts \in Seq(Seq(Bytes))
    PROVE  \E f \in [0 .. Len(parts) -> Seq(Bytes)] :
              /\ f[0] = <<>> /\ FlattenSeq(parts) = f[Len(parts)]
              /\ \A i \in 1 .. Len(parts) : f[i] = f[i - 1] \o parts[i]
<1> DEFINE T == Seq(Bytes)
           n == Len(parts)
           F == [i \in 1 .. n |-> [x \in T |-> x \o parts[i]]]
           g == CHOOSE h : Flat(h, parts)
<1>1. n \in Nat /\ \A i \in 1 .. n : parts[i] \in T
  OBVIOUS
<1>2. F \in [1 .. n -> [T -> T]]
  <2>1. \A i \in 1 .. n, x \in T : x \o parts[i] \in T
    BY <1>1, ConcatProperties
  <2> HIDE DEF T, n
  <2> QED
    BY <2>1
<1>3. PICK f \in [0 .. n -> T] : Iterates(f, <<>>, n, F)
  <2>1. <<>> \in T
    OBVIOUS
  <2> HIDE DEF F, n, T
  <2> QED
    BY <1>1, <1>2, <2>1, IterationExists
<1> HIDE DEF n
<1>4. \A i \in 0 .. n : f[i] = IF i = 0 THEN <<>> ELSE F[i][f[i - 1]]
  <2> HIDE DEF F
  <2> QED
    BY <1>3 DEF Iterates
<1>5. \A i \in 1 .. n, x \in T : F[i][x] = x \o parts[i]
  OBVIOUS
<1> HIDE DEF F, T
<1>6. f[0] = <<>> /\ \A i \in 1 .. n : f[i] = f[i - 1] \o parts[i]
  <2>1. \A i \in 1 .. n : i \in 0 .. n /\ i # 0 /\ i - 1 \in 0 .. n
    BY <1>1
  <2>2. \A i \in 1 .. n : f[i - 1] \in T
    BY <1>3, <2>1
  <2>3. 0 \in 0 .. n
    BY <1>1
  <2> QED
    BY <1>4, <1>5, <2>1, <2>2, <2>3
<1>7. CASE n = 0
  <2>1. FlattenSeq(parts) = parts /\ parts = <<>>
    BY <1>7 DEF FlattenSeq, n
  <2> QED
    BY <1>3, <1>6, <1>7, <2>1 DEF n, T
<1>8. CASE n # 0
  <2> DEFINE h == [i \in 1 .. n |-> f[i]]
  <2>1. \A i \in 1 .. n : f[i] = IF i = 1 THEN parts[i] ELSE h[i - 1] \o parts[i]
    <3>1. ASSUME NEW i \in 1 .. n, i # 1
          PROVE  f[i] = h[i - 1] \o parts[i]
      <4>1. i - 1 \in 1 .. n
        BY <1>1, <3>1
      <4>2. h[i - 1] = f[i - 1]
        BY <4>1
      <4> QED
        BY <1>6, <4>2
    <3>2. f[1] = parts[1]
      <4>1. 1 \in 1 .. n /\ 1 - 1 = 0
        BY <1>1, <1>8
      <4>2. parts[1] \in Seq(Bytes)
        BY <1>1, <4>1 DEF T
      <4>3. <<>> \o parts[1] = parts[1]
        BY <4>2, ConcatEmptySeq
      <4> QED
        BY <1>6, <4>1, <4>3
    <3> HIDE DEF h
    <3> QED
      BY <3>1, <3>2
  <2>2. h = [i \in 1 .. n |-> IF i = 1 THEN parts[i] ELSE h[i - 1] \o parts[i]]
    BY <2>1
  <2>3. Flat(h, parts)
    <3> HIDE DEF h
    <3> QED
      BY <2>2 DEF Flat, n
  <2>4. Flat(g, parts)
    BY <2>3
  <2>5. FlattenSeq(parts) = g[n]
    BY <1>8 DEF FlattenSeq, Flat, n
  <2> HIDE DEF g, h
  <2>6. \A i \in 1 .. n : g[i] = IF i = 1 THEN parts[i] ELSE g[i - 1] \o parts[i]
    BY <2>4 DEF Flat, n
  <2> DEFINE S == {i \in 0 .. n : i # 0 => g[i] = f[i]}
  <2>7. 0 \in S
    BY <1>1
  <2>8. ASSUME NEW i \in 1 .. n, i - 1 \in S
        PROVE  i \in S
    <3>1. i \in 0 .. n
      BY <1>1
    <3>2. CASE i = 1
      <4>1. g[1] = parts[1]
        BY <2>6, <3>2
      <4>2. h[1] = parts[1] /\ h[1] = f[1]
        BY <2>2, <3>2 DEF h
      <4> QED
        BY <3>1, <3>2, <4>1, <4>2
    <3>3. CASE i # 1
      <4>1. g[i - 1] = f[i - 1]
        BY <2>8, <3>3
      <4> QED
        BY <1>6, <2>6, <3>1, <3>3, <4>1
    <3> QED
      BY <3>2, <3>3
  <2> HIDE DEF S
  <2>9. \A i \in 0 .. n : i \in S
    BY <1>1, <2>7, <2>8, IndicesReached
  <2>10. g[n] = f[n]
    <3>1. n \in 0 .. n
      BY <1>1
    <3> QED
      BY <1>8, <2>9, <3>1 DEF S
  <2> QED
    BY <1>3, <1>6, <2>5, <2>10 DEF n, T
<1> QED
  BY <1>7, <1>8

Param(q) == Line("$", Len(q)) \o q \o <<CR, LF>>

LEMMA ParamBytes ==
    ASSUME NEW q \in Seq(Bytes)
    PROVE  /\ Param(q) \in Seq(Bytes)
           /\ Len(Line("$", Len(q))) \in Nat
           /\ Len(Param(q)) = Len(Line("$", Len(q))) + Len(q) + 2
           /\ \A p \in Nat : Stands(p, Param(q)) =>
                /\ Stands(p, Line("$", Len(q)))
                /\ Stands(p + Len(Line("$", Len(q))), q)
                /\ Stands(p + Len(Line("$", Len(q))) + Len(q), <<CR, LF>>)
<1> DEFINE l == Line("$", Len(q))
           e == <<CR, LF>>
           u == l \o q
<1>1. CR \in Bytes /\ LF \in Bytes /\ "$" \in Bytes /\ Len(q) \in Nat
  BY InputsAssumption
<1>2. l \in Seq(Bytes)
  BY <1>1, LineParts
<1>3. e \in Seq(Bytes) /\ Len(e) = 2
  BY <1>1
<1> HIDE DEF l, e
<1>4. u \in Seq(Bytes) /\ Len(u) = Len(l) + Len(q)
  BY <1>2, ConcatProperties
<1>5. Param(q) = u \o e
  BY DEF Param, l, e
<1> HIDE DEF u
<1>6. u \o e \in Seq(Bytes) /\ Len(u \o e) = Len(u) + Len(e)
  BY <1>3, <1>4, ConcatProperties
<1>7. Len(l) \in Nat
  BY <1>2
<1>8. ASSUME NEW p \in Nat, Stands(p, Param(q))
      PROVE  Stands(p, l) /\ Stands(p + Len(l), q) /\ Stands(p + Len(l) + Len(q), e)
  <2>1. Stands(p, u) /\ Stands(p + Len(u), e)
    BY <1>3, <1>4, <1>5, <1>8, StandsSplit
  <2>2. Stands(p, l) /\ Stands(p + Len(l), q)
    BY <1>2, <2>1, StandsSplit DEF u
  <2>3. p + Len(u) = p + Len(l) + Len(q)
    BY <1>1, <1>4, <1>7
  <2> QED
    BY <2>1, <2>2, <2>3
<1>9. Len(Param(q)) = Len(l) + Len(q) + 2
  BY <1>1, <1>3, <1>4, <1>5, <1>6, <1>7
<1> QED
  BY <1>5, <1>6, <1>7, <1>8, <1>9 DEF l, e

(* A request is its first line and the parameters, one behind the other.     *)
LEMMA EncodeParts ==
    ASSUME NEW r \in Seq(Seq(Bytes))
    PROVE  /\ Encode(r) \in Seq(Bytes)
           /\ Line("*", Len(r)) \in Seq(Bytes)
           /\ \E f \in [0 .. Len(r) -> Seq(Bytes)] :
                /\ f[0] = <<>> /\ Encode(r) = Line("*", Len(r)) \o f[Len(r)]
                /\ \A i \in 1 .. Len(r) : f[i] = f[i - 1] \o Param(r[i])
<1> DEFINE n == Len(r)
           parts == [i \in DOMAIN r |-> Param(r[i])]
           l == Line("*", n)
           T == Seq(Bytes)
<1>1. n \in Nat /\ DOMAIN r = 1 .. n /\ \A i \in 1 .. n : r[i] \in Seq(Bytes)
  OBVIOUS
<1>2. \A i \in 1 .. n : Param(r[i]) \in T
  BY <1>1, ParamBytes
<1>3. parts \in Seq(T) /\ Len(parts) = n /\ \A i \in 1 .. n : parts[i] = Param(r[i])
  <2> HIDE DEF n, T
  <2> QED
    BY <1>1, <1>2
<1> HIDE DEF parts
<1>4. PICK f \in [0 .. n -> T] :
         /\ f[0] = <<>> /\ FlattenSeq(parts) = f[n]
         /\ \A i \in 1 .. n : f[i] = f[i - 1] \o parts[i]
  <2>1. \E f \in [0 .. Len(parts) -> Seq(Bytes)] :
          /\ f[0] = <<>> /\ FlattenSeq(parts) = f[Len(parts)]
          /\ \A i \in 1 .. Len(parts) : f[i] = f[i - 1] \o parts[i]
    BY <1>3, Flattened
  <2> QED
    BY <1>3, <2>1
<1>5. Encode(r) = l \o f[n]
  BY <1>4 DEF Encode, Param, parts
<1>6. l \in Seq(Bytes)
  <2>1. "*" \in Bytes
    BY InputsAssumption
  <2> QED
    BY <1>1, <2>1, LineParts
<1> HIDE DEF l, n
<1>7. f[n] \in Seq(Bytes)
  BY <1>1, <1>4
<1>8. l \o f[n] \in Seq(Bytes)
  BY <1>6, <1>7, ConcatProperties
<1>9. \A i \in 1 .. n : f[i] = f[i - 1] \o Param(r[i])
  BY <1>3, <1>4
<1> QED
  BY <1>4, <1>5, <1>6, <1>8, <1>9 DEF l, n

(* pos[i] bytes go before the parameters behind the i-th: there they stand.  *)
Marked(pos) ==
    LET r == input.request IN
    /\ pos \in [0 .. Len(r) -> Nat]
    /\ pos[0] = Len(Line("*", Len(r)))
    /\ pos[Len(r)] = Len(Encode(r))
    /\ \A i \in 0 .. Len(r) : pos[i] <= Len(Encode(r))
    /\ \A i \in 1 .. Len(r) : /\ pos[i] = pos[i - 1] + Len(Param(r[i]))
                              /\ Stands(pos[i - 1], Param(r[i]))

LEMMA RequestMarked ==
    ASSUME input \in Inputs, Stands(0, Encode(input.request))
    PROVE  /\ Stands(0, Line("*", Len(input.request)))
           /\ \E pos : Marked(pos)
<1> DEFINE r == input.request
           n == Len(r)
           parts == [i \in DOMAIN r |-> Param(r[i])]
           l == Line("*", n)
           T == Seq(Bytes)
<1>1. r \in Seq(Seq(Bytes)) /\ n \in Nat /\ DOMAIN r = 1 .. n /\ \A i \in 1 .. n : r[i] \in Seq(Bytes)
  BY InputsAssumption
<1>2. \A i \in 1 .. n : Param(r[i]) \in T
  BY <1>1, ParamBytes
<1>3. \A i \in 1 .. n : parts[i] = Param(r[i])
  BY <1>1
<1> HIDE DEF parts
<1>4. PICK f \in [0 .. n -> T] :
         /\ f[0] = <<>> /\ Encode(r) = l \o f[n]
         /\ \A i \in 1 .. n : f[i] = f[i - 1] \o Param(r[i])
  <2> HIDE DEF r
  <2> QED
    BY <1>1, EncodeParts
<1>5. Encode(r) = l \o f[n]
  BY <1>4
<1>6. l \in Seq(Bytes) /\ Len(l) \in Nat
  <2>1. l \in Seq(Bytes)
    <3> HIDE DEF r
    <3> QED
      BY <1>1, EncodeParts
  <2> HIDE DEF l
  <2> QED
    BY <2>1
<1> HIDE DEF l, n, T
<1>7. \A i \in 0 .. n : f[i] \in Seq(Bytes) /\ Len(f[i]) \in Nat
  <2>1. \A i \in 0 .. n : f[i] \in Seq(Bytes)
    BY <1>4 DEF T
  <2> QED
    BY <2>1
<1>8. \A i \in 1 .. n : /\ i \in 0 .. n /\ i - 1 \in 0 .. n
                        /\ f[i] = f[i - 1] \o parts[i] /\ parts[i] \in Seq(Bytes)
                        /\ parts[i] = Param(r[i])
                        /\ Len(f[i]) = Len(f[i - 1]) + Len(parts[i])
                        /\ Len(parts[i]) \in Nat
  <2> SUFFICES ASSUME NEW i \in 1 .. n
               PROVE  /\ i \in 0 .. n /\ i - 1 \in 0 .. n
                      /\ f[i] = f[i - 1] \o parts[i] /\ parts[i] \in Seq(Bytes)
                      /\ parts[i] = Param(r[i])
                      /\ Len(f[i]) = Len(f[i - 1]) + Len(parts[i])
                      /\ Len(parts[i]) \in Nat
    OBVIOUS
  <2>1. i \in 0 .. n /\ i - 1 \in 0 .. n
    BY <1>1
  <2>2. parts[i] = Param(r[i]) /\ parts[i] \in Seq(Bytes)
    BY <1>2, <1>3 DEF T
  <2>3. f[i - 1] \in Seq(Bytes)
    BY <1>7, <2>1
  <2>4. f[i] = f[i - 1] \o parts[i]
    BY <1>4, <2>2
  <2>5. Len(f[i - 1] \o parts[i]) = Len(f[i - 1]) + Len(parts[i])
    BY <2>2, <2>3, ConcatProperties
  <2>6. Len(parts[i]) \in Nat
    BY <2>2
  <2> QED
    BY <2>1, <2>2, <2>4, <2>5, <2>6
<1>9. n \in 0 .. n /\ 0 \in 0 .. n
  BY <1>1
<1>10. Encode(r) \in Seq(Bytes) /\ Len(Encode(r)) = Len(l) + Len(f[n])
  BY <1>5, <1>6, <1>7, <1>9, ConcatProperties
<1>11. Stands(0, l) /\ Stands(Len(l), f[n])
  <2>1. Stands(0, l \o f[n])
    BY <1>5
  <2>2. Stands(0, l) /\ Stands(0 + Len(l), f[n])
    BY <1>6, <1>7, <1>9, <2>1, StandsSplit
  <2> QED
    BY <1>6, <2>2
(* The parts stand, from the last to the first.                              *)
<1>12. \A i \in 0 .. n : Stands(Len(l), f[i]) /\ Len(f[i]) <= Len(f[n])
  <2> DEFINE S == {k \in 0 .. n : Stands(Len(l), f[n - k]) /\ Len(f[n - k]) <= Len(f[n])}
  <2>1. 0 \in S
    <3>1. n - 0 = n
      BY <1>1
    <3> QED
      BY <1>7, <1>9, <1>11, <3>1
  <2>2. ASSUME NEW k \in 1 .. n, k - 1 \in S
        PROVE  k \in S
    <3> DEFINE i == n - (k - 1)
    <3>1. i \in 1 .. n /\ i - 1 = n - k /\ k \in 0 .. n
      BY <1>1
    <3>2. Stands(Len(l), f[i]) /\ Len(f[i]) <= Len(f[n])
      BY <2>2
    <3> HIDE DEF i
    <3>3. f[i] = f[i - 1] \o parts[i] /\ f[i - 1] \in Seq(Bytes) /\ parts[i] \in Seq(Bytes)
      BY <1>7, <1>8, <3>1
    <3>4. Stands(Len(l), f[i - 1])
      BY <1>6, <3>2, <3>3, StandsSplit
    <3>5. Len(f[i - 1]) <= Len(f[n])
      <4>1. /\ Len(f[i]) = Len(f[i - 1]) + Len(parts[i]) /\ Len(parts[i]) \in Nat
            /\ Len(f[i - 1]) \in Nat /\ Len(f[n]) \in Nat
        BY <1>7, <1>8, <1>9, <3>1
      <4>2. \A a, b, c \in Nat : a + b <= c => a <= c
        OBVIOUS
      <4>3. Len(f[i - 1]) + Len(parts[i]) <= Len(f[n])
        BY <3>2, <4>1
      <4> QED
        BY <4>1, <4>2, <4>3
    <3> QED
      BY <3>1, <3>4, <3>5
  <2> HIDE DEF S
  <2>3. \A k \in 0 .. n : k \in S
    BY <1>1, <2>1, <2>2, IndicesReached
  <2> SUFFICES ASSUME NEW i \in 0 .. n
               PROVE  Stands(Len(l), f[i]) /\ Len(f[i]) <= Len(f[n])
    OBVIOUS
  <2>4. n - i \in 0 .. n /\ n - (n - i) = i
    BY <1>1
  <2>5. n - i \in S
    BY <2>3, <2>4
  <2> QED
    BY <2>4, <2>5 DEF S
<1> DEFINE pos == [i \in 0 .. n |-> Len(l) + Len(f[i])]
<1>13. /\ pos \in [0 .. n -> Nat]
       /\ \A i \in 0 .. n : pos[i] = Len(l) + Len(f[i])
  BY <1>6, <1>7
<1> HIDE DEF pos
<1>14. pos[0] = Len(l) /\ pos[n] = Len(Encode(r))
  <2>1. Len(f[0]) = 0
    BY <1>4
  <2>2. pos[0] = Len(l) + Len(f[0]) /\ pos[n] = Len(l) + Len(f[n])
    BY <1>9, <1>13
  <2> HIDE DEF r
  <2>3. Len(l) + 0 = Len(l)
    BY <1>6
  <2> QED
    BY <1>10, <2>1, <2>2, <2>3
<1>15. \A i \in 0 .. n : pos[i] <= Len(Encode(r))
  BY <1>6, <1>7, <1>9, <1>10, <1>12, <1>13
<1>16. ASSUME NEW i \in 1 .. n
       PROVE  pos[i] = pos[i - 1] + Len(Param(r[i])) /\ Stands(pos[i - 1], Param(r[i]))
  <2>1. /\ i \in 0 .. n /\ i - 1 \in 0 .. n /\ parts[i] = Param(r[i])
        /\ Len(f[i]) = Len(f[i - 1]) + Len(parts[i])
        /\ f[i] = f[i - 1] \o parts[i] /\ parts[i] \in Seq(Bytes)
    BY <1>8
  <2>2. f[i - 1] \in Seq(Bytes) /\ Stands(Len(l), f[i - 1] \o parts[i])
    BY <1>7, <1>12, <2>1
  <2>3. Stands(Len(l) + Len(f[i - 1]), parts[i])
    BY <1>6, <2>1, <2>2, StandsSplit
  <2>4. Len(f[i - 1]) \in Nat /\ Len(parts[i]) \in Nat
    BY <1>7, <1>8, <2>1
  <2>5. pos[i - 1] = Len(l) + Len(f[i - 1]) /\ pos[i] = Len(l) + Len(f[i])
    BY <1>13, <2>1
  <2>6. \A a, b, c \in Nat : a + (b + c) = (a + b) + c
    OBVIOUS
  <2>7. Len(l) + Len(f[i]) = (Len(l) + Len(f[i - 1])) + Len(parts[i])
    BY <1>6, <2>1, <2>4, <2>6
  <2> QED
    BY <2>1, <2>3, <2>5, <2>7
<1>17. Marked(pos)
  BY <1>13, <1>14, <1>15, <1>16 DEF Marked, l, n
<1> QED
  BY <1>10, <1>11, <1>17 DEF l, n

(* What the next parameter of a marked request is made of.                   *)
LEMMA MarkedNext ==
    ASSUME input \in Inputs, NEW pos, Marked(pos), NEW k \in 0 .. Len(input.request)
    PROVE  /\ pos[k] \in Nat /\ pos[k] <= Len(Encode(input.request))
           /\ k < Len(input.request) =>
                LET q == input.request[k + 1]
                    h == pos[k] + Len(Line("$", Len(q)))
                IN  /\ q \in Seq(Bytes) /\ Len(q) \in Nat /\ h \in Nat
                    /\ pos[k + 1] = h + Len(q) + 2
                    /\ pos[k + 1] \in Nat /\ pos[k + 1] <= Len(Encode(input.request))
                    /\ Stands(pos[k], Line("$", Len(q)))
                    /\ Stands(h, q)
                    /\ Stands(h + Len(q), <<CR, LF>>)
<1> DEFINE r == input.request
           n == Len(r)
           E == Len(Encode(r))
<1>1. r \in Seq(Seq(Bytes)) /\ n \in Nat /\ \A i \in 1 .. n : r[i] \in Seq(Bytes)
  BY InputsAssumption
<1>2. /\ pos \in [0 .. n -> Nat]
      /\ \A i \in 0 .. n : pos[i] <= E
      /\ \A i \in 1 .. n : pos[i] = pos[i - 1] + Len(Param(r[i])) /\ Stands(pos[i - 1], Param(r[i]))
  BY DEF Marked
<1> HIDE DEF r, E, n
<1>3. pos[k] \in Nat /\ pos[k] <= E
  BY <1>2 DEF r, n
<1>4. ASSUME k < n
      PROVE  LET q == r[k + 1]
                 h == pos[k] + Len(Line("$", Len(q)))
             IN  /\ q \in Seq(Bytes) /\ Len(q) \in Nat /\ h \in Nat
                 /\ pos[k + 1] = h + Len(q) + 2
                 /\ pos[k + 1] \in Nat /\ pos[k + 1] <= E
                 /\ Stands(pos[k], Line("$", Len(q)))
                 /\ Stands(h, q)
                 /\ Stands(h + Len(q), <<CR, LF>>)
  <2> DEFINE q == r[k + 1]
             l == Len(Line("$", Len(q)))
             p == pos[k]
  <2>1. k + 1 \in 1 .. n /\ k + 1 \in 0 .. n /\ (k + 1) - 1 = k
    BY <1>1, <1>4 DEF n, r
  <2>2. q \in Seq(Bytes)
    BY <1>1, <2>1
  <2>3. pos[k + 1] = p + Len(Param(q)) /\ Stands(p, Param(q)) /\ pos[k + 1] <= E
    BY <1>2, <2>1
  <2>4. pos[k + 1] \in Nat /\ p \in Nat
    BY <1>2, <1>3, <2>1
  <2> HIDE DEF q, p
  <2>5. l \in Nat /\ Len(Param(q)) = l + Len(q) + 2 /\ Len(q) \in Nat
    BY <2>2, ParamBytes
  <2>6. /\ Stands(p, Line("$", Len(q))) /\ Stands(p + l, q)
        /\ Stands((p + l) + Len(q), <<CR, LF>>)
    BY <2>2, <2>3, <2>4, ParamBytes
  <2> HIDE DEF l
  <2>7. p + l \in Nat /\ pos[k + 1] = (p + l) + Len(q) + 2
    BY <2>3, <2>4, <2>5
  <2> QED
    BY <2>2, <2>3, <2>4, <2>5, <2>6, <2>7 DEF q, l, p
<1> QED
  BY <1>3, <1>4 DEF r, E, n

-----------------------------------------------------------------------------
(* What has been read                                                       *)

ParamsRead ==
    /\ m_nNumOfParam \in 0 .. Len(input.request)
    /\ \A i \in 1 .. m_nNumOfParam : m_vecParams[i] = input.request[i]
    /\ \A i \in m_nNumOfParam + 1 .. Len(m_vecParams) : m_vecParams[i] = <<>>

(* The parser is where the request says.                                    *)
InStep(pos) ==
    LET r == input.request
        n == m_nNumOfParam
    IN  \/ /\ pc = "parseMulti"
           /\ ptr = 1 /\ n = 0
        \/ /\ pc = "parseStrlist"
           /\ m_nMulti = Len(r)
           /\ ptr = pos[n] + 1 /\ pos[n] <= Len(buffer)
        \/ /\ pc = "parseStrlen"
           /\ m_nMulti = Len(r) /\ n < Len(r)
           /\ ptr = pos[n] + 1 /\ pos[n] <= Len(buffer)
        \/ /\ pc = "parseStrval"
           /\ m_nMulti = Len(r) /\ n < Len(r)
           /\ m_nParamLen = Len(r[n + 1])
           /\ ptr = pos[n] + Len(Line("$", Len(r[n + 1]))) + 1
           /\ ptr - 1 <= Len(buffer)

(* It took a number that is cut for a whole one.                            *)
Beyond ==
    /\ pc \in {"parseStrlist", "parseStrlen", "parseStrval"}
    /\ pc = "parseStrlist" => m_nNumOfParam < m_nMulti
    /\ ptr = Len(buffer) + 3
    /\ Len(buffer) < Len(Encode(input.request))

Answered ==
    LET r == input.request IN
    /\ pc = "done"
    /\ \/ result = "wait" /\ Len(buffer) < Len(Encode(r))
       \/ /\ result = "ok" /\ Len(Encode(r)) <= Len(buffer)
          /\ m_nNumOfParam = Len(r) /\ Len(m_vecParams) = Len(r)
          /\ ptr = Len(Encode(r)) + 1

Reading(pos) == ParamsRead /\ (InStep(pos) \/ Beyond \/ Answered)

LEMMA ReadMulti ==
    ASSUME Typed, NEW pos, Marked(pos), Stands(0, Line("*", Len(input.request))),
           Reading(pos), parseMulti
    PROVE  Reading(pos)'
<1> DEFINE n == Len(input.request)
           t == Tagged("*")
           E == Len(Encode(input.request))
           q == Len(Line("*", n))
           L == Len(buffer)
<1>1. input \in Inputs /\ n \in Nat /\ L \in Nat /\ "*" \in Bytes
  BY InputsAssumption, BufferBytes DEF Typed
<1>2. ptr = 1 /\ m_nNumOfParam = 0
  BY DEF Reading, InStep, Beyond, Answered, parseMulti
<1>3. \/ q <= L /\ t.ret = "ok" /\ t.val = n /\ t.next = q + 1
      \/ q > L /\ t.ret = "wait"
      \/ q > L /\ t.ret = "ok" /\ t.val \in Nat /\ t.val >= 1 /\ t.next = L + 3
  <2>1. 0 <= Len(buffer) /\ ptr = 0 + 1 /\ 0 \in Nat
    BY <1>1, <1>2
  <2>2. LET u == 0 + q
        IN  \/ u <= L /\ t.ret = "ok" /\ t.val = n /\ t.next = u + 1
            \/ u > L /\ t.ret = "wait"
            \/ u > L /\ t.ret = "ok" /\ t.val \in Nat /\ t.val >= 1 /\ t.next = L + 3
    BY <1>1, <2>1, LineRead
  <2>3. q \in Nat
    BY <1>1, LineParts
  <2> HIDE DEF q, t, L, n
  <2> QED
    BY <2>2, <2>3
<1>4. q = pos[0] /\ q <= E /\ q \in Nat /\ 0 \in 0 .. n
  BY <1>1, MarkedNext DEF Marked
<1>5. E \in Nat
  BY <1>4 DEF Marked
<1>6. input' = input /\ m_nNumOfParam' = m_nNumOfParam /\ m_vecParams' = m_vecParams
  BY DEF parseMulti
<1>7. ParamsRead'
  BY <1>6 DEF Reading, ParamsRead
<1>8. CASE t.ret = "wait"
  <2>1. pc' = "done" /\ result' = "wait"
    BY <1>8 DEF parseMulti, Stop
  <2>2. L < E
    BY <1>1, <1>3, <1>4, <1>5, <1>8
  <2> QED
    BY <1>6, <1>7, <2>1, <2>2 DEF Reading, Answered, buffer
<1>9. CASE t.ret = "ok"
  <2>1. ptr' = t.next /\ m_nMulti' = t.val
    BY <1>9 DEF parseMulti
  <2>2. ~ (t.val < -1)
    BY <1>1, <1>3, <1>9
  <2>3. pc' = "parseStrlist"
    BY <1>9, <2>2 DEF parseMulti, Continue
  <2> HIDE DEF t
  <2>4. CASE q <= L
    <3>1. t.val = n /\ t.next = q + 1
      BY <1>1, <1>3, <1>4, <1>9, <2>4
    <3>2. InStep(pos)'
      BY <1>2, <1>4, <1>6, <2>1, <2>3, <2>4, <3>1 DEF InStep, buffer
    <3> QED
      BY <1>7, <3>2 DEF Reading
  <2>5. CASE ~ (q <= L)
    <3>1. t.val \in Nat /\ t.val >= 1 /\ t.next = L + 3
      BY <1>3, <1>9, <2>5
    <3>2. L < E
      BY <1>1, <1>4, <1>5, <2>5
    <3>3. 0 < t.val
      BY <3>1
    <3>4. Beyond'
      BY <1>2, <1>6, <2>1, <2>3, <3>1, <3>2, <3>3 DEF Beyond, buffer
    <3> QED
      BY <1>7, <3>4 DEF Reading
  <2> QED
    BY <2>4, <2>5
<1> QED
  BY <1>3, <1>8, <1>9

LEMMA ReadStrlist ==
    ASSUME Typed, NEW pos, Marked(pos), Reading(pos), parseStrlist
    PROVE  Reading(pos)'
<1> DEFINE r == input.request
           n == Len(r)
           k == m_nNumOfParam
           v == m_vecParams
<1>1. /\ input \in Inputs /\ n \in Nat /\ k \in 0 .. n
      /\ v \in Seq(Seq(Bytes)) /\ Len(v) \in Nat /\ k <= Len(v) /\ Len(v) <= k + 1
  BY InputsAssumption DEF Typed, TypeOK, Reading, ParamsRead
<1>2. /\ \A i \in 1 .. k : v[i] = r[i]
      /\ \A i \in k + 1 .. Len(v) : v[i] = <<>>
  BY DEF Reading, ParamsRead
<1>3. /\ input' = input /\ ptr' = ptr /\ m_nMulti' = m_nMulti /\ m_nParamLen' = m_nParamLen
      /\ m_nNumOfParam' = k
  BY DEF parseStrlist
<1>4. (InStep(pos) \/ Beyond) /\ pc = "parseStrlist"
  BY DEF Reading, Answered, parseStrlist
<1>5. CASE k < m_nMulti
  <2>1. /\ v' = IF Len(v) < k + 1 THEN Append(v, <<>>) ELSE v
        /\ pc' = "parseStrlen"
    BY <1>5 DEF parseStrlist, Continue
  <2>2. <<>> \in Seq(Bytes)
    OBVIOUS
  <2>3. /\ \A i \in 1 .. k : v'[i] = v[i]
        /\ \A i \in k + 1 .. Len(v') : v'[i] = <<>>
    BY <1>1, <1>2, <2>1, <2>2
  <2>4. ParamsRead'
    BY <1>1, <1>2, <1>3, <2>3 DEF ParamsRead
  <2>5. InStep(pos)' \/ Beyond'
    BY <1>3, <1>4, <1>5, <2>1 DEF InStep, Beyond, buffer
  <2> QED
    BY <2>4, <2>5 DEF Reading
<1>6. CASE ~ (k < m_nMulti)
  <2>1. v' = SubSeq(v, 1, k) /\ pc' = "done" /\ result' = "ok"
    BY <1>6 DEF parseStrlist, Stop
  <2>2. InStep(pos)
    BY <1>4, <1>6 DEF Beyond
  <2>3. m_nMulti = n /\ ptr = pos[k] + 1 /\ pos[k] <= Len(buffer)
    BY <1>4, <2>2 DEF InStep
  <2>4. k = n
    BY <1>1, <1>6, <2>3
  <2>5. Len(v') = k /\ \A i \in 1 .. k : v'[i] = v[i]
    BY <1>1, <2>1
  <2>6. ParamsRead'
    <3>1. \A i \in 1 .. k : v'[i] = r[i]
      BY <1>2, <2>5
    <3>2. \A i \in k + 1 .. Len(v') : v'[i] = <<>>
      BY <1>1, <2>5
    <3> HIDE DEF k, v
    <3> QED
      BY <1>1, <1>3, <3>1, <3>2 DEF ParamsRead, k, v
  <2>7. pos[n] = Len(Encode(r))
    BY DEF Marked
  <2>8. Answered'
    BY <1>3, <2>1, <2>3, <2>4, <2>5, <2>7 DEF Answered, buffer
  <2> QED
    BY <2>6, <2>8 DEF Reading
<1> QED
  BY <1>5, <1>6

LEMMA ReadStrlen ==
    ASSUME Typed, NEW pos, Marked(pos), Reading(pos), parseStrlen
    PROVE  Reading(pos)'
<1> DEFINE r == input.request
           n == Len(r)
           k == m_nNumOfParam
           L == Len(buffer)
           E == Len(Encode(r))
           t == Tagged("$")
<1>1. input \in Inputs /\ n \in Nat /\ k \in 0 .. n /\ L \in Nat /\ end = L + 1 /\ "$" \in Bytes
  BY InputsAssumption, BufferBytes DEF Typed, Reading, ParamsRead
<1>2. input' = input /\ m_nMulti' = m_nMulti /\ m_vecParams' = m_vecParams
  BY DEF parseStrlen
<1>3. (InStep(pos) \/ Beyond) /\ pc = "parseStrlen"
  BY DEF Reading, Answered, parseStrlen
<1>4. t.ret = "wait" /\ L < E => Reading(pos)'
  <2> SUFFICES ASSUME t.ret = "wait", L < E PROVE Reading(pos)'
    OBVIOUS
  <2>1. pc' = "done" /\ result' = "wait" /\ m_nNumOfParam' = k
    BY DEF parseStrlen, Stop
  <2>2. ParamsRead'
    BY <1>2, <2>1 DEF Reading, ParamsRead
  <2>3. Answered'
    BY <1>2, <2>1 DEF Answered, buffer
  <2> QED
    BY <2>2, <2>3 DEF Reading
<1>5. CASE Beyond
  <2>1. Left(ptr) < 3
    BY <1>1, <1>5 DEF Beyond, Left
  <2>2. t = Nothing("wait", ptr)
    BY <2>1 DEF Tagged
  <2>3. t.ret = "wait" /\ L < E
    BY <1>5, <2>2 DEF Beyond, Nothing
  <2> QED
    BY <1>4, <2>3
<1>6. CASE InStep(pos)
  <2> DEFINE p == pos[k]
             s == r[k + 1]
             q == p + Len(Line("$", Len(s)))
  <2>1. m_nMulti = n /\ k < n /\ ptr = p + 1 /\ p <= L
    BY <1>3, <1>6 DEF InStep
  <2>2. /\ p \in Nat /\ Len(s) \in Nat /\ q \in Nat
        /\ pos[k + 1] = q + Len(s) + 2 /\ pos[k + 1] <= E /\ pos[k + 1] \in Nat
        /\ Stands(p, Line("$", Len(s)))
    BY <1>1, <2>1, MarkedNext
  <2>3. \/ q <= L /\ t.ret = "ok" /\ t.val = Len(s) /\ t.next = q + 1
        \/ q > L /\ t.ret = "wait"
        \/ q > L /\ t.ret = "ok" /\ t.val \in Nat /\ t.val >= 1 /\ t.next = L + 3
    <3> HIDE DEF p, s
    <3> QED
      BY <1>1, <2>1, <2>2, LineRead
  <2>4. E \in Nat
    BY DEF Marked
  <2>5. q > L => L < E
    <3> HIDE DEF q, s, E, L, k
    <3> QED
      BY <1>1, <2>2, <2>4
  <2>6. CASE t.ret = "wait"
    BY <1>4, <2>3, <2>5, <2>6
  <2>7. CASE t.ret = "ok"
    <3>1. ptr' = t.next /\ m_nParamLen' = t.val
      BY <2>7 DEF parseStrlen
    <3>2. ~ (t.val < -1) /\ t.val # -1
      <4> HIDE DEF t, q, s
      <4> QED
        BY <2>2, <2>3, <2>7
    <3>3. pc' = "parseStrval" /\ m_nNumOfParam' = k
      BY <2>7, <3>2 DEF parseStrlen, Continue
    <3>4. ParamsRead'
      BY <1>2, <3>3 DEF Reading, ParamsRead
    <3>5. CASE q <= L
      <4>1. t.val = Len(s) /\ t.next = q + 1
        <5> HIDE DEF t, q, s, L
        <5> QED
          BY <1>1, <2>2, <2>3, <2>7, <3>5
      <4>2. (q + 1) - 1 = q
        BY <2>2
      <4>3. InStep(pos)'
        BY <1>2, <2>1, <3>1, <3>3, <3>5, <4>1, <4>2 DEF InStep, buffer
      <4> QED
        BY <3>4, <4>3 DEF Reading
    <3>6. CASE ~ (q <= L)
      <4>1. t.next = L + 3 /\ L < E
        <5> HIDE DEF t, q, s, L, E
        <5> QED
          BY <1>1, <2>2, <2>3, <2>5, <2>7, <3>6
      <4>2. Beyond'
        BY <1>2, <3>1, <3>3, <4>1 DEF Beyond, buffer
      <4> QED
        BY <3>4, <4>2 DEF Reading
    <3> QED
      BY <3>5, <3>6
  <2> QED
    BY <2>3, <2>6, <2>7
<1> QED
  BY <1>3, <1>5, <1>6

LEMMA ReadStrval ==
    ASSUME Typed, NEW pos, Marked(pos), Reading(pos), parseStrval
    PROVE  Reading(pos)'
<1> DEFINE r == input.request
           n == Len(r)
           k == m_nNumOfParam
           v == m_vecParams
           L == Len(buffer)
           E == Len(Encode(r))
           tail == ptr + m_nParamLen
<1>1. /\ input \in Inputs /\ n \in Nat /\ k \in 0 .. n /\ L \in Nat /\ end = L + 1
      /\ v \in Seq(Seq(Bytes)) /\ Len(v) = k + 1 /\ m_nParamLen \in Nat
  BY InputsAssumption, BufferBytes DEF Typed, Reading, ParamsRead, parseStrval
<1>2. input' = input /\ m_nMulti' = m_nMulti
  BY DEF parseStrval
<1>3. (InStep(pos) \/ Beyond) /\ pc = "parseStrval"
  BY DEF Reading, Answered, parseStrval
<1>4. Left(ptr) < m_nParamLen + 2 /\ L < E => Reading(pos)'
  <2> SUFFICES ASSUME Left(ptr) < m_nParamLen + 2, L < E PROVE Reading(pos)'
    OBVIOUS
  <2>1. Left(ptr) \in Int
    BY <1>1 DEF Left, Typed, TypeOK
  <2>2. ~ (Left(ptr) >= m_nParamLen + 2)
    BY <1>1, <2>1
  <2>3. pc' = "done" /\ result' = "wait" /\ m_nNumOfParam' = k /\ v' = v
    BY <2>2 DEF parseStrval, Stop
  <2>4. ParamsRead'
    BY <1>2, <2>3 DEF Reading, ParamsRead
  <2>5. Answered'
    BY <1>2, <2>3 DEF Answered, buffer
  <2> QED
    BY <2>4, <2>5 DEF Reading
<1>5. CASE Beyond
  <2>1. Left(ptr) < m_nParamLen + 2 /\ L < E
    BY <1>1, <1>5 DEF Beyond, Left
  <2> QED
    BY <1>4, <2>1
<1>6. CASE InStep(pos)
  <2> DEFINE s == r[k + 1]
             h == pos[k] + Len(Line("$", Len(s)))
  <2>1. m_nMulti = n /\ k < n /\ m_nParamLen = Len(s) /\ ptr = h + 1 /\ h <= L
    <3>1. m_nMulti = n /\ k < n /\ m_nParamLen = Len(s) /\ ptr = h + 1 /\ ptr - 1 <= L
      BY <1>3, <1>6 DEF InStep
    <3>2. h \in Nat
      BY <1>1, <3>1, MarkedNext
    <3> HIDE DEF h, s
    <3> QED
      BY <3>1, <3>2
  <2>2. /\ s \in Seq(Bytes) /\ Len(s) \in Nat /\ h \in Nat
        /\ pos[k + 1] = h + Len(s) + 2 /\ pos[k + 1] <= E /\ pos[k + 1] \in Nat
        /\ Stands(h, s) /\ Stands(h + Len(s), <<CR, LF>>)
    BY <1>1, <2>1, MarkedNext
  <2>3. E \in Nat
    BY DEF Marked
  <2> HIDE DEF h, s, E
  <2>4. CASE Left(ptr) < m_nParamLen + 2
    <3>1. L < pos[k + 1]
      <4>1. Left(ptr) = L + 1 - (h + 1)
        BY <1>1, <2>1 DEF Left
      <4> QED
        BY <1>1, <2>1, <2>2, <2>4, <4>1
    <3>2. L < E
      BY <1>1, <2>2, <2>3, <3>1
    <3> QED
      BY <1>4, <2>4, <3>2
  <2>5. CASE ~ (Left(ptr) < m_nParamLen + 2)
    <3>1. h + Len(s) + 2 <= L /\ Left(ptr) >= m_nParamLen + 2
      <4>1. Left(ptr) = L + 1 - (h + 1)
        BY <1>1, <2>1 DEF Left
      <4> QED
        BY <1>1, <2>1, <2>2, <2>5, <4>1
    <3>2. tail = h + Len(s) + 1
      BY <2>1, <2>2
    <3>3. buffer[tail] = CR /\ buffer[tail + 1] = LF
      <4> DEFINE e == <<CR, LF>>
                 g == h + Len(s)
      <4>1. Len(e) = 2 /\ e[1] = CR /\ e[2] = LF
        OBVIOUS
      <4>2. g + 1 = tail /\ g + 2 = tail + 1 /\ g + 2 <= L /\ g \in Nat
        BY <2>2, <3>1, <3>2
      <4> HIDE DEF e, g, tail
      <4>3. \A j \in 1 .. Len(e) : g + j <= L => buffer[g + j] = e[j]
        BY <2>2 DEF Stands, e, g
      <4>4. buffer[g + 1] = e[1] /\ buffer[g + 2] = e[2]
        BY <1>1, <4>1, <4>2, <4>3
      <4> QED
        BY <4>1, <4>2, <4>4
    <3> DEFINE w == SubSeq(buffer, ptr, tail - 1)
    <3>4. w = s
      <4>1. \A j \in 1 .. Len(s) : h + j \in 1 .. end - 1 /\ h + j <= L
        BY <1>1, <2>2, <3>1
      <4>2. \A j \in 1 .. Len(s) : buffer[h + j] = s[j]
        BY <2>2, <4>1 DEF Stands
      <4>3. \A i \in h + 1 .. h + Len(s) : buffer[i] \in Bytes
        <5>1. \A i \in h + 1 .. h + Len(s) : i \in 1 .. end - 1
          BY <1>1, <2>2, <3>1
        <5> QED
          BY <1>1, <5>1, BufferBytes
      <4>4. h + 1 \in Int /\ h + Len(s) \in Int
        BY <2>2
      <4>5. w = SubSeq(buffer, h + 1, h + Len(s))
        <5>1. ptr = h + 1 /\ tail - 1 = h + Len(s)
          BY <2>1, <2>2, <3>2
        <5> QED
          BY <5>1
      <4>6. /\ w \in Seq(Bytes)
            /\ Len(w) = IF h + 1 <= h + Len(s) THEN (h + Len(s)) - (h + 1) + 1 ELSE 0
            /\ \A i \in 1 .. (h + Len(s)) - (h + 1) + 1 : w[i] = buffer[(h + 1) + i - 1]
        <5> DEFINE a == h + 1
                   b == h + Len(s)
        <5>1. a \in Int /\ b \in Int /\ (\A i \in a .. b : buffer[i] \in Bytes) /\ w = SubSeq(buffer, a, b)
          BY <4>3, <4>4, <4>5
        <5> HIDE DEF a, b, w
        <5>2. /\ w \in Seq(Bytes)
              /\ Len(w) = IF a <= b THEN b - a + 1 ELSE 0
              /\ \A i \in 1 .. b - a + 1 : w[i] = buffer[a + i - 1]
          BY <5>1, SubSeqProperties
        <5> QED
          BY <5>2 DEF a, b
      <4> HIDE DEF w
      <4>7. Len(w) = Len(s) /\ (h + Len(s)) - (h + 1) + 1 = Len(s)
        BY <2>2, <4>6
      <4>8. \A i \in 1 .. Len(w) : w[i] = s[i]
        <5>1. \A i \in 1 .. Len(s) : (h + 1) + i - 1 = h + i
          BY <2>2
        <5> QED
          BY <4>2, <4>6, <4>7, <5>1
      <4> QED
        BY <2>2, <4>6, <4>7, <4>8, SeqEqual
    <3>5. /\ v' = [v EXCEPT ![k + 1] = w]
          /\ ptr' = tail + 2 /\ m_nNumOfParam' = k + 1 /\ pc' = "parseStrlist"
      <4>1. Left(ptr) >= m_nParamLen + 2 /\ <<buffer[tail], buffer[tail + 1]>> = <<CR, LF>>
        BY <3>1, <3>3
      <4> QED
        BY <2>5, <4>1 DEF parseStrval, Continue
    <3> HIDE DEF w, tail
    <3>6. Len(v') = k + 1 /\ v'[k + 1] = s /\ \A i \in 1 .. k : v'[i] = v[i]
      <4>1. k + 1 \in 1 .. Len(v) /\ k \in Nat
        BY <1>1
      <4>2. \A i \in 1 .. k : i \in 1 .. Len(v) /\ i # k + 1
        BY <1>1
      <4> QED
        BY <1>1, <2>2, <3>4, <3>5, <4>1, <4>2, ReplacedElement
    <3>7. ParamsRead'
      <4>1. k + 1 \in 0 .. n
        BY <1>1, <2>1
      <4>2. \A i \in 1 .. k + 1 : v'[i] = r[i]
        <5>1. \A i \in 1 .. k : v[i] = r[i]
          BY DEF Reading, ParamsRead
        <5> QED
          BY <1>1, <3>6, <5>1 DEF s
      <4>3. \A i \in (k + 1) + 1 .. Len(v') : v'[i] = <<>>
        BY <1>1, <3>6
      <4> QED
        BY <1>2, <3>5, <4>1, <4>2, <4>3 DEF ParamsRead
    <3>8. InStep(pos)'
      <4>1. ptr' = pos[k + 1] + 1 /\ pos[k + 1] <= L
        BY <2>2, <3>1, <3>2, <3>5
      <4> QED
        BY <1>2, <2>1, <3>5, <4>1 DEF InStep, buffer
    <3> QED
      BY <3>7, <3>8 DEF Reading
  <2> QED
    BY <2>4, <2>5
<1> QED
  BY <1>3, <1>5, <1>6

-----------------------------------------------------------------------------
(* A request that has arrived as it was written, as far as it has.          *)
Written == Stands(0, Encode(input.request))

ReadSoFar == Written => \E pos : Marked(pos) /\ Reading(pos)

LEMMA ReadInit == Init => ReadSoFar
<1> SUFFICES ASSUME Init, Written PROVE \E pos : Marked(pos) /\ Reading(pos)
  BY DEF ReadSoFar
<1>1. input \in Inputs
  BY DEF Init
<1>2. PICK pos : Marked(pos)
  BY <1>1, RequestMarked DEF Written
<1>3. ParamsRead
  <2>1. Len(m_vecParams) = 0 /\ m_nNumOfParam = 0
    BY DEF Init
  <2>2. Len(input.request) \in Nat
    BY <1>1, InputsAssumption
  <2> QED
    BY <2>1, <2>2 DEF ParamsRead
<1>4. InStep(pos)
  BY DEF Init, InStep
<1> QED
  BY <1>2, <1>3, <1>4 DEF Reading

LEMMA ReadStep == Typed /\ ReadSoFar /\ [Next]_vars => ReadSoFar'
<1> SUFFICES ASSUME Typed, ReadSoFar, [Next]_vars, Written'
             PROVE  \E pos : Marked(pos)' /\ Reading(pos)'
  BY DEF ReadSoFar
<1>1. input' = input
  BY DEF Next, parseMulti, parseStrlist, parseStrlen, parseStrval, vars
<1>2. Written
  BY <1>1 DEF Written, Stands, buffer
<1>3. PICK pos : Marked(pos) /\ Reading(pos)
  BY <1>2 DEF ReadSoFar
<1>4. Marked(pos)'
  BY <1>1, <1>3 DEF Marked, Stands, buffer
<1>5. Reading(pos)'
  <2>1. CASE parseMulti
    <3>1. Stands(0, Line("*", Len(input.request)))
      BY <1>2, RequestMarked DEF Typed, Written
    <3> QED
      BY <1>3, <2>1, <3>1, ReadMulti
  <2>2. CASE parseStrlist
    BY <1>3, <2>2, ReadStrlist
  <2>3. CASE parseStrlen
    BY <1>3, <2>3, ReadStrlen
  <2>4. CASE parseStrval
    BY <1>3, <2>4, ReadStrval
  <2>5. CASE UNCHANGED vars
    BY <1>3, <2>5 DEF vars, Reading, ParamsRead, InStep, Beyond, Answered, buffer
  <2> QED
    BY <2>1, <2>2, <2>3, <2>4, <2>5 DEF Next
<1> QED
  BY <1>4, <1>5

LEMMA ReadInvariance == Spec => [](Typed /\ ReadSoFar)
<1>1. Typed /\ ReadSoFar /\ [Next]_vars => (Typed /\ ReadSoFar)'
  BY TypedStep, ReadStep
<1> QED
  BY <1>1, TypedInit, ReadInit, PTL DEF Spec

(* Agreeing with one another as far as both go.                             *)
LEMMA PrefixStands ==
    ASSUME input \in Inputs, NEW t \in Seq(Bytes), IsPrefix(t, buffer) \/ IsPrefix(buffer, t)
    PROVE  Stands(0, t)
<1> DEFINE L == Len(buffer)
           n == Len(t)
           b == buffer
<1>1. L \in Nat /\ n \in Nat /\ b \in Seq(Bytes)
  BY BufferBytes
<1>2. CASE IsPrefix(t, buffer)
  <2>1. n <= L /\ SubSeq(t, 1, n) = SubSeq(b, 1, n)
    BY <1>2 DEF IsPrefix
  <2>2. \A i \in 1 .. n : SubSeq(t, 1, n)[i] = t[i] /\ SubSeq(b, 1, n)[i] = b[i]
    BY <1>1, <2>1
  <2>3. \A i \in 1 .. n : 0 + i = i /\ t[i] = b[i]
    BY <1>1, <2>1, <2>2
  <2> QED
    BY <2>3 DEF Stands
<1>3. CASE IsPrefix(buffer, t)
  <2>1. L <= n /\ SubSeq(b, 1, L) = SubSeq(t, 1, L)
    BY <1>3 DEF IsPrefix
  <2>2. \A i \in 1 .. L : SubSeq(t, 1, L)[i] = t[i] /\ SubSeq(b, 1, L)[i] = b[i]
    BY <1>1, <2>1
  <2>3. \A i \in 1 .. n : 0 + i = i /\ (i <= L => t[i] = b[i])
    BY <1>1, <2>1, <2>2
  <2> QED
    BY <2>3 DEF Stands
<1> QED
  BY <1>2, <1>3

LEMMA Read ==
    Typed /\ ReadSoFar => WholeRequestRead /\ CutRequestWaits
<1> SUFFICES ASSUME Typed, ReadSoFar PROVE WholeRequestRead /\ CutRequestWaits
  OBVIOUS
<1> DEFINE r == input.request
           n == Len(r)
           e == Encode(r)
           v == m_vecParams
           k == m_nNumOfParam
<1>1. /\ input \in Inputs /\ r \in Seq(Seq(Bytes)) /\ n \in Nat
      /\ v \in Seq(Seq(Bytes)) /\ Len(v) \in Nat /\ k \in 0 .. Len(v)
      /\ buffer \in Seq(Bytes) /\ Len(buffer) \in Nat
  BY InputsAssumption, BufferBytes DEF Typed, TypeOK
<1>2. e \in Seq(Bytes) /\ Len(e) \in Nat
  <2>1. e \in Seq(Bytes)
    <3> HIDE DEF r
    <3> QED
      BY <1>1, EncodeParts
  <2> HIDE DEF e
  <2> QED
    BY <2>1
<1>3. ASSUME IsPrefix(e, buffer) \/ IsPrefix(buffer, e), pc = "done"
      PROVE  ParamsRead /\ Answered
  <2>1. Written
    <3> DEFINE t == e
    <3>1. t \in Seq(Bytes) /\ (IsPrefix(t, buffer) \/ IsPrefix(buffer, t))
      BY <1>2, <1>3
    <3> HIDE DEF t
    <3>2. Stands(0, t)
      BY <1>1, <3>1, PrefixStands
    <3> QED
      BY <3>2 DEF t, Written
  <2>2. PICK pos : Reading(pos)
    BY <2>1 DEF ReadSoFar
  <2> QED
    BY <1>3, <2>2 DEF Reading, InStep, Beyond
<1>4. ASSUME pc = "done", IsPrefix(e, buffer)
      PROVE  result = "ok" /\ v = r /\ ptr = Len(e) + 1
  <2>1. ParamsRead /\ Answered
    BY <1>3, <1>4
  <2>2. Len(e) <= Len(buffer)
    BY <1>4 DEF IsPrefix
  <2>3. result = "ok" /\ k = n /\ Len(v) = n /\ ptr = Len(e) + 1
    <3> HIDE DEF e
    <3>1. ~ (Len(buffer) < Len(e))
      BY <1>1, <1>2, <2>2
    <3> QED
      BY <2>1, <3>1 DEF Answered, e
  <2>4. \A i \in 1 .. Len(v) : v[i] = r[i]
    BY <2>1, <2>3 DEF ParamsRead
  <2>5. v = r
    <3> HIDE DEF v, r
    <3> DEFINE S == Seq(Bytes)
    <3>1. v \in Seq(S) /\ r \in Seq(S) /\ Len(v) = Len(r)
      BY <1>1, <2>3
    <3> HIDE DEF S
    <3> QED
      BY <2>4, <3>1, SeqEqual
  <2> QED
    BY <2>3, <2>5
<1>5. ASSUME pc = "done", IsStrictPrefix(buffer, e)
      PROVE  /\ result = "wait"
             /\ SubSeq(v, 1, k) = SubSeq(r, 1, k)
             /\ \A i \in k + 1 .. Len(v) : v[i] = <<>>
  <2>1. IsPrefix(buffer, e) /\ buffer # e
    BY <1>5 DEF IsStrictPrefix
  <2>2. ParamsRead /\ Answered
    BY <1>3, <1>5, <2>1
  <2>3. Len(buffer) < Len(e)
    <3> DEFINE t == e
               L == Len(buffer)
    <3>1. L <= Len(t) /\ SubSeq(buffer, 1, L) = SubSeq(t, 1, L)
      BY <2>1 DEF IsPrefix
    <3>2. t \in Seq(Bytes) /\ t # buffer
      BY <1>2, <2>1
    <3> HIDE DEF t
    <3>3. \A i \in 1 .. L : SubSeq(buffer, 1, L)[i] = buffer[i] /\ SubSeq(t, 1, L)[i] = t[i]
      BY <1>1, <3>1, <3>2
    <3>4. \A i \in 1 .. L : buffer[i] = t[i]
      BY <3>1, <3>3
    <3>5. Len(t) # L
      <4> SUFFICES ASSUME Len(t) = L PROVE FALSE
        OBVIOUS
      <4>1. buffer = t
        BY <1>1, <3>2, <3>4, SeqEqual
      <4> QED
        BY <3>2, <4>1
    <3>6. L < Len(t)
      BY <1>1, <3>1, <3>2, <3>5
    <3> QED
      BY <3>6 DEF t
  <2>4. result = "wait"
    <3> HIDE DEF e
    <3>1. ~ (Len(e) <= Len(buffer))
      BY <1>1, <1>2, <2>3
    <3> QED
      BY <2>2, <3>1 DEF Answered, e
  <2>5. k \in 0 .. n /\ \A i \in 1 .. k : v[i] = r[i]
    BY <2>2 DEF ParamsRead
  <2>6. SubSeq(v, 1, k) = SubSeq(r, 1, k)
    <3> DEFINE S == Seq(Bytes)
               a == SubSeq(v, 1, k)
               b == SubSeq(r, 1, k)
    <3> HIDE DEF v, r, k, n
    <3>1. /\ a \in Seq(S) /\ Len(a) = k /\ \A i \in 1 .. k : a[i] = v[i]
          /\ b \in Seq(S) /\ Len(b) = k /\ \A i \in 1 .. k : b[i] = r[i]
      BY <1>1, <2>5 DEF n
    <3>2. \A i \in 1 .. Len(a) : a[i] = b[i]
      BY <2>5, <3>1
    <3> HIDE DEF a, b, S
    <3>3. a = b
      BY <3>1, <3>2, SeqEqual
    <3> QED
      BY <3>3 DEF a, b
  <2>7. \A i \in k + 1 .. Len(v) : v[i] = <<>>
    BY <2>2 DEF ParamsRead
  <2> QED
    BY <2>4, <2>6, <2>7
<1> HIDE DEF e, v, k
<1>6. WholeRequestRead
  BY <1>4 DEF WholeRequestRead, e, v
<1>7. CutRequestWaits
  BY <1>5 DEF CutRequestWaits, e, v, k
<1> QED
  BY <1>6, <1>7

(* Whatever the parameters, and whatever follows: a request that has arrived *)
(* whole is read back as it was written, and the parser stops behind it.     *)
THEOREM RequestsReadBack == Spec => []WholeRequestRead
<1>1. Typed /\ ReadSoFar => WholeRequestRead
  BY Read
<1> QED
  BY <1>1, ReadInvariance, PTL

(* Wherever a request is cut, in a number, a parameter or a line end, the    *)
(* parser asks for more, and what it has read by then is the request's.      *)
THEOREM CutRequestsWait == Spec => []CutRequestWaits
<1>1. Typed /\ ReadSoFar => CutRequestWaits
  BY Read
<1> QED
  BY <1>1, ReadInvariance, PTL
=============================================================================
