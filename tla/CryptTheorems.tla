---------------------------- MODULE CryptTheorems ----------------------------
(***************************************************************************)
(* encrypt() and decrypt() for every size of a byte, of a block and of the *)
(* modulus, and for texts of every length: what was cyphered comes out     *)
(* again if key and vector survive as integers, a vector that does not     *)
(* spoils the first block only, and nothing is read behind the end.        *)
(*                                                                         *)
(* The functions that are computed by recursion (a power, the value of     *)
(* some bytes, the cyphered text) are reasoned about by induction, which   *)
(* here is a statement about sets of numbers.                              *)
(***************************************************************************)
EXTENDS Crypt, SequenceTheorems, WellFoundedInduction, TLAPS

-----------------------------------------------------------------------------
(* Induction *)

LEMMA NatOrdered ==
  \E R : IsWellFoundedOn(R, Nat) /\ \A x, y \in Nat : <<y, x>> \in R <=> y < x
<1> DEFINE R == OpToRel(<, Nat)
<1>1. IsWellFoundedOn(R, Nat)
  BY NatLessThanWellFounded
<1>2. \A x, y \in Nat : <<y, x>> \in R <=> y < x
  BY DEF OpToRel
<1> HIDE DEF R
<1> QED BY <1>1, <1>2

\* A set of numbers has a least one.
LEMMA Least ==
  ASSUME NEW T, T \subseteq Nat, T # {}
  PROVE  \E n \in T : \A m \in T : n <= m
<1>1. PICK R : IsWellFoundedOn(R, Nat) /\ \A x, y \in Nat : <<y, x>> \in R <=> y < x
  BY NatOrdered
<1>2. PICK n \in T : \A m \in T : ~ (<<m, n>> \in R)
  BY <1>1, WFMin
<1>3. ASSUME NEW m \in T PROVE n <= m
  <2>1. n \in Nat /\ m \in Nat /\ ~ (m < n)
    BY <1>1, <1>2, <1>3
  <2> QED BY <2>1
<1> QED BY <1>3

\* Induction from 0 up to n, on the set of the numbers that have the property.
LEMMA Upwards ==
  ASSUME NEW n \in Nat, NEW T, 0 \in T, \A i \in 1..n : i - 1 \in T => i \in T
  PROVE  \A i \in 0..n : i \in T
<1> SUFFICES ASSUME (0..n) \ T # {} PROVE FALSE
  OBVIOUS
<1> DEFINE U == (0..n) \ T
<1>0. U \subseteq Nat /\ U # {}
  OBVIOUS
<1> HIDE DEF U
<1>4. \E k \in U : \A m \in U : k <= m
  BY <1>0, Least
<1> USE DEF U
<1>1. PICK k \in (0..n) \ T : \A m \in (0..n) \ T : k <= m
  BY <1>4
<1>2. k # 0 /\ k - 1 \in 0..n
  BY <1>1
<1>3. k - 1 \in T
  BY <1>1, <1>2
<1> QED BY <1>1, <1>2, <1>3

\* ... and down from n to 0.
LEMMA Downwards ==
  ASSUME NEW n \in Nat, NEW T, n \in T, \A i \in 1..n : i \in T => i - 1 \in T
  PROVE  \A i \in 0..n : i \in T
<1> DEFINE U == {i \in 0..n : n - i \in T}
<1>1. 0 \in U
  OBVIOUS
<1>2. ASSUME NEW i \in 1..n, i - 1 \in U PROVE i \in U
  <2>1. n - (i - 1) \in T /\ n - (i - 1) \in 1..n /\ (n - (i - 1)) - 1 = n - i
    BY <1>2
  <2> QED BY <2>1
<1> HIDE DEF U
<1>3. \A i \in 0..n : i \in U
  BY <1>1, <1>2, Upwards
<1>4. ASSUME NEW i \in 0..n PROVE i \in T
  <2>1. n - i \in 0..n /\ n - (n - i) = i
    OBVIOUS
  <2> QED BY <1>3, <2>1 DEF U
<1> QED BY <1>4

\* A function with a given value at 0, and a given step from one value to the next.
Steps(S, n, c, g) == n \in Nat /\ c \in S /\ g \in [S \X (1..n) -> S]
Runs(S, n, c, g, f) ==
  /\ f \in [0..n -> S]
  /\ f[0] = c
  /\ \A i \in 1..n : f[i] = g[<<f[i - 1], i>>]

LEMMA Recursion ==
  ASSUME NEW S, NEW n, NEW c, NEW g, Steps(S, n, c, g)
  PROVE  \E f : Runs(S, n, c, g, f)
<1> USE DEF Steps
<1> DEFINE Reached(k) == \E f \in [0..k -> S] :
                         f[0] = c /\ \A i \in 1..k : f[i] = g[<<f[i - 1], i>>]
           T == {k \in 0..n : Reached(k)}
<1>1. 0 \in T
  <2> DEFINE f == [i \in 0..0 |-> c]
  <2>1. f \in [0..0 -> S] /\ f[0] = c
    OBVIOUS
  <2> HIDE DEF f
  <2>2. \A i \in 1..0 : FALSE
    OBVIOUS
  <2> QED BY <2>1, <2>2
<1>2. ASSUME NEW k \in 1..n, k - 1 \in T PROVE k \in T
  <2>1. PICK f \in [0..(k - 1) -> S] :
          f[0] = c /\ \A i \in 1..(k - 1) : f[i] = g[<<f[i - 1], i>>]
    BY <1>2
  <2> DEFINE h == [i \in 0..k |-> IF i = k THEN g[<<f[k - 1], k>>] ELSE f[i]]
  <2>2. g[<<f[k - 1], k>>] \in S
    BY <2>1
  <2>3. h \in [0..k -> S]
    BY <2>1, <2>2
  <2>4. h[0] = c
    BY <2>1
  <2>5. ASSUME NEW i \in 1..k PROVE h[i] = g[<<h[i - 1], i>>]
    <3>1. h[i - 1] = f[i - 1]
      OBVIOUS
    <3>2. CASE i = k
      <4>1. h[i] = g[<<f[k - 1], k>>]
        BY <3>2
      <4> HIDE DEF h
      <4> QED BY <3>1, <3>2, <4>1
    <3>3. CASE i # k
      <4>1. h[i] = f[i] /\ i \in 1..(k - 1)
        BY <3>3
      <4> HIDE DEF h
      <4> QED BY <2>1, <3>1, <4>1
    <3> QED BY <3>2, <3>3
  <2> HIDE DEF h
  <2> QED BY <2>3, <2>4, <2>5
<1> HIDE DEF T
<1>3. \A i \in 0..n : i \in T
  BY <1>1, <1>2, Upwards
<1>4. n \in 0..n
  OBVIOUS
<1>5. Reached(n)
  <2> HIDE DEF Reached
  <2> QED BY <1>3, <1>4 DEF T
<1>6. PICK f \in [0..n -> S] : f[0] = c /\ \A i \in 1..n : f[i] = g[<<f[i - 1], i>>]
  BY <1>5
<1>7. Runs(S, n, c, g, f)
  BY <1>6 DEF Runs
<1> QED BY <1>7

-----------------------------------------------------------------------------
(* Integers and their bytes *)

\* What a byte counts for, from one byte to the one before it.
LEMMA WeightOf ==
  /\ Weight(0) = 1
  /\ \A n \in Nat : Weight(n) \in Nat \ {0} /\ Weight(n + 1) = Weight(n) * Base
<1> USE CryptAssumption
<1> DEFINE Is(w, n) == w = [i \in 0..n |-> IF i = 0 THEN 1 ELSE w[i - 1] * Base]
           W(n) == CHOOSE w : Is(w, n)
<1>1. ASSUME NEW n \in Nat PROVE Weight(n) = W(n)[n]
  BY DEF Weight
<1>2. ASSUME NEW n \in Nat PROVE Is(W(n), n)
  <2> DEFINE g == [p \in Nat \X (1..n) |-> p[1] * Base]
  <2>1. Steps(Nat, n, 1, g)
    BY DEF Steps
  <2>2. \A x \in Nat, i \in 1..n : g[<<x, i>>] = x * Base
    OBVIOUS
  <2> HIDE DEF g
  <2>3. PICK f : Runs(Nat, n, 1, g, f)
    BY <2>1, Recursion
  <2> USE DEF Runs
  <2>4. ASSUME NEW i \in 1..n PROVE f[i] = f[i - 1] * Base
    <3>1. f[i - 1] \in Nat
      BY <2>3
    <3> QED BY <2>2, <2>3, <3>1
  <2>5. Is(f, n)
    BY <2>3, <2>4
  <2> QED BY <2>5
<1>3. ASSUME NEW n \in Nat
      PROVE  W(n)[0] = 1 /\ \A i \in 1..n : W(n)[i] = W(n)[i - 1] * Base
  <2> HIDE DEF W
  <2> QED BY <1>2
<1> HIDE DEF W
<1>4. ASSUME NEW n \in Nat PROVE \A i \in 0..n : W(n)[i] \in Nat \ {0}
  <2> DEFINE T == {i \in 0..n : W(n)[i] \in Nat \ {0}}
  <2>1. 0 \in T
    BY <1>3
  <2>2. ASSUME NEW i \in 1..n, i - 1 \in T PROVE i \in T
    BY <1>3, <2>2
  <2> HIDE DEF T
  <2>3. \A i \in 0..n : i \in T
    BY <2>1, <2>2, Upwards
  <2> QED BY <2>3 DEF T
<1>5. ASSUME NEW n \in Nat PROVE W(n + 1)[n] = W(n)[n]
  <2> DEFINE T == {i \in 0..n : W(n + 1)[i] = W(n)[i]}
  <2>1. 0 \in T
    BY <1>3
  <2>2. ASSUME NEW i \in 1..n, i - 1 \in T PROVE i \in T
    <3>1. i \in 1..(n + 1)
      OBVIOUS
    <3>2. W(n + 1)[i] = W(n + 1)[i - 1] * Base
      BY <1>3, <3>1
    <3> QED BY <1>3, <2>2, <3>2
  <2> HIDE DEF T
  <2>3. \A i \in 0..n : i \in T
    BY <2>1, <2>2, Upwards
  <2> QED BY <2>3 DEF T
<1>6. Weight(0) = 1
  BY <1>1, <1>3
<1>7. ASSUME NEW n \in Nat
      PROVE  Weight(n) \in Nat \ {0} /\ Weight(n + 1) = Weight(n) * Base
  <2>1. Weight(n) \in Nat \ {0}
    BY <1>1, <1>4
  <2>2. Weight(n + 1) = W(n + 1)[n] * Base
    <3>1. n + 1 \in Nat /\ n + 1 \in 1..(n + 1) /\ (n + 1) - 1 = n
      OBVIOUS
    <3>2. W(n + 1)[n + 1] = W(n + 1)[n] * Base
      BY <1>3, <3>1
    <3> QED BY <1>1, <3>1, <3>2
  <2> QED BY <1>1, <1>5, <2>1, <2>2
<1> QED BY <1>6, <1>7

LEMMA WeightGrows ==
  ASSUME NEW j \in Nat
  PROVE  /\ Weight(j) > j
         /\ \A i \in 0..j : Weight(i) <= Weight(j)
<1> USE CryptAssumption
<1>1. Weight(j) > j
  <2> DEFINE T == {i \in 0..j : Weight(i) > i}
  <2>1. 0 \in T
    BY WeightOf
  <2>2. ASSUME NEW i \in 1..j, i - 1 \in T PROVE i \in T
    <3>1. i - 1 \in Nat /\ (i - 1) + 1 = i /\ Weight(i - 1) > i - 1
      BY <2>2
    <3>2. Weight(i - 1) \in Nat \ {0} /\ Weight(i) = Weight(i - 1) * Base
      BY <3>1, WeightOf
    <3>3. Weight(i) >= 2 * Weight(i - 1)
      BY <3>2
    <3> QED BY <3>1, <3>2, <3>3
  <2> HIDE DEF T
  <2>3. \A i \in 0..j : i \in T
    BY <2>1, <2>2, Upwards
  <2> QED BY <2>3 DEF T
<1>2. \A i \in 0..j : Weight(i) <= Weight(j)
  <2> DEFINE T == {i \in 0..j : Weight(i) <= Weight(j)}
  <2>1. j \in T
    BY WeightOf
  <2>2. ASSUME NEW i \in 1..j, i \in T PROVE i - 1 \in T
    <3>1. i - 1 \in Nat /\ (i - 1) + 1 = i /\ Weight(i) <= Weight(j)
      BY <2>2
    <3>2. Weight(i - 1) \in Nat \ {0} /\ Weight(i) = Weight(i - 1) * Base /\ Weight(j) \in Nat
      BY <3>1, WeightOf
    <3>3. Weight(i) >= Weight(i - 1)
      BY <3>2
    <3> QED BY <3>1, <3>2, <3>3
  <2> HIDE DEF T
  <2>3. \A i \in 0..j : i \in T
    BY <2>1, <2>2, Downwards
  <2> QED BY <2>3 DEF T
<1> QED BY <1>1, <1>2

\* What textbook RSA yields is below the modulus.
LEMMA PowerBelow ==
  ASSUME NEW x \in Nat, NEW e \in Nat
  PROVE  Power(x, e) \in 0..(N - 1)
<1> USE CryptAssumption
<1> DEFINE Is(w) == w = [i \in 0..e |-> IF i = 0 THEN 1 % N ELSE (w[i - 1] * x) % N]
           W == CHOOSE w : Is(w)
<1>1. Power(x, e) = W[e]
  BY DEF Power
<1>2. Is(W)
  <2> DEFINE g == [p \in Nat \X (1..e) |-> (p[1] * x) % N]
  <2>1. Steps(Nat, e, 1 % N, g)
    BY DEF Steps
  <2>2. \A y \in Nat, i \in 1..e : g[<<y, i>>] = (y * x) % N
    OBVIOUS
  <2> HIDE DEF g
  <2>3. PICK f : Runs(Nat, e, 1 % N, g, f)
    BY <2>1, Recursion
  <2> USE DEF Runs
  <2>4. ASSUME NEW i \in 1..e PROVE f[i] = (f[i - 1] * x) % N
    <3>1. f[i - 1] \in Nat
      BY <2>3
    <3> QED BY <2>2, <2>3, <3>1
  <2>5. Is(f)
    BY <2>3, <2>4
  <2> QED BY <2>5
<1>3. W[0] = 1 % N /\ \A i \in 1..e : W[i] = (W[i - 1] * x) % N
  <2> HIDE DEF W
  <2> QED BY <1>2
<1> HIDE DEF W
<1> DEFINE T == {i \in 0..e : W[i] \in 0..(N - 1)}
<1>4. 0 \in T
  BY <1>3
<1>5. ASSUME NEW i \in 1..e, i - 1 \in T PROVE i \in T
  <2>1. W[i - 1] * x \in Nat
    BY <1>5
  <2> QED BY <1>3, <2>1
<1> HIDE DEF T
<1>6. \A i \in 0..e : i \in T
  BY <1>4, <1>5, Upwards
<1> QED BY <1>1, <1>6 DEF T

\* The values of the bytes up to each.
Values(bytes, v) ==
  /\ v \in [0..Len(bytes) -> Nat]
  /\ v[0] = 0
  /\ \A i \in 1..Len(bytes) : v[i] = v[i - 1] * Base + bytes[i]
  /\ Value(bytes) = v[Len(bytes)]

LEMMA ValueOf ==
  ASSUME NEW bytes \in Seq(Nat)
  PROVE  \E v : Values(bytes, v)
<1> USE CryptAssumption
<1> DEFINE n == Len(bytes)
           Is(w) == w = [i \in 0..n |-> IF i = 0 THEN 0 ELSE w[i - 1] * Base + bytes[i]]
           W == CHOOSE w : Is(w)
<1>0. n \in Nat /\ \A i \in 1..n : bytes[i] \in Nat
  OBVIOUS
<1>1. Value(bytes) = W[n]
  BY DEF Value
<1> HIDE DEF n
<1>2. Is(W)
  <2> DEFINE g == [p \in Nat \X (1..n) |-> p[1] * Base + bytes[p[2]]]
  <2>0. ASSUME NEW p \in Nat \X (1..n) PROVE p[1] * Base + bytes[p[2]] \in Nat
    <3>1. p[1] \in Nat /\ p[2] \in 1..n /\ bytes[p[2]] \in Nat
      BY <1>0
    <3>2. p[1] * Base \in Nat
      BY <3>1
    <3> QED BY <3>1, <3>2
  <2>1. Steps(Nat, n, 0, g)
    BY <1>0, <2>0 DEF Steps
  <2>2. \A y \in Nat, i \in 1..n : g[<<y, i>>] = y * Base + bytes[i]
    OBVIOUS
  <2> HIDE DEF g
  <2>3. PICK f : Runs(Nat, n, 0, g, f)
    BY <2>1, Recursion
  <2> USE DEF Runs
  <2>4. ASSUME NEW i \in 1..n PROVE f[i] = f[i - 1] * Base + bytes[i]
    <3>1. f[i - 1] \in Nat
      BY <1>0, <2>3
    <3> QED BY <2>2, <2>3, <3>1
  <2>5. Is(f)
    BY <1>0, <2>3, <2>4
  <2> QED BY <2>5
<1>3. /\ W = [i \in 0..n |-> W[i]]
      /\ W[0] = 0
      /\ \A i \in 1..n : W[i] = (W[i - 1] * Base) + bytes[i]
  <2> HIDE DEF W
  <2>1. \A i \in 0..n : W[i] = IF i = 0 THEN 0 ELSE (W[i - 1] * Base) + bytes[i]
    BY <1>2
  <2>2. W = [i \in 0..n |-> W[i]]
    BY <1>2
  <2>3. 0 \in 0..n /\ \A i \in 1..n : i \in 0..n /\ i # 0
    BY <1>0
  <2> QED BY <2>1, <2>2, <2>3
<1> HIDE DEF W
<1> DEFINE T == {i \in 0..n : W[i] \in Nat}
<1>4. 0 \in T
  BY <1>0, <1>3
<1>5. ASSUME NEW i \in 1..n, i - 1 \in T PROVE i \in T
  <2>1. W[i - 1] \in Nat /\ bytes[i] \in Nat
    BY <1>0, <1>5
  <2>2. W[i - 1] * Base \in Nat
    BY <2>1
  <2>3. W[i] = (W[i - 1] * Base) + bytes[i]
    BY <1>3
  <2>4. W[i] \in Nat
    BY <2>1, <2>2, <2>3
  <2> QED BY <2>4
<1> HIDE DEF T
<1>6. \A i \in 0..n : i \in T
  BY <1>0, <1>4, <1>5, Upwards
<1>7. W \in [0..n -> Nat]
  BY <1>3, <1>6 DEF T
<1> QED BY <1>1, <1>3, <1>7 DEF Values, n

LEMMA BytesAreNumbers ==
  ASSUME NEW bytes \in Seq(Byte)
  PROVE  bytes \in Seq(Nat)
<1>1. \A i \in 1..Len(bytes) : bytes[i] \in Nat
  <2>1. \A i \in 1..Len(bytes) : bytes[i] \in Byte
    OBVIOUS
  <2> QED BY <2>1 DEF Byte
<1>2. Len(bytes) \in Nat /\ bytes = [i \in 1..Len(bytes) |-> bytes[i]]
  OBVIOUS
<1> QED BY <1>1, <1>2

\* The bytes of an integer: how many, and which.
LEMMA SizeOf ==
  ASSUME NEW x \in Nat
  PROVE  /\ MinEncodedSize(x) \in Nat \ {0}
         /\ x < Weight(MinEncodedSize(x))
         /\ \A n \in Nat \ {0} : x < Weight(n) => MinEncodedSize(x) <= n
         /\ \A n \in Nat \ {0} : x < Weight(n) /\ x >= Weight(n - 1) => MinEncodedSize(x) = n
<1> DEFINE T == {n \in Nat \ {0} : x < Weight(n)}
           Is(n) == n \in 1..(x + 1) /\ x < Weight(n) /\ \A k \in 1..(n - 1) : x >= Weight(k)
           size == MinEncodedSize(x)
<1>1. x + 1 \in T
  <2>1. x + 1 \in Nat \ {0} /\ Weight(x + 1) \in Nat /\ Weight(x + 1) > x + 1
    BY WeightOf, WeightGrows
  <2> QED BY <2>1
<1>2. T \subseteq Nat /\ T # {}
  BY <1>1
<1>3. \E n : Is(n)
  <2> HIDE DEF T
  <2>1. PICK n \in T : \A m \in T : n <= m
    BY <1>2, Least
  <2>2. n \in 1..(x + 1) /\ x < Weight(n)
    BY <1>1, <2>1 DEF T
  <2>3. ASSUME NEW k \in 1..(n - 1) PROVE x >= Weight(k)
    <3>1. k \in Nat \ {0} /\ k < n /\ Weight(k) \in Nat
      BY <2>2, WeightOf
    <3>2. k \notin T
      BY <2>1, <2>2, <3>1 DEF T
    <3> QED BY <3>1, <3>2 DEF T
  <2> QED BY <2>2, <2>3
<1>4. Is(size)
  <2>1. size = CHOOSE n \in 1..(x + 1) : x < Weight(n) /\ \A k \in 1..(n - 1) : x >= Weight(k)
    BY DEF MinEncodedSize
  <2> HIDE DEF size
  <2> QED BY <1>3, <2>1
<1> HIDE DEF size
<1>5. ASSUME NEW n \in Nat \ {0}, x < Weight(n) PROVE size <= n
  <2> SUFFICES ASSUME n < size PROVE FALSE
    BY <1>4
  <2>1. n \in 1..(size - 1) /\ Weight(n) \in Nat
    BY <1>4, WeightOf
  <2> QED BY <1>4, <1>5, <2>1
<1>6. ASSUME NEW n \in Nat \ {0}, x < Weight(n), x >= Weight(n - 1) PROVE size = n
  <2> SUFFICES ASSUME size < n PROVE FALSE
    BY <1>4, <1>5, <1>6
  <2>1. n - 1 \in Nat /\ size \in 0..(n - 1) /\ size \in Nat
    BY <1>4
  <2>2. Weight(size) <= Weight(n - 1) /\ Weight(size) \in Nat /\ Weight(n - 1) \in Nat
    BY <2>1, WeightOf, WeightGrows
  <2> QED BY <1>4, <1>6, <2>2
<1> QED BY <1>4, <1>5, <1>6 DEF size

LEMMA EncodedTyped ==
  ASSUME NEW x \in Nat
  PROVE  /\ Encoded(x) \in Seq(Byte)
         /\ Len(Encoded(x)) = MinEncodedSize(x)
         /\ \A i \in 1..MinEncodedSize(x) :
              Encoded(x)[i] = (x \div Weight(MinEncodedSize(x) - i)) % Base
<1> USE CryptAssumption
<1> DEFINE size == MinEncodedSize(x)
<1>1. size \in Nat \ {0}
  BY SizeOf
<1>2. Encoded(x) = [i \in 1..size |-> (x \div Weight(size - i)) % Base]
  BY DEF Encoded
<1> HIDE DEF size
<1>3. ASSUME NEW i \in 1..size PROVE (x \div Weight(size - i)) % Base \in Byte
  <2>1. size - i \in Nat
    BY <1>1
  <2>2. Weight(size - i) \in Nat \ {0}
    BY <2>1, WeightOf
  <2>3. x \div Weight(size - i) \in Nat
    BY <2>2
  <2> QED BY <2>3 DEF Byte
<1>4. Encoded(x) \in Seq(Byte) /\ Len(Encoded(x)) = size
  BY <1>1, <1>2, <1>3
<1> QED BY <1>2, <1>4 DEF size

\* What shifting an integer by one byte more does.
LEMMA Shifted ==
  ASSUME NEW x \in Nat, NEW k \in Nat
  PROVE  /\ x \div Weight(k) \in Nat
         /\ x \div Weight(k + 1) = (x \div Weight(k)) \div Base
<1> USE CryptAssumption
<1> DEFINE w == Weight(k)
<1>1. w \in Nat \ {0} /\ Weight(k + 1) = w * Base
  BY WeightOf
<1> HIDE DEF w
<1>2. x \div w \in Nat
  BY <1>1
<1>3. x \div (w * Base) = (x \div w) \div Base
  <2>1. x \div (Base * w) = (x \div w) \div Base
    BY <1>1
  <2>2. Base * w = w * Base
    BY <1>1
  <2> QED BY <2>1, <2>2
<1> QED BY <1>1, <1>2, <1>3 DEF w

\* The integer that some bytes stand for, which are those of an integer.
LEMMA ValueOfEncoded ==
  ASSUME NEW x \in Nat
  PROVE  Value(Encoded(x)) = x
<1> USE CryptAssumption
<1> DEFINE n == MinEncodedSize(x)
           bytes == Encoded(x)
<1>1. n \in Nat \ {0} /\ x < Weight(n)
  BY SizeOf
<1>2. /\ bytes \in Seq(Nat) /\ Len(bytes) = n
      /\ \A i \in 1..n : bytes[i] = (x \div Weight(n - i)) % Base
  <2>1. bytes \in Seq(Byte)
    BY EncodedTyped
  <2>2. bytes \in Seq(Nat)
    BY <2>1, BytesAreNumbers
  <2> QED BY <2>2, EncodedTyped
<1> HIDE DEF n, bytes
<1>3. PICK v : Values(bytes, v)
  BY <1>2, ValueOf
<1>4. /\ v \in [0..n -> Nat] /\ v[0] = 0 /\ Value(bytes) = v[n]
      /\ \A i \in 1..n : v[i] = (v[i - 1] * Base) + ((x \div Weight(n - i)) % Base)
  BY <1>2, <1>3 DEF Values
<1> DEFINE T == {i \in 0..n : v[i] = x \div Weight(n - i)}
<1>5. 0 \in T
  <2>1. n - 0 = n /\ Weight(n) \in Nat \ {0}
    BY <1>1, WeightOf
  <2>2. x \div Weight(n) = 0
    BY <1>1, <2>1
  <2> QED BY <1>1, <1>4, <2>1, <2>2
<1>6. ASSUME NEW i \in 1..n, i - 1 \in T PROVE i \in T
  <2> DEFINE q == x \div Weight(n - i)
  <2>1. n - i \in Nat /\ n - (i - 1) = (n - i) + 1
    BY <1>1
  <2>2. q \in Nat /\ x \div Weight(n - (i - 1)) = q \div Base
    BY <2>1, Shifted
  <2>3. v[i - 1] = q \div Base /\ v[i] = (v[i - 1] * Base) + (q % Base)
    BY <1>4, <1>6, <2>2
  <2> HIDE DEF q
  <2>4. ((q \div Base) * Base) + (q % Base) = q
    BY <2>2
  <2> QED BY <2>3, <2>4 DEF q
<1> HIDE DEF T
<1>7. \A i \in 0..n : i \in T
  BY <1>1, <1>5, <1>6, Upwards
<1>8. v[n] = x \div Weight(0)
  <2>1. n \in 0..n /\ n - n = 0
    BY <1>1
  <2> QED BY <1>7, <2>1 DEF T
<1>9. x \div Weight(0) = x
  BY WeightOf
<1> QED BY <1>4, <1>8, <1>9 DEF bytes

LEMMA BlockTyped ==
  ASSUME NEW blk \in Block
  PROVE  /\ blk \in Seq(Byte) /\ blk \in Seq(Nat) /\ Len(blk) = BlockSize
         /\ Value(blk) \in Nat
<1> USE CryptAssumption
<1>1. blk \in Seq(Byte) /\ Len(blk) = BlockSize
  BY DEF Block, Byte
<1>2. blk \in Seq(Nat)
  BY <1>1, BytesAreNumbers
<1>3. PICK v : Values(blk, v)
  BY <1>2, ValueOf
<1>4. Value(blk) \in Nat
  BY <1>1, <1>3 DEF Values
<1> QED BY <1>1, <1>2, <1>4

\* A block comes back from the integer if all its bytes do, and they do if the
\* first is not zero.
LEMMA EncodedValue ==
  ASSUME NEW blk \in Block
  PROVE  /\ Full(blk) => Len(Encoded(Value(blk))) = BlockSize
         /\ Len(Encoded(Value(blk))) = BlockSize => Encoded(Value(blk)) = blk
<1> USE CryptAssumption
<1> DEFINE n == BlockSize
           x == Value(blk)
<1>1. blk \in Seq(Nat) /\ Len(blk) = n /\ x \in Nat /\ n \in Nat \ {0}
  BY BlockTyped
<1>2. blk = [i \in 1..n |-> blk[i]] /\ \A i \in 1..n : blk[i] \in 0..(Base - 1)
  BY DEF Block, Byte
<1>3. Full(blk) => blk[1] >= 1
  <2>1. 1 \in 1..n
    BY <1>1
  <2>2. blk[1] \in 0..(Base - 1)
    BY <1>2, <2>1
  <2> QED BY <2>2 DEF Full
<1> HIDE DEF n
<1>4. PICK v : Values(blk, v)
  BY <1>1, ValueOf
<1>5. /\ v \in [0..n -> Nat] /\ v[0] = 0 /\ x = v[n]
      /\ \A i \in 1..n : v[i] = v[i - 1] * Base + blk[i]
  BY <1>1, <1>4 DEF Values
<1> HIDE DEF x
<1>6. ASSUME NEW i \in 1..n
      PROVE  v[i - 1] \in Nat /\ v[i] \div Base = v[i - 1] /\ v[i] % Base = blk[i]
  <2>0. i - 1 \in 0..n
    BY <1>1
  <2>1. v[i - 1] \in Nat /\ blk[i] \in 0..(Base - 1) /\ v[i] = v[i - 1] * Base + blk[i]
    BY <1>2, <1>5, <2>0
  <2> DEFINE q == v[i - 1]
             r == blk[i]
  <2> HIDE DEF q, r
  <2>2. q \in Nat /\ r \in 0..(Base - 1) => (q * Base + r) \div Base = q /\ (q * Base + r) % Base = r
    OBVIOUS
  <2> QED BY <2>1, <2>2 DEF q, r
<1> DEFINE T == {i \in 0..n : v[i] = x \div Weight(n - i)}
<1>7. n \in T
  <2>1. n - n = 0 /\ n \in 0..n /\ x \div Weight(0) = x
    BY <1>1, WeightOf
  <2> QED BY <1>5, <2>1
<1>8. ASSUME NEW i \in 1..n, i \in T PROVE i - 1 \in T
  <2>1. n - i \in Nat /\ n - (i - 1) = (n - i) + 1 /\ i - 1 \in 0..n
    BY <1>1
  <2>2. x \div Weight(n - (i - 1)) = (x \div Weight(n - i)) \div Base
    BY <1>1, <2>1, Shifted
  <2>3. v[i] = x \div Weight(n - i)
    BY <1>8
  <2> QED BY <1>6, <2>1, <2>2, <2>3
<1> HIDE DEF T
<1>9. ASSUME NEW i \in 0..n PROVE v[i] = x \div Weight(n - i)
  <2>1. i \in T
    BY <1>1, <1>7, <1>8, Downwards
  <2> QED BY <2>1 DEF T
<1>10. x < Weight(n)
  <2>1. 0 \in 0..n /\ n - 0 = n /\ Weight(n) \in Nat \ {0}
    BY <1>1, WeightOf
  <2>2. x \div Weight(n) = 0
    BY <1>5, <1>9, <2>1
  <2> QED BY <1>1, <2>1, <2>2
<1>11. ASSUME Full(blk) PROVE x >= Weight(n - 1)
  <2>0. 1 \in 0..n /\ 1 \in 1..n /\ 1 - 1 = 0 /\ n - 1 \in Nat
    BY <1>1
  <2>1. Weight(n - 1) \in Nat \ {0}
    BY <2>0, WeightOf
  <2>2. v[1] = x \div Weight(n - 1) /\ v[1] = v[0] * Base + blk[1]
    BY <1>5, <1>9, <2>0
  <2>3. blk[1] \in Nat /\ v[1] = blk[1]
    BY <1>2, <1>5, <2>0, <2>2
  <2>4. ASSUME x < Weight(n - 1) PROVE FALSE
    <3>1. x \div Weight(n - 1) = 0
      <4> DEFINE w == Weight(n - 1)
      <4>1. w \in Nat \ {0} /\ x \in Nat /\ x < w
        BY <1>1, <2>1, <2>4
      <4> HIDE DEF w
      <4>2. x \div w = 0
        BY <4>1
      <4> QED BY <4>2 DEF w
    <3> QED BY <1>3, <1>11, <2>2, <2>3, <3>1
  <2> QED BY <1>1, <2>1, <2>4
<1>12. Full(blk) => MinEncodedSize(x) = n
  BY <1>1, <1>10, <1>11, SizeOf
<1>13. ASSUME NEW i \in 1..n PROVE (x \div Weight(n - i)) % Base = blk[i]
  BY <1>6, <1>9
<1>14. Len(Encoded(x)) = MinEncodedSize(x)
  BY <1>1, EncodedTyped
<1>15. ASSUME Len(Encoded(x)) = n PROVE Encoded(x) = blk
  <2>1. Encoded(x) = [i \in 1..n |-> (x \div Weight(n - i)) % Base]
    BY <1>14, <1>15 DEF Encoded
  <2> QED BY <1>2, <1>13, <2>1
<1> QED BY <1>12, <1>14, <1>15 DEF x, n

-----------------------------------------------------------------------------
(* The mode *)

\* What a byte is cyphered with depends on the bytes before it only, and on the
\* vector only within the first block.
LEMMA ChainedReads ==
  ASSUME NEW i \in Nat \ {0}, NEW iv \in Block, NEW c,
         \A j \in 1..(i - 1) : c[j] \in Byte
  PROVE  /\ Chained(c, iv, i) \in Block
         /\ \A d : (\A j \in 1..(i - 1) : c[j] = d[j]) => Chained(c, iv, i) = Chained(d, iv, i)
         /\ i > BlockSize => \A v : Chained(c, iv, i) = Chained(c, v, i)
<1> USE CryptAssumption
<1> DEFINE before == ((i - 1) \div BlockSize) * BlockSize
<1>1. before \in Nat /\ before <= i - 1 /\ (before # 0 => before >= BlockSize)
      /\ (i > BlockSize => before # 0)
  <2> DEFINE q == (i - 1) \div BlockSize
  <2>1. q \in Nat /\ q * BlockSize <= i - 1 /\ i - 1 < (q + 1) * BlockSize
    OBVIOUS
  <2> HIDE DEF q
  <2>2. q * BlockSize \in Nat /\ (q # 0 => q * BlockSize >= BlockSize)
    BY <2>1
  <2>3. i > BlockSize => q # 0
    BY <2>1
  <2>4. before = q * BlockSize
    BY DEF q
  <2> HIDE DEF before
  <2>5. q = 0 => before = 0
    BY <2>4
  <2> QED BY <2>1, <2>2, <2>3, <2>4
<1>2. \A x, v : Chained(x, v, i) = IF before = 0 THEN v
                                   ELSE [j \in 1..BlockSize |-> x[before - BlockSize + j]]
  BY DEF Chained
<1> HIDE DEF before
<1>3. ASSUME before # 0, NEW j \in 1..BlockSize
      PROVE  before - BlockSize + j \in 1..(i - 1)
  BY <1>1, <1>3
<1>4. Chained(c, iv, i) \in Block
  BY <1>2, <1>3 DEF Block
<1>5. ASSUME NEW d, \A j \in 1..(i - 1) : c[j] = d[j]
      PROVE  Chained(c, iv, i) = Chained(d, iv, i)
  BY <1>2, <1>3, <1>5
<1>6. ASSUME i > BlockSize, NEW v PROVE Chained(c, iv, i) = Chained(c, v, i)
  BY <1>1, <1>2, <1>6
<1> QED BY <1>4, <1>5, <1>6

LEMMA KeystreamReads ==
  ASSUME NEW i \in Nat \ {0}, NEW key \in Block, NEW iv \in Block, NEW c,
         \A j \in 1..(i - 1) : c[j] \in Byte
  PROVE  /\ Keystream(c, key, iv, i) \in Byte
         /\ \A d : (\A j \in 1..(i - 1) : c[j] = d[j]) =>
                   Keystream(c, key, iv, i) = Keystream(d, key, iv, i)
         /\ i > BlockSize => \A v : Keystream(c, key, iv, i) = Keystream(c, key, v, i)
<1> USE CryptAssumption
<1> DEFINE k == 1 + ((i - 1) % BlockSize)
<1>1. k \in 1..BlockSize
  OBVIOUS
<1>2. ASSUME NEW b \in Block PROVE Aes(key, b)[k] \in Byte
  <2>1. key[k] \in 0..(Base - 1) /\ b[k] \in 0..(Base - 1)
    BY <1>1 DEF Block, Byte
  <2>2. (key[k] + Base - b[k]) % Base \in 0..(Base - 1)
    BY <2>1
  <2> HIDE DEF k
  <2> QED BY <1>1, <2>2 DEF Aes, Byte
<1>3. \A x, v : Keystream(x, key, v, i) = Aes(key, Chained(x, v, i))[k]
  BY DEF Keystream
<1> HIDE DEF k
<1>4. Chained(c, iv, i) \in Block
  BY ChainedReads
<1>5. Keystream(c, key, iv, i) \in Byte
  BY <1>2, <1>3, <1>4
<1>6. ASSUME NEW d, \A j \in 1..(i - 1) : c[j] = d[j]
      PROVE  Keystream(c, key, iv, i) = Keystream(d, key, iv, i)
  <2>1. Chained(c, iv, i) = Chained(d, iv, i)
    BY <1>6, ChainedReads
  <2> QED BY <1>3, <2>1
<1>7. ASSUME i > BlockSize, NEW v PROVE Keystream(c, key, iv, i) = Keystream(c, key, v, i)
  <2>1. Chained(c, iv, i) = Chained(c, v, i)
    BY <1>7, ChainedReads
  <2> QED BY <1>3, <2>1
<1> QED BY <1>5, <1>6, <1>7

\* The cyphered text up to a byte: each is made of those before it.
Cyphered(m, key, iv, n, c) ==
  /\ c \in [1..n -> Byte]
  /\ \A i \in 1..n : c[i] = (m[i] + Keystream(c, key, iv, i)) % Base

LEMMA CypheredExists ==
  ASSUME NEW m \in Seq(Byte), NEW key \in Block, NEW iv \in Block
  PROVE  \E c : Cyphered(m, key, iv, Len(m), c)
<1> USE CryptAssumption
<1> DEFINE n == Len(m)
           T == {k \in 0..n : \E c : Cyphered(m, key, iv, k, c)}
<1>0. n \in Nat /\ \A i \in 1..n : m[i] \in Byte
  OBVIOUS
<1> HIDE DEF n
<1>1. 0 \in T
  <2>1. Cyphered(m, key, iv, 0, [i \in 1..0 |-> 0])
    BY DEF Cyphered
  <2> QED BY <1>0, <2>1
<1>2. ASSUME NEW k \in 1..n, k - 1 \in T PROVE k \in T
  <2>1. PICK c : Cyphered(m, key, iv, k - 1, c)
    BY <1>2
  <2>2. /\ \A i \in 1..(k - 1) : c[i] \in Byte
        /\ \A i \in 1..(k - 1) : c[i] = (m[i] + Keystream(c, key, iv, i)) % Base
    BY <2>1 DEF Cyphered
  <2> DEFINE last == (m[k] + Keystream(c, key, iv, k)) % Base
             h == [i \in 1..k |-> IF i = k THEN last ELSE c[i]]
  <2>3. last \in Byte
    <3>1. k \in Nat \ {0} /\ m[k] \in Byte
      BY <1>0
    <3>2. Keystream(c, key, iv, k) \in Byte
      BY <2>2, <3>1, KeystreamReads
    <3> QED BY <3>1, <3>2 DEF Byte
  <2>4. h \in [1..k -> Byte]
    <3> HIDE DEF last
    <3> QED BY <2>2, <2>3
  <2>5. \A j \in 1..(k - 1) : h[j] = c[j]
    <3> HIDE DEF last
    <3> QED OBVIOUS
  <2>6. h[k] = last
    <3> HIDE DEF last
    <3> QED OBVIOUS
  <2> HIDE DEF h
  <2>7. ASSUME NEW i \in 1..k PROVE h[i] = (m[i] + Keystream(h, key, iv, i)) % Base
    <3>1. i \in Nat \ {0} /\ \A j \in 1..(i - 1) : j \in 1..(k - 1)
      OBVIOUS
    <3>2. (\A j \in 1..(i - 1) : c[j] \in Byte) /\ (\A j \in 1..(i - 1) : c[j] = h[j])
      BY <2>2, <2>5, <3>1
    <3>3. Keystream(c, key, iv, i) = Keystream(h, key, iv, i)
      BY <3>1, <3>2, KeystreamReads
    <3>4. CASE i = k
      BY <2>6, <3>3, <3>4
    <3>5. CASE i # k
      <4>1. i \in 1..(k - 1)
        BY <3>5
      <4>2. h[i] = c[i] /\ c[i] = (m[i] + Keystream(c, key, iv, i)) % Base
        BY <2>2, <2>5, <4>1
      <4> QED BY <3>3, <4>2
    <3> QED BY <3>4, <3>5
  <2>8. Cyphered(m, key, iv, k, h)
    BY <2>4, <2>7 DEF Cyphered
  <2> QED BY <2>8
<1> HIDE DEF T
<1>3. \A k \in 0..n : k \in T
  BY <1>0, <1>1, <1>2, Upwards
<1> QED BY <1>0, <1>3 DEF T, n

LEMMA CfbEncrypted ==
  ASSUME NEW m \in Seq(Byte), NEW key \in Block, NEW iv \in Block
  PROVE  Cyphered(m, key, iv, Len(m), CfbEncrypt(m, key, iv))
<1> USE CryptAssumption
<1> DEFINE n == Len(m)
           Is(c) == c = [i \in 1..n |-> (m[i] + Keystream(c, key, iv, i)) % Base]
           C == CHOOSE c : Is(c)
<1>0. n \in Nat /\ \A i \in 1..n : m[i] \in Byte
  OBVIOUS
<1>1. CfbEncrypt(m, key, iv) = [i \in 1..n |-> C[i]]
  BY DEF CfbEncrypt
<1>2. Is(C)
  <2>1. PICK c : Cyphered(m, key, iv, n, c)
    BY CypheredExists
  <2>2. Is(c)
    BY <2>1 DEF Cyphered
  <2> HIDE DEF Is
  <2> QED BY <2>2
<1> HIDE DEF n
<1>3. C = [i \in 1..n |-> C[i]] /\ \A i \in 1..n : C[i] = (m[i] + Keystream(C, key, iv, i)) % Base
  <2> HIDE DEF C
  <2> QED BY <1>2
<1> HIDE DEF C
<1> DEFINE T == {k \in 0..n : \A j \in 1..k : C[j] \in Byte}
<1>4. 0 \in T
  BY <1>0
<1>5. ASSUME NEW k \in 1..n, k - 1 \in T PROVE k \in T
  <2>1. \A j \in 1..(k - 1) : C[j] \in Byte
    BY <1>5
  <2>2. k \in Nat \ {0} /\ m[k] \in Byte
    BY <1>0
  <2>3. Keystream(C, key, iv, k) \in Byte
    BY <2>1, <2>2, KeystreamReads
  <2>4. (m[k] + Keystream(C, key, iv, k)) % Base \in Byte
    BY <2>2, <2>3 DEF Byte
  <2>5. C[k] \in Byte
    BY <1>3, <2>4
  <2> QED BY <2>1, <2>5
<1> HIDE DEF T
<1>6. \A k \in 0..n : k \in T
  BY <1>0, <1>4, <1>5, Upwards
<1>7. \A j \in 1..n : C[j] \in Byte
  BY <1>0, <1>6 DEF T
<1>8. C \in [1..n -> Byte]
  BY <1>3, <1>7
<1>9. CfbEncrypt(m, key, iv) = C
  BY <1>1, <1>3
<1> QED BY <1>3, <1>8, <1>9 DEF Cyphered, n

\* What was cyphered comes out again; with another vector, but for the first block.
LEMMA CfbDecrypted ==
  ASSUME NEW m \in Seq(Byte), NEW key \in Block, NEW iv \in Block, NEW v \in Block
  PROVE  LET c == CfbEncrypt(m, key, iv)
             d == CfbDecrypt(c, key, v)
         IN  /\ c \in Seq(Byte) /\ Len(c) = Len(m)
             /\ Len(d) = Len(m)
             /\ \A i \in 1..Len(m) : i > BlockSize => d[i] = m[i]
             /\ v = iv => d = m
<1> USE CryptAssumption
<1> DEFINE n == Len(m)
           c == CfbEncrypt(m, key, iv)
           d == CfbDecrypt(c, key, v)
<1>0. n \in Nat /\ m = [i \in 1..n |-> m[i]] /\ \A i \in 1..n : m[i] \in Byte
  OBVIOUS
<1>1. Cyphered(m, key, iv, n, c)
  BY CfbEncrypted
<1> HIDE DEF c, n
<1>2. /\ c \in [1..n -> Byte]
      /\ \A i \in 1..n : c[i] = (m[i] + Keystream(c, key, iv, i)) % Base
  BY <1>1 DEF Cyphered
<1>3. c \in Seq(Byte) /\ Len(c) = n
  BY <1>0, <1>2
<1>4. d = [i \in 1..n |-> (c[i] + Base - Keystream(c, key, v, i)) % Base]
  BY <1>3 DEF CfbDecrypt
<1> HIDE DEF d
<1>5. ASSUME NEW i \in 1..n, i > BlockSize \/ v = iv PROVE d[i] = m[i]
  <2> DEFINE k == Keystream(c, key, iv, i)
  <2>1. i \in Nat \ {0} /\ \A j \in 1..(i - 1) : j \in 1..n
    BY <1>0
  <2>2. \A j \in 1..(i - 1) : c[j] \in Byte
    BY <1>2, <2>1
  <2>3. k \in Byte /\ m[i] \in Byte
    BY <1>0, <2>1, <2>2, KeystreamReads
  <2>4. Keystream(c, key, v, i) = k
    <3>1. CASE v = iv
      BY <3>1
    <3>2. CASE i > BlockSize
      BY <2>1, <2>2, <3>2, KeystreamReads
    <3> QED BY <1>5, <3>1, <3>2
  <2>5. c[i] = (m[i] + k) % Base /\ d[i] = (c[i] + Base - k) % Base
    BY <1>2, <1>4, <2>4
  <2> HIDE DEF k
  <2> DEFINE x == m[i]
  <2>6. x \in 0..(Base - 1) /\ k \in 0..(Base - 1)
    BY <2>3 DEF Byte
  <2> HIDE DEF x
  <2>7. (((x + k) % Base) + Base - k) % Base = x
    BY <2>6
  <2> QED BY <2>5, <2>7 DEF x
<1>6. Len(d) = n
  BY <1>0, <1>4
<1>7. v = iv => d = m
  BY <1>0, <1>4, <1>5
<1> QED BY <1>3, <1>5, <1>6, <1>7 DEF c, d, n

-----------------------------------------------------------------------------
(* The parts of a cyphered text *)

\* Where two integers and the text behind them are.
Parts(w, a, b, c) ==
  /\ w \in Seq(Byte)
  /\ Len(w) = 2 + Len(a) + Len(b) + Len(c)
  /\ w[1] = Len(a) % Base
  /\ \A i \in 1..Len(a) : w[1 + i] = a[i]
  /\ w[2 + Len(a)] = Len(b) % Base
  /\ \A i \in 1..Len(b) : w[2 + Len(a) + i] = b[i]
  /\ \A i \in 1..Len(c) : w[2 + Len(a) + Len(b) + i] = c[i]

LEMMA PushedTyped ==
  ASSUME NEW bytes \in Seq(Byte)
  PROVE  /\ Pushed(bytes) \in Seq(Byte)
         /\ Len(Pushed(bytes)) = 1 + Len(bytes)
         /\ Pushed(bytes)[1] = Len(bytes) % Base
         /\ \A i \in 1..Len(bytes) : Pushed(bytes)[1 + i] = bytes[i]
<1> USE CryptAssumption
<1> DEFINE len == Len(bytes) % Base
<1>1. len \in Byte /\ Len(bytes) \in Nat
  <2>1. Len(bytes) \in Nat
    OBVIOUS
  <2> QED BY <2>1 DEF Byte
<1>2. Pushed(bytes) = <<len>> \o bytes
  BY DEF Pushed
<1> HIDE DEF len
<1>3. <<len>> \in Seq(Byte) /\ Len(<<len>>) = 1 /\ <<len>>[1] = len
  BY <1>1
<1>4. Pushed(bytes) \in Seq(Byte) /\ Len(Pushed(bytes)) = 1 + Len(bytes)
  BY <1>1, <1>2, <1>3
<1>5. Pushed(bytes)[1] = len
  BY <1>1, <1>2, <1>3
<1>6. ASSUME NEW i \in 1..Len(bytes) PROVE Pushed(bytes)[1 + i] = bytes[i]
  BY <1>1, <1>2, <1>3
<1> QED BY <1>4, <1>5, <1>6 DEF len

LEMMA Joined ==
  ASSUME NEW s \in Seq(Byte), NEW t \in Seq(Byte)
  PROVE  /\ s \o t \in Seq(Byte)
         /\ Len(s \o t) = Len(s) + Len(t)
         /\ \A i \in 1..Len(s) : (s \o t)[i] = s[i]
         /\ \A i \in 1..Len(t) : (s \o t)[Len(s) + i] = t[i]
<1>1. s \o t \in Seq(Byte) /\ Len(s \o t) = Len(s) + Len(t)
  BY ConcatProperties
<1>2. \A i \in 1..(Len(s) + Len(t)) :
        (s \o t)[i] = IF i <= Len(s) THEN s[i] ELSE t[i - Len(s)]
  BY ConcatProperties
<1>3. Len(s) \in Nat /\ Len(t) \in Nat
  OBVIOUS
<1>4. ASSUME NEW i \in 1..Len(s) PROVE (s \o t)[i] = s[i]
  BY <1>2, <1>3
<1>5. ASSUME NEW i \in 1..Len(t) PROVE (s \o t)[Len(s) + i] = t[i]
  <2>1. Len(s) + i \in 1..(Len(s) + Len(t)) /\ ~ (Len(s) + i <= Len(s)) /\ (Len(s) + i) - Len(s) = i
    BY <1>3
  <2> QED BY <1>2, <2>1
<1> QED BY <1>1, <1>4, <1>5

LEMMA PartsOf ==
  ASSUME NEW a \in Seq(Byte), NEW b \in Seq(Byte), NEW c \in Seq(Byte)
  PROVE  Parts(Pushed(a) \o Pushed(b) \o c, a, b, c)
<1> DEFINE p == Pushed(a)
           q == Pushed(b)
           w == (p \o q) \o c
<1>1. /\ p \in Seq(Byte) /\ q \in Seq(Byte)
      /\ Len(p) = 1 + Len(a) /\ Len(q) = 1 + Len(b)
      /\ p[1] = Len(a) % Base /\ q[1] = Len(b) % Base
      /\ \A i \in 1..Len(a) : p[1 + i] = a[i]
      /\ \A i \in 1..Len(b) : q[1 + i] = b[i]
  BY PushedTyped
<1>2. Len(a) \in Nat /\ Len(b) \in Nat /\ Len(c) \in Nat
  OBVIOUS
<1> HIDE DEF p, q
<1>3. /\ p \o q \in Seq(Byte) /\ Len(p \o q) = 2 + Len(a) + Len(b)
      /\ \A i \in 1..(1 + Len(a)) : (p \o q)[i] = p[i]
      /\ \A i \in 1..(1 + Len(b)) : (p \o q)[1 + Len(a) + i] = q[i]
  <2>1. /\ p \o q \in Seq(Byte) /\ Len(p \o q) = Len(p) + Len(q)
        /\ \A i \in 1..Len(p) : (p \o q)[i] = p[i]
        /\ \A i \in 1..Len(q) : (p \o q)[Len(p) + i] = q[i]
    BY <1>1, Joined
  <2> QED BY <1>1, <1>2, <2>1
<1> DEFINE r == p \o q
<1> HIDE DEF r
<1>4. /\ w \in Seq(Byte) /\ Len(w) = 2 + Len(a) + Len(b) + Len(c)
      /\ \A i \in 1..(2 + Len(a) + Len(b)) : w[i] = r[i]
      /\ \A i \in 1..Len(c) : w[2 + Len(a) + Len(b) + i] = c[i]
  <2>1. w = r \o c /\ r \in Seq(Byte) /\ Len(r) = 2 + Len(a) + Len(b)
    BY <1>3 DEF r
  <2> HIDE DEF w
  <2>2. /\ r \o c \in Seq(Byte) /\ Len(r \o c) = Len(r) + Len(c)
        /\ \A i \in 1..Len(r) : (r \o c)[i] = r[i]
        /\ \A i \in 1..Len(c) : (r \o c)[Len(r) + i] = c[i]
    BY <2>1, Joined
  <2> QED BY <1>2, <2>1, <2>2
<1> HIDE DEF w
<1>5. w[1] = Len(a) % Base
  <2>0. 1 \in 1..(2 + Len(a) + Len(b)) /\ 1 \in 1..(1 + Len(a))
    BY <1>2
  <2>1. w[1] = r[1] /\ r[1] = p[1]
    BY <1>3, <1>4, <2>0 DEF r
  <2> QED BY <1>1, <2>1
<1>6. ASSUME NEW i \in 1..Len(a) PROVE w[1 + i] = a[i]
  <2>1. 1 + i \in 1..(2 + Len(a) + Len(b)) /\ 1 + i \in 1..(1 + Len(a))
    BY <1>2
  <2>2. w[1 + i] = r[1 + i] /\ r[1 + i] = p[1 + i]
    BY <1>3, <1>4, <2>1 DEF r
  <2> QED BY <1>1, <2>2
<1>7. w[2 + Len(a)] = Len(b) % Base
  <2>1. 2 + Len(a) \in 1..(2 + Len(a) + Len(b)) /\ 1 \in 1..(1 + Len(b))
        /\ 1 + Len(a) + 1 = 2 + Len(a)
    BY <1>2
  <2>2. r[1 + Len(a) + 1] = q[1]
    BY <1>3, <2>1 DEF r
  <2> QED BY <1>1, <1>4, <2>1, <2>2
<1>8. ASSUME NEW i \in 1..Len(b) PROVE w[2 + Len(a) + i] = b[i]
  <2>1. 2 + Len(a) + i \in 1..(2 + Len(a) + Len(b)) /\ 1 + i \in 1..(1 + Len(b))
        /\ 1 + Len(a) + (1 + i) = 2 + Len(a) + i
    BY <1>2
  <2>2. r[1 + Len(a) + (1 + i)] = q[1 + i]
    BY <1>3, <2>1 DEF r
  <2> QED BY <1>1, <1>4, <2>1, <2>2
<1> QED BY <1>4, <1>5, <1>6, <1>7, <1>8 DEF Parts, w, p, q

\* A length that fits is not cut.
LEMMA LengthKept ==
  ASSUME LengthsFit, NEW x \in 0..(N - 1)
  PROVE  Len(Encoded(x)) \in Nat /\ Len(Encoded(x)) % Base = Len(Encoded(x))
<1> USE CryptAssumption
<1>1. x \in Nat /\ Base - 1 \in Nat \ {0} /\ Weight(Base - 1) \in Nat
  BY WeightOf
<1>2. x < Weight(Base - 1)
  BY <1>1 DEF LengthsFit
<1> DEFINE len == MinEncodedSize(x)
<1>3. len \in Nat /\ len <= Base - 1 /\ Len(Encoded(x)) = len
  BY <1>1, <1>2, SizeOf, EncodedTyped
<1> HIDE DEF len
<1>4. len % Base = len
  BY <1>3
<1> QED BY <1>3, <1>4

LEMMA TextTyped ==
  ASSUME NEW m \in Texts
  PROVE  m \in Seq(Byte) /\ Len(m) \in Nat \ {0}
<1> USE CryptAssumption
<1>1. PICK n \in 0..MaxMsg : m \in [1..n -> MsgBytes]
  BY DEF Texts, Upto
<1>2. m \in [1..n -> Byte] /\ n \in Nat /\ m # <<>>
  BY <1>1 DEF Texts
<1>3. m \in Seq(Byte) /\ Len(m) = n
  BY <1>2
<1> QED BY <1>2, <1>3

\* The integers that encrypt() puts in front, and the whole it makes.
LEMMA WireOf ==
  ASSUME NEW m \in Texts, NEW key \in Block, NEW iv \in Block
  PROVE  LET ckey == Power(Value(key), E)
             cvec == Power(Value(iv), E)
         IN  /\ ckey \in 0..(N - 1) /\ cvec \in 0..(N - 1)
             /\ Parts(Wire(m, key, iv), Encoded(ckey), Encoded(cvec), CfbEncrypt(m, key, iv))
<1> USE CryptAssumption
<1> DEFINE ckey == Power(Value(key), E)
           cvec == Power(Value(iv), E)
<1>1. Value(key) \in Nat /\ Value(iv) \in Nat
  BY BlockTyped
<1>2. ckey \in 0..(N - 1) /\ cvec \in 0..(N - 1)
  BY <1>1, PowerBelow
<1>3. Encoded(ckey) \in Seq(Byte) /\ Encoded(cvec) \in Seq(Byte)
  <2> HIDE DEF ckey, cvec
  <2>1. ckey \in Nat /\ cvec \in Nat
    BY <1>2
  <2> QED BY <2>1, EncodedTyped
<1>4. CfbEncrypt(m, key, iv) \in Seq(Byte)
  BY TextTyped, CfbDecrypted
<1>5. Wire(m, key, iv) = Pushed(Encoded(ckey)) \o Pushed(Encoded(cvec)) \o CfbEncrypt(m, key, iv)
  BY DEF Wire
<1> HIDE DEF ckey, cvec
<1>6. Parts(Wire(m, key, iv), Encoded(ckey), Encoded(cvec), CfbEncrypt(m, key, iv))
  BY <1>3, <1>4, <1>5, PartsOf
<1> QED BY <1>2, <1>6 DEF ckey, cvec

\* What CalculateInverse() makes of a block that RSA took as it was.
LEMMA InverseOf ==
  ASSUME NEW blk \in Block, Fits(blk)
  PROVE  LET bytes == InvByteBlock(Power(Value(blk), E))
         IN  /\ Full(blk) => bytes = blk
             /\ Len(bytes) = BlockSize => bytes = blk
<1> USE CryptAssumption
<1>1. Value(blk) \in 0..(N - 1)
  BY BlockTyped DEF Fits
<1>2. Power(Power(Value(blk), E), D) = Value(blk)
  BY <1>1
<1>3. InvByteBlock(Power(Value(blk), E)) = Encoded(Value(blk))
  BY <1>2 DEF InvByteBlock
<1> QED BY <1>3, EncodedValue

-----------------------------------------------------------------------------
(* The inductive invariant *)

CryptTypeOK ==
  /\ pc \in {"start", "key", "vector", "text", "done", "thrown"}
  /\ sent = NotOurs \/ sent \in [text : Texts, key : Block, iv : Block]
  /\ cmsg \in Seq(Byte)
  /\ pin \in Nat /\ caesk \in Nat /\ civ \in Nat

\* Nothing is consumed until there is something to consume.
Consumed ==
  /\ ReadsWithin
  /\ pc \in {"start", "key"} => pin = 0
  /\ pc = "start" => ~ Ours

CypheredKey(s)    == Power(Value(s.key), E)
CypheredVector(s) == Power(Value(s.iv), E)

\* What is read from a text of encrypt() is what was put there, and in the end the
\* key is refused or decyphers it, with the vector if that survives as well.
ReadsBack(s) ==
  LET ckey  == CypheredKey(s)
      cvec  == CypheredVector(s)
      front == 1 + Len(Encoded(ckey))
  IN  /\ cmsg = Wire(s.text, s.key, s.iv)
      /\ pc = "vector" => pin = front /\ caesk = ckey
      /\ pc = "text" => pin = front + 1 + Len(Encoded(cvec)) /\ caesk = ckey /\ civ = cvec
      /\ Ended /\ Fits(s.key) =>
           \/ pc = "thrown" /\ ~ Full(s.key)
           \/ /\ pc = "done"
              /\ \E v \in Block :
                   /\ Full(s.iv) /\ Fits(s.iv) => v = s.iv
                   /\ msg = CfbDecrypt(CfbEncrypt(s.text, s.key, s.iv), s.key, v)

CryptInv == CryptTypeOK /\ Consumed /\ (LengthsFit /\ Ours => ReadsBack(sent))

\* What pop_integer() makes of bytes that are there.
LEMMA PoppedTyped ==
  ASSUME CryptTypeOK, Poppable
  PROVE  /\ Popped \in Nat
         /\ pin + 1 + cmsg[pin + 1] \in Nat
         /\ pin + 1 + cmsg[pin + 1] <= Len(cmsg)
<1> USE CryptAssumption DEF CryptTypeOK
<1> DEFINE size == cmsg[pin + 1]
           bytes == BytesAt(pin + 1, size)
<1>1. Len(cmsg) \in Nat /\ pin + 1 \in 1..Len(cmsg) /\ Len(cmsg) - pin - 1 >= size
  BY DEF Poppable, Left
<1>2. size \in Nat
  <2>1. size \in Byte
    BY <1>1
  <2> QED BY <2>1 DEF Byte
<1>3. \A i \in 1..Len(cmsg) : cmsg[i] \in Nat
  BY BytesAreNumbers
<1>4. Popped = Value(bytes)
  BY DEF Popped
<1> HIDE DEF size
<1>5. bytes \in Seq(Nat) /\ Len(bytes) = size
  <2>1. \A i \in 1..size : (IF pin + 1 + i <= Len(cmsg) THEN cmsg[pin + 1 + i] ELSE 0) \in Nat
    BY <1>1, <1>2, <1>3
  <2>2. bytes = [i \in 1..size |-> IF pin + 1 + i <= Len(cmsg) THEN cmsg[pin + 1 + i] ELSE 0]
    BY DEF BytesAt
  <2> HIDE DEF bytes
  <2> QED BY <1>2, <2>1, <2>2
<1> HIDE DEF bytes
<1>6. PICK v : Values(bytes, v)
  BY <1>5, ValueOf
<1>7. Value(bytes) \in Nat
  BY <1>2, <1>5, <1>6 DEF Values
<1> QED BY <1>1, <1>2, <1>4, <1>7 DEF size

\* Reading a cyphered text part by part.
LEMMA PartsRead ==
  ASSUME NEW a \in Seq(Byte), NEW b \in Seq(Byte), NEW c \in Seq(Byte),
         Len(a) % Base = Len(a), Len(b) % Base = Len(b), Parts(cmsg, a, b, c)
  PROVE  /\ pin = 0 => Poppable /\ cmsg[pin + 1] = Len(a) /\ Popped = Value(a)
         /\ pin = 1 + Len(a) => Poppable /\ cmsg[pin + 1] = Len(b) /\ Popped = Value(b)
         /\ pin = 2 + Len(a) + Len(b) => Left = Len(c) /\ BytesAt(pin, Left) = c
<1>1. Len(a) \in Nat /\ Len(b) \in Nat /\ Len(c) \in Nat
      /\ Len(cmsg) = 2 + Len(a) + Len(b) + Len(c)
  BY DEF Parts
<1>2. ASSUME pin = 0 PROVE Poppable /\ cmsg[pin + 1] = Len(a) /\ Popped = Value(a)
  <2>1. cmsg[pin + 1] = Len(a)
    BY <1>2 DEF Parts
  <2>2. Poppable
    BY <1>1, <1>2, <2>1 DEF Poppable, Left
  <2>3. BytesAt(1, Len(a)) = a
    <3>1. BytesAt(1, Len(a)) = [i \in 1..Len(a) |-> IF 1 + i <= Len(cmsg) THEN cmsg[1 + i] ELSE 0]
      BY DEF BytesAt
    <3>2. \A i \in 1..Len(a) : 1 + i <= Len(cmsg) /\ cmsg[1 + i] = a[i]
      BY <1>1 DEF Parts
    <3>3. a = [i \in 1..Len(a) |-> a[i]]
      OBVIOUS
    <3> QED BY <3>1, <3>2, <3>3
  <2>4. Popped = Value(BytesAt(1, Len(a)))
    BY <1>2, <2>1 DEF Popped
  <2> QED BY <2>1, <2>2, <2>3, <2>4
<1>3. ASSUME pin = 1 + Len(a) PROVE Poppable /\ cmsg[pin + 1] = Len(b) /\ Popped = Value(b)
  <2>0. pin + 1 = 2 + Len(a)
    BY <1>1, <1>3
  <2>1. cmsg[pin + 1] = Len(b)
    BY <2>0 DEF Parts
  <2>2. Poppable
    BY <1>1, <1>3, <2>1 DEF Poppable, Left
  <2>3. BytesAt(2 + Len(a), Len(b)) = b
    <3>1. BytesAt(2 + Len(a), Len(b)) =
            [i \in 1..Len(b) |-> IF 2 + Len(a) + i <= Len(cmsg) THEN cmsg[2 + Len(a) + i] ELSE 0]
      BY DEF BytesAt
    <3>2. \A i \in 1..Len(b) : 2 + Len(a) + i <= Len(cmsg) /\ cmsg[2 + Len(a) + i] = b[i]
      BY <1>1 DEF Parts
    <3>3. b = [i \in 1..Len(b) |-> b[i]]
      OBVIOUS
    <3> QED BY <3>1, <3>2, <3>3
  <2>4. Popped = Value(BytesAt(2 + Len(a), Len(b)))
    BY <2>0, <2>1 DEF Popped
  <2> QED BY <2>1, <2>2, <2>3, <2>4
<1>4. ASSUME pin = 2 + Len(a) + Len(b) PROVE Left = Len(c) /\ BytesAt(pin, Left) = c
  <2>1. Left = Len(c)
    BY <1>1, <1>4 DEF Left
  <2>2. BytesAt(pin, Len(c)) = [i \in 1..Len(c) |-> IF pin + i <= Len(cmsg) THEN cmsg[pin + i] ELSE 0]
    BY DEF BytesAt
  <2>3. \A i \in 1..Len(c) : pin + i <= Len(cmsg) /\ cmsg[pin + i] = c[i]
    BY <1>1, <1>4 DEF Parts
  <2>4. c = [i \in 1..Len(c) |-> c[i]]
    OBVIOUS
  <2> QED BY <2>1, <2>2, <2>3, <2>4
<1> QED BY <1>2, <1>3, <1>4

LEMMA OursTyped ==
  ASSUME CryptTypeOK, Ours
  PROVE  sent.text \in Texts /\ sent.key \in Block /\ sent.iv \in Block
BY DEF CryptTypeOK, Ours

\* Types, and how much has been consumed, whatever decrypt() is given.
LEMMA ConsumedKept ==
  ASSUME CryptTypeOK, Consumed, [Next]_vars
  PROVE  CryptTypeOK' /\ Consumed'
<1> USE CryptAssumption
<1> USE DEF CryptTypeOK, Consumed, ReadsWithin
<1>1. CASE Encrypt
  <2>1. PICK m \in Texts, key \in Block, iv \in Block :
          /\ sent' = [text |-> m, key |-> key, iv |-> iv]
          /\ cmsg' = Wire(m, key, iv)
    BY <1>1 DEF Encrypt
  <2>2. cmsg' \in Seq(Byte)
    BY <2>1, WireOf DEF Parts
  <2>3. sent' \in [text : Texts, key : Block, iv : Block]
    BY <2>1
  <2>4. pc = "start" /\ pc' = "key" /\ pin' = pin /\ caesk' = caesk /\ civ' = civ
    BY <1>1 DEF Encrypt
  <2>5. Len(cmsg') \in Nat
    BY <2>2
  <2> QED BY <2>2, <2>3, <2>4, <2>5
<1>2. CASE Receive
  <2>1. PICK n \in 0..MaxWire : cmsg' \in [1..n -> Byte]
    BY <1>2 DEF Receive, Upto
  <2>2. cmsg' \in Seq(Byte) /\ Len(cmsg') \in Nat
    BY <2>1
  <2>3. pc = "start" /\ pc' = "key" /\ sent' = sent /\ pin' = pin /\ caesk' = caesk /\ civ' = civ
    BY <1>2 DEF Receive
  <2> QED BY <2>2, <2>3
<1>3. CASE PopKey
  <2>1. CASE Poppable
    <3>1. /\ pc' = "vector" /\ sent' = sent /\ cmsg' = cmsg /\ civ' = civ
          /\ caesk' = Popped /\ pin' = pin + 1 + cmsg[pin + 1]
      BY <1>3, <2>1 DEF PopKey
    <3> QED BY <2>1, <3>1, PoppedTyped
  <2>2. CASE ~ Poppable
    BY <1>3, <2>2 DEF PopKey, Throw
  <2> QED BY <2>1, <2>2
<1>4. CASE PopVector
  <2>1. CASE Poppable
    <3>1. /\ pc' = "text" /\ sent' = sent /\ cmsg' = cmsg /\ caesk' = caesk
          /\ civ' = Popped /\ pin' = pin + 1 + cmsg[pin + 1]
      BY <1>4, <2>1 DEF PopVector
    <3> QED BY <2>1, <3>1, PoppedTyped
  <2>2. CASE ~ Poppable
    BY <1>4, <2>2 DEF PopVector, Throw
  <2> QED BY <2>1, <2>2
<1>5. CASE NothingToDecrypt
  BY <1>5 DEF NothingToDecrypt
<1>6. CASE DecryptFails
  BY <1>6 DEF DecryptFails, Throw
<1>7. CASE Decrypt
  BY <1>7 DEF Decrypt
<1>8. CASE UNCHANGED vars
  BY <1>8 DEF vars, Ours
<1> QED BY <1>1, <1>2, <1>3, <1>4, <1>5, <1>6, <1>7, <1>8 DEF Next

\* The same for a text that encrypt() made, which goes through every step.
LEMMA ReadsBackKept ==
  ASSUME CryptTypeOK, Consumed, Ours => ReadsBack(sent), LengthsFit, [Next]_vars, Ours'
  PROVE  ReadsBack(sent)'
<1> USE CryptAssumption
<1>1. CASE Encrypt
  <2>1. PICK m \in Texts, key \in Block, iv \in Block :
          /\ sent' = [text |-> m, key |-> key, iv |-> iv]
          /\ cmsg' = Wire(m, key, iv)
    BY <1>1 DEF Encrypt
  <2>2. pc' = "key"
    BY <1>1 DEF Encrypt
  <2> QED BY <2>1, <2>2 DEF ReadsBack, Ended
<1>2. CASE Receive
  <2>1. pc = "start" /\ sent' = sent
    BY <1>2 DEF Receive
  <2> QED BY <2>1 DEF Consumed, Ours
<1>3. ASSUME ~ Encrypt, ~ Receive PROVE ReadsBack(sent)'
  <2>1. sent' = sent /\ cmsg' = cmsg /\ Ours /\ ReadsBack(sent)
    <3>1. sent' = sent /\ cmsg' = cmsg
      BY <1>3 DEF Next, PopKey, PopVector, NothingToDecrypt, DecryptFails, Decrypt, Throw, vars
    <3> QED BY <3>1 DEF Ours
  <2> DEFINE m    == sent.text
             key  == sent.key
             iv   == sent.iv
             ckey == CypheredKey(sent)
             cvec == CypheredVector(sent)
             a    == Encoded(ckey)
             b    == Encoded(cvec)
             c    == CfbEncrypt(m, key, iv)
  <2>2. m \in Texts /\ key \in Block /\ iv \in Block
    BY <2>1, OursTyped
  <2>3. ckey \in 0..(N - 1) /\ cvec \in 0..(N - 1) /\ Parts(Wire(m, key, iv), a, b, c)
    BY <2>2, WireOf DEF CypheredKey, CypheredVector
  <2>4. c \in Seq(Byte) /\ Len(c) \in Nat \ {0}
    BY <2>2, TextTyped, CfbDecrypted
  <2> HIDE DEF ckey, cvec, c
  <2>5. /\ a \in Seq(Byte) /\ b \in Seq(Byte) /\ Value(a) = ckey /\ Value(b) = cvec
        /\ Len(a) \in Nat /\ Len(a) % Base = Len(a)
        /\ Len(b) \in Nat /\ Len(b) % Base = Len(b)
    <3>1. ckey \in Nat /\ cvec \in Nat
      BY <2>3
    <3> QED BY <2>3, <3>1, EncodedTyped, ValueOfEncoded, LengthKept
  <2> HIDE DEF a, b, m, key, iv
  <2>6. /\ cmsg = Wire(m, key, iv)
        /\ pc = "vector" => pin = 1 + Len(a) /\ caesk = ckey
        /\ pc = "text" => pin = 1 + Len(a) + 1 + Len(b) /\ caesk = ckey /\ civ = cvec
        /\ Ended /\ Fits(key) =>
             \/ pc = "thrown" /\ ~ Full(key)
             \/ /\ pc = "done"
                /\ \E v \in Block : (Full(iv) /\ Fits(iv) => v = iv) /\ msg = CfbDecrypt(c, key, v)
    BY <2>1 DEF ReadsBack, a, b, c, m, key, iv, ckey, cvec
  <2> DEFINE After ==
        /\ pc' = "vector" => pin' = 1 + Len(a) /\ caesk' = ckey
        /\ pc' = "text" => pin' = 1 + Len(a) + 1 + Len(b) /\ caesk' = ckey /\ civ' = cvec
        /\ pc' \in {"done", "thrown"} /\ Fits(key) =>
             \/ pc' = "thrown" /\ ~ Full(key)
             \/ /\ pc' = "done"
                /\ \E v \in Block : (Full(iv) /\ Fits(iv) => v = iv) /\ msg' = CfbDecrypt(c, key, v)
  <2>7. Parts(cmsg, a, b, c)
    BY <2>3, <2>6
  <2>8. /\ pin = 0 => Poppable /\ cmsg[pin + 1] = Len(a) /\ Popped = ckey
        /\ pin = 1 + Len(a) => Poppable /\ cmsg[pin + 1] = Len(b) /\ Popped = cvec
        /\ pin = 2 + Len(a) + Len(b) => Left = Len(c) /\ BytesAt(pin, Left) = c
    BY <2>4, <2>5, <2>7, PartsRead
  <2>9. After
    <3>1. CASE PopKey
      <4>1. pc = "key" /\ pin = 0
        BY <3>1 DEF PopKey, Consumed
      <4>2. pc' = "vector" /\ caesk' = Popped /\ pin' = pin + 1 + cmsg[pin + 1]
        BY <2>8, <3>1, <4>1 DEF PopKey
      <4> QED BY <2>5, <2>8, <4>1, <4>2
    <3>2. CASE PopVector
      <4>1. pc = "vector" /\ pin = 1 + Len(a) /\ caesk = ckey
        BY <2>6, <3>2 DEF PopVector
      <4>2. /\ pc' = "text" /\ civ' = Popped /\ pin' = pin + 1 + cmsg[pin + 1]
            /\ caesk' = caesk
        BY <2>8, <3>2, <4>1 DEF PopVector
      <4> QED BY <2>5, <2>8, <4>1, <4>2
    <3>3. ASSUME pc = "text"
          PROVE  /\ Left = Len(c) /\ BytesAt(pin, Left) = c
                 /\ caesk = ckey /\ civ = cvec /\ caesk < N /\ civ < N
                 /\ Full(key) /\ Fits(key) => InvByteBlock(caesk) = key
                 /\ Fits(key) /\ Len(InvByteBlock(caesk)) = BlockSize => InvByteBlock(caesk) = key
                 /\ Full(iv) /\ Fits(iv) => InvByteBlock(civ) = iv
      <4>1. pin = 2 + Len(a) + Len(b) /\ caesk = ckey /\ civ = cvec
        BY <2>5, <2>6, <3>3
      <4>2. /\ Full(key) /\ Fits(key) => InvByteBlock(ckey) = key
            /\ Fits(key) /\ Len(InvByteBlock(ckey)) = BlockSize => InvByteBlock(ckey) = key
        BY <2>2, InverseOf DEF ckey, CypheredKey, key
      <4>3. Full(iv) /\ Fits(iv) => InvByteBlock(cvec) = iv
        BY <2>2, InverseOf DEF cvec, CypheredVector, iv
      <4> QED BY <2>3, <2>8, <4>1, <4>2, <4>3
    <3>4. CASE NothingToDecrypt
      BY <2>4, <3>3, <3>4 DEF NothingToDecrypt
    <3>5. CASE DecryptFails
      <4>1. /\ pc = "text" /\ pc' = "thrown"
            /\ caesk >= N \/ civ >= N \/ Len(InvByteBlock(caesk)) # BlockSize
        BY <3>5 DEF DecryptFails, Throw
      <4>2. Len(key) = BlockSize
        BY <2>2, BlockTyped
      <4>3. caesk < N /\ civ < N /\ caesk \in Nat /\ civ \in Nat
        BY <3>3, <4>1 DEF CryptTypeOK
      <4>4. Len(InvByteBlock(caesk)) # BlockSize
        BY <4>1, <4>3
      <4>5. ~ (Full(key) /\ Fits(key))
        BY <3>3, <4>1, <4>2, <4>4
      <4> QED BY <4>1, <4>5
    <3>6. CASE Decrypt
      <4>1. pc = "text" /\ pc' = "done"
        BY <3>6 DEF Decrypt
      <4>2. PICK v \in VectorsRead(InvByteBlock(civ)) :
              msg' = CfbDecrypt(BytesAt(pin, Left), InvByteBlock(caesk), v)
        BY <3>6 DEF Decrypt
      <4>3. v \in Block
        BY <4>2 DEF VectorsRead
      <4>4. ASSUME Full(iv), Fits(iv) PROVE v = iv
        <5>1. InvByteBlock(civ) = iv /\ Len(iv) = BlockSize
          BY <2>2, <3>3, <4>1, <4>4, BlockTyped
        <5>2. \A i \in 1..BlockSize : v[i] = iv[i]
          BY <4>2, <5>1 DEF VectorsRead
        <5> QED BY <2>2, <4>3, <5>2 DEF Block
      <4>5. ASSUME Fits(key) PROVE msg' = CfbDecrypt(c, key, v)
        <5>1. Len(InvByteBlock(caesk)) = BlockSize
          BY <3>6 DEF Decrypt
        <5> QED BY <3>3, <4>1, <4>2, <4>5, <5>1
      <4> HIDE DEF a, b, c
      <4> QED BY <4>1, <4>3, <4>4, <4>5
    <3>7. CASE UNCHANGED vars
      BY <2>6, <3>7 DEF vars, Ended
    <3> QED BY <1>3, <3>1, <3>2, <3>4, <3>5, <3>6, <3>7 DEF Next
  <2> QED BY <2>1, <2>6, <2>9
          DEF ReadsBack, Ended, CypheredKey, CypheredVector, a, b, c, m, key, iv, ckey, cvec
<1> QED BY <1>1, <1>2, <1>3

-----------------------------------------------------------------------------
(* The theorems *)

\* CryptInv holds initially and every step of encrypt() and decrypt() keeps it.
THEOREM CryptInvariant == Spec => []CryptInv
<1>1. Init => CryptInv
  BY DEF Init, CryptInv, CryptTypeOK, Consumed, ReadsWithin, Ours, NoText
<1>2. CryptInv /\ [Next]_vars => CryptInv'
  <2> SUFFICES ASSUME CryptInv, [Next]_vars PROVE CryptInv'
    OBVIOUS
  <2>1. CryptTypeOK' /\ Consumed'
    BY ConsumedKept DEF CryptInv
  <2>2. ASSUME LengthsFit, Ours' PROVE ReadsBack(sent)'
    BY <2>2, ReadsBackKept DEF CryptInv
  <2>3. LengthsFit' = LengthsFit
    BY DEF LengthsFit, Weight
  <2> QED BY <2>1, <2>2, <2>3 DEF CryptInv
<1> QED BY <1>1, <1>2, PTL DEF Spec

\* Whatever text decrypt() is given, by whomever, it consumes no byte behind its
\* end: pop_size() and pop_integer() look before they move.
THEOREM NothingReadBehindTheEnd == Spec => []ReadsWithin
<1>1. CryptInv => ReadsWithin
  BY DEF CryptInv, Consumed
<1> QED BY <1>1, CryptInvariant, PTL

\* For every size of a byte, a block and a modulus, and for texts of every length:
\* what encrypt() made of a text is the text again after decrypt(), if neither the
\* key nor the vector begins with a zero byte, or exceeds the modulus.
THEOREM RoundTripHolds ==
  ASSUME LengthsFit
  PROVE  Spec => []RoundTripOfFullBlocks
<1>1. CryptInv => RoundTripOfFullBlocks
  <2> SUFFICES ASSUME CryptInv, Ended, Ours, Full(sent.key), Fits(sent.key),
                      Full(sent.iv), Fits(sent.iv)
               PROVE  pc = "done" /\ msg = sent.text
    BY DEF RoundTripOfFullBlocks
  <2>1. pc = "done" /\ msg = CfbDecrypt(CfbEncrypt(sent.text, sent.key, sent.iv), sent.key, sent.iv)
    BY DEF CryptInv, ReadsBack
  <2>2. sent.text \in Seq(Byte) /\ sent.key \in Block /\ sent.iv \in Block
    BY OursTyped, TextTyped DEF CryptInv
  <2>3. CfbDecrypt(CfbEncrypt(sent.text, sent.key, sent.iv), sent.key, sent.iv) = sent.text
    BY <2>2, CfbDecrypted
  <2> QED BY <2>1, <2>3
<1> QED BY <1>1, CryptInvariant, PTL

\* A key below the modulus is refused, or the text comes out right but for its
\* first block.  It is refused only if it begins with a zero byte.
LEMMA DecypheredOrRefused ==
  ASSUME LengthsFit, CryptInv, Ended, Ours, Fits(sent.key)
  PROVE  (pc = "thrown" /\ ~ Full(sent.key)) \/ RightBehindFirstBlock
<1> SUFFICES ASSUME ~ (pc = "thrown" /\ ~ Full(sent.key)) PROVE RightBehindFirstBlock
  OBVIOUS
<1> DEFINE m   == sent.text
           key == sent.key
           iv  == sent.iv
<1>1. m \in Seq(Byte) /\ key \in Block /\ iv \in Block
  BY OursTyped, TextTyped DEF CryptInv
<1>2. PICK v \in Block : msg = CfbDecrypt(CfbEncrypt(m, key, iv), key, v)
  BY DEF CryptInv, ReadsBack
<1> HIDE DEF m, key, iv
<1> DEFINE d == CfbDecrypt(CfbEncrypt(m, key, iv), key, v)
<1>3. Len(d) = Len(m) /\ \A i \in 1..Len(m) : i > BlockSize => d[i] = m[i]
  BY <1>1, CfbDecrypted
<1>4. msg = d
  BY <1>2
<1> HIDE DEF d
<1> QED BY <1>3, <1>4 DEF m, RightBehindFirstBlock

\* A vector that does not come back as it was spoils the first block of the text
\* and no byte behind it, and the text is as long as it was.
THEOREM DamageContained ==
  ASSUME LengthsFit
  PROVE  Spec => []DamageInFirstBlock
<1>1. CryptInv => DamageInFirstBlock
  BY DecypheredOrRefused DEF DamageInFirstBlock
<1> QED BY <1>1, CryptInvariant, PTL

\* No key below the modulus ever decyphers a text to another one, behind the first
\* block: the AES key that decrypt() gets back is the one that encrypt() drew, or
\* too short, so that AES throws.
THEOREM NeverAnotherText ==
  ASSUME LengthsFit
  PROVE  Spec => []RefusedOrRight
<1>1. CryptInv => RefusedOrRight
  BY DecypheredOrRefused DEF RefusedOrRight
<1> QED BY <1>1, CryptInvariant, PTL
=============================================================================
