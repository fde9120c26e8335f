--------------------------- MODULE ObfuscationProofs ---------------------------
(***************************************************************************)
(* Proofs about Obfuscation, for peppers of any length.                    *)
(***************************************************************************)
EXTENDS Obfuscation, WellFoundedInduction, TLAPS

LEMMA AsFunction == ASSUME NEW s \in Strings PROVE s = [i \in 1..Len(s) |-> s[i]]
  BY DEF Strings

\* The length of an interleaving, and what stands at its places.
LEMMA Places ==
    ASSUME NEW s \in Strings, NEW t \in Strings, Len(s) = Len(t)
    PROVE  /\ Len(Interleaved(s, t)) = 2 * Len(s)
           /\ Half(Interleaved(s, t)) = Len(s)
           /\ IsEven(Interleaved(s, t))
           /\ OddPlaces(Interleaved(s, t)) = s
           /\ EvenPlaces(Interleaved(s, t)) = t
<1> DEFINE m == Interleaved(s, t)
<1>0. Len(s) \in Nat
  BY DEF Strings
<1>1. m \in Seq(Chars) /\ Len(m) = 2 * Len(s)
  <2>1. \A i \in 1..(2 * Len(s)) : m[i] \in Chars
    BY <1>0 DEF Interleaved, Strings
  <2>2. QED
    BY <1>0, <2>1 DEF Interleaved
<1>2. Half(m) = Len(s) /\ IsEven(m)
  BY <1>0, <1>1 DEF Half, IsEven
<1>3. ASSUME NEW i \in 1..Len(s) PROVE m[2 * i - 1] = s[i] /\ m[2 * i] = t[i]
  BY <1>0 DEF Interleaved
<1> HIDE DEF m
<1>4. OddPlaces(m) = s
  <2>1. OddPlaces(m) = [i \in 1..Len(s) |-> m[2 * i - 1]]
    BY <1>2 DEF OddPlaces
  <2>2. QED
    BY <1>3, <2>1, AsFunction
<1>5. EvenPlaces(m) = t
  <2>1. EvenPlaces(m) = [i \in 1..Len(s) |-> m[2 * i]]
    BY <1>2 DEF EvenPlaces
  <2>2. t = [i \in 1..Len(s) |-> t[i]]
    BY AsFunction
  <2>3. QED
    BY <1>3, <2>1, <2>2
<1>6. QED
  BY <1>1, <1>2, <1>4, <1>5 DEF m

\* Swapping the neighbours of an interleaving interleaves the other way round.
LEMMA Swapped ==
    ASSUME NEW s \in Strings, NEW t \in Strings, Len(s) = Len(t)
    PROVE  PairsSwapped(Interleaved(t, s)) = Interleaved(s, t)
<1>0. Len(s) \in Nat
  BY DEF Strings
<1>1. Len(Interleaved(t, s)) = 2 * Len(s)
  BY Places
<1>2. ASSUME NEW i \in 1..(2 * Len(s))
      PROVE  (IF i % 2 = 1 THEN Interleaved(t, s)[i + 1]
                           ELSE Interleaved(t, s)[i - 1])
               = Interleaved(s, t)[i]
  <2>1. CASE i % 2 = 1
    <3>1. /\ i + 1 \in 1..(2 * Len(s))
          /\ (i + 1) % 2 = 0
      BY <1>0, <2>1
    <3>2. Interleaved(t, s)[i + 1] = s[(i + 1) \div 2]
      BY <3>1 DEF Interleaved
    <3>3. Interleaved(s, t)[i] = s[(i + 1) \div 2]
      BY <2>1 DEF Interleaved
    <3>4. QED
      BY <2>1, <3>2, <3>3
  <2>2. CASE i % 2 # 1
    <3>1. /\ i - 1 \in 1..(2 * Len(s))
          /\ (i - 1) % 2 = 1
          /\ ((i - 1) + 1) \div 2 = i \div 2
      BY <1>0, <2>2
    <3>2. Interleaved(t, s)[i - 1] = t[i \div 2]
      BY <3>1 DEF Interleaved
    <3>3. Interleaved(s, t)[i] = t[i \div 2]
      BY <2>2 DEF Interleaved
    <3>4. QED
      BY <2>2, <3>2, <3>3
  <2>3. QED
    BY <2>1, <2>2
<1>3. PairsSwapped(Interleaved(t, s)) =
        [i \in 1..(2 * Len(s)) |-> Interleaved(s, t)[i]]
  BY <1>1, <1>2 DEF PairsSwapped
<1>4. QED
  BY <1>3 DEF Interleaved

LEMMA ReversedTwice ==
    ASSUME NEW s \in Strings
    PROVE  /\ Reversed(s) \in Strings
           /\ Len(Reversed(s)) = Len(s)
           /\ Reversed(Reversed(s)) = s
<1>0. Len(s) \in Nat /\ \A i \in 1..Len(s) : s[i] \in Chars
  BY DEF Strings
<1>1. \A i \in 1..Len(s) : Len(s) + 1 - i \in 1..Len(s)
  BY <1>0
<1>2. Reversed(s) \in Strings /\ Len(Reversed(s)) = Len(s)
  BY <1>0, <1>1 DEF Reversed, Strings
<1>3. \A i \in 1..Len(s) : Reversed(Reversed(s))[i] = s[i]
  BY <1>0, <1>1, <1>2 DEF Reversed
<1>4. Reversed(Reversed(s)) = s
  <2>1. Reversed(Reversed(s)) =
          [i \in 1..Len(s) |-> Reversed(Reversed(s))[i]]
    BY <1>2 DEF Reversed
  <2>2. QED
    BY <1>3, <2>1, AsFunction
<1>5. QED
  BY <1>2, <1>4

\* Both halves of a concatenation of two strings of the same length.
LEMMA Halves ==
    ASSUME NEW s \in Strings, NEW t \in Strings, Len(s) = Len(t)
    PROVE  /\ s \o t \in Strings
           /\ Len(s \o t) = 2 * Len(s)
           /\ IsEven(s \o t)
           /\ FirstHalf(s \o t) = s
           /\ SecondHalf(s \o t) = t
<1>1. s \o t \in Strings /\ Len(s \o t) = 2 * Len(s) /\ Len(s) \in Nat
  BY DEF Strings
<1>2. Half(s \o t) = Len(s) /\ IsEven(s \o t)
  BY <1>1 DEF Half, IsEven
<1>3. FirstHalf(s \o t) = s
  BY <1>1, <1>2 DEF FirstHalf, Strings
<1>4. SecondHalf(s \o t) = t
  BY <1>1, <1>2 DEF SecondHalf, Strings
<1>5. QED
  BY <1>1, <1>2, <1>3, <1>4

\* What a proof by induction comes down to.
LEMMA LeastNumber ==
    ASSUME NEW T \in SUBSET Nat, T # {}
    PROVE  \E x \in T : \A y \in T : x <= y
<1> DEFINE R == {ss \in Nat \X Nat : ss[1] < ss[2]}
<1>1. IsWellFoundedOn(R, Nat)
  BY NatLessThanWellFounded DEF OpToRel
<1>2. \A x, y \in T : y < x => <<y, x>> \in R
  OBVIOUS
<1>3. PICK x \in T : \A y \in T : ~ (<<y, x>> \in R)
  <2> HIDE DEF R
  <2>1. QED
    BY <1>1, WFMin
<1> HIDE DEF R
<1>4. \A y \in T : ~ (y < x)
  BY <1>2, <1>3
<1>5. QED
  BY <1>4

\* All numbers of K, in their order.
Enumerates(at, n, K) ==
    /\ at \in [1..n -> K]
    /\ \A i, j \in 1..n : i < j => at[i] < at[j]
    /\ \A k \in K : \E i \in 1..n : at[i] = k

\* There is one order: two enumerations would differ in a first place, and the
\* smaller of the two numbers there would be missing in the other one.
LEMMA OneOrder ==
    ASSUME NEW K \in SUBSET Nat, NEW n \in Nat, NEW m \in Nat, NEW f, NEW g,
           Enumerates(f, n, K), Enumerates(g, m, K)
    PROVE  n = m /\ f = g
<1>1. ASSUME NEW p \in Nat, NEW q \in Nat, NEW d, NEW e,
             Enumerates(d, p, K), Enumerates(e, q, K),
             NEW i \in (1..p) \cap (1..q),
             \A j \in 1..(i - 1) : d[j] = e[j]
      PROVE  ~ (d[i] < e[i])
  <2>1. SUFFICES ASSUME d[i] < e[i] PROVE FALSE
    OBVIOUS
  <2>2. PICK j \in 1..q : e[j] = d[i]
    BY <1>1 DEF Enumerates
  <2>3. d[i] \in Nat /\ e[i] \in Nat /\ e[j] \in Nat
    BY <1>1 DEF Enumerates
  <2>4. CASE j < i
    <3>1. d[j] = e[j] /\ d[j] < d[i]
      BY <1>1, <2>4 DEF Enumerates
    <3>2. QED
      BY <2>2, <2>3, <3>1
  <2>5. CASE i <= j
    <3>1. i = j \/ i < j
      BY <2>5
    <3>2. i < j => e[i] < e[j]
      BY <1>1 DEF Enumerates
    <3>3. QED
      BY <2>1, <2>2, <2>3, <3>1, <3>2
  <2>6. QED
    BY <2>4, <2>5
<1>2. \A i \in (1..n) \cap (1..m) : f[i] = g[i]
  <2> DEFINE T == {i \in (1..n) \cap (1..m) : f[i] # g[i]}
  <2>1. SUFFICES ASSUME T # {} PROVE FALSE
    OBVIOUS
  <2>2. T \in SUBSET Nat
    OBVIOUS
  <2>3. PICK i \in T : \A j \in T : i <= j
    <3> HIDE DEF T
    <3>1. QED
      BY <2>1, <2>2, LeastNumber
  <2>4. \A j \in 1..(i - 1) : f[j] = g[j]
    BY <2>3
  <2>5. ~ (f[i] < g[i]) /\ ~ (g[i] < f[i])
    BY <1>1, <2>3, <2>4
  <2>6. f[i] \in Nat /\ g[i] \in Nat /\ f[i] # g[i]
    BY <2>3 DEF Enumerates
  <2>7. QED
    BY <2>5, <2>6
<1>3. ASSUME NEW p \in Nat, NEW q \in Nat, NEW d, NEW e,
             Enumerates(d, p, K), Enumerates(e, q, K),
             \A i \in (1..p) \cap (1..q) : d[i] = e[i]
      PROVE  ~ (p < q)
  <2>1. SUFFICES ASSUME p < q PROVE FALSE
    OBVIOUS
  <2>2. p + 1 \in 1..q
    BY <2>1
  <2>3. PICK i \in 1..p : d[i] = e[p + 1]
    BY <1>3, <2>2 DEF Enumerates
  <2>4. i \in 1..q /\ i < p + 1
    BY <2>1
  <2>5. e[i] < e[p + 1] /\ e[i] \in Nat
    BY <1>3, <2>2, <2>4 DEF Enumerates
  <2>6. d[i] = e[i]
    BY <1>3, <2>4
  <2>7. QED
    BY <2>3, <2>5, <2>6
<1>4. n = m
  BY <1>2, <1>3
<1>5. f = g
  BY <1>2, <1>4 DEF Enumerates
<1>6. QED
  BY <1>4, <1>5

\* A scrambled pepper leads to one pepper: no method can decode the same
\* header to the right one and to another one (obfuscation.go:12-162).
THEOREM OneOutcome ==
    ASSUME NEW n \in Methods, NEW mixed \in Strings, NEW A, NEW C,
           DecodesTo(n, mixed, A), DecodesTo(n, mixed, C)
    PROVE  A = C
<1>1. CASE n = 9
  <2>1. Len(mixed) \in Nat
    BY DEF Strings
  <2>2. Method9(mixed, A) /\ Method9(mixed, C)
    BY <1>1 DEF DecodesTo
  <2>3. PICK k \in 1..Len(mixed) :
           /\ \A i \in 1..Len(mixed) : mixed[i] = Hash <=> i = k
           /\ A = SubSeq(mixed, 1, k - 1)
    BY <2>2 DEF Method9
  <2>4. PICK l \in 1..Len(mixed) :
           /\ \A i \in 1..Len(mixed) : mixed[i] = Hash <=> i = l
           /\ C = SubSeq(mixed, 1, l - 1)
    BY <2>2 DEF Method9
  <2>5. k = l
    BY <2>3, <2>4
  <2>6. QED
    BY <2>3, <2>4, <2>5
<1>2. CASE n = 5
  <2>1. Method5(mixed, A) /\ Method5(mixed, C)
    BY <1>2 DEF DecodesTo
  <2>2. PICK p \in 1..Len(mixed) : \E at :
           /\ Enumerates(at, p, Kept(mixed))
           /\ A = [i \in 1..p |-> ToLower(mixed[at[i]])]
    BY <2>1 DEF Method5, Enumerates
  <2>3. PICK q \in 1..Len(mixed) : \E at :
           /\ Enumerates(at, q, Kept(mixed))
           /\ C = [i \in 1..q |-> ToLower(mixed[at[i]])]
    BY <2>1 DEF Method5, Enumerates
  <2>4. PICK f : /\ Enumerates(f, p, Kept(mixed))
                 /\ A = [i \in 1..p |-> ToLower(mixed[f[i]])]
    BY <2>2
  <2>5. PICK g : /\ Enumerates(g, q, Kept(mixed))
                 /\ C = [i \in 1..q |-> ToLower(mixed[g[i]])]
    BY <2>3
  <2>6. p \in Nat /\ q \in Nat /\ Kept(mixed) \in SUBSET Nat
    BY DEF Kept
  <2>7. p = q /\ f = g
    BY <2>4, <2>5, <2>6, OneOrder
  <2>8. QED
    BY <2>4, <2>5, <2>7
<1>3. CASE n \notin {5, 9}
  BY <1>3 DEF DecodesTo, Method1, Method2, Method3, Method4, Method6,
     Method7, Method8
<1>4. QED
  BY <1>1, <1>2, <1>3

LEMMA InterleavedString ==
    ASSUME NEW s \in Strings, NEW t \in Strings, Len(s) = Len(t), Len(s) >= 1
    PROVE  Interleaved(s, t) \in Strings /\ Len(Interleaved(s, t)) >= 2
<1>0. Len(s) \in Nat
  BY DEF Strings
<1>1. \A i \in 1..(2 * Len(s)) : Interleaved(s, t)[i] \in Chars
  BY <1>0 DEF Interleaved, Strings
<1>2. QED
  BY <1>0, <1>1 DEF Interleaved, Strings

LEMMA LetterCases ==
    /\ \A c \in Chars : ToUpper(c) \in Chars
    /\ \A c : c \in 97..122 \/ IsDigit(c) =>
              /\ IsUpper(ToUpper(c)) \/ IsDigit(ToUpper(c))
              /\ ToLower(ToUpper(c)) = c
    /\ \A c \in 97..122 : ~ (IsUpper(c) \/ IsDigit(c))
  BY DEF Chars, IsDigit, IsUpper, ToUpper, ToLower

LEMMA Uppercase ==
    ASSUME NEW s \in Strings
    PROVE  LET U == [i \in 1..Len(s) |-> ToUpper(s[i])]
           IN  U \in Strings /\ Len(U) = Len(s)
<1>1. ASSUME NEW i \in 1..Len(s) PROVE ToUpper(s[i]) \in Chars
  <2>1. s[i] \in Chars
    BY DEF Strings
  <2>2. QED
    BY <2>1, LetterCases
<1>2. Len(s) \in Nat
  BY DEF Strings
<1>3. QED
  BY <1>1, <1>2 DEF Strings

\* A mixed string is a string, twice as long as the pepper or longer.
LEMMA EncodedString ==
    ASSUME NEW n \in Methods, NEW A \in Strings, NEW B \in Strings,
           Suits(n, A, B)
    PROVE  Encoded(n, A, B) \in Strings /\ Len(Encoded(n, A, B)) >= 2
<1>0. /\ Len(A) = Len(B)
      /\ Len(A) \in Nat
      /\ Len(A) >= 1
  BY DEF Suits, Strings
<1>1. CASE n \in {1, 2, 3}
  BY <1>0, <1>1, InterleavedString DEF Encoded
<1>5. CASE n = 5
  <2> DEFINE U == [i \in 1..Len(A) |-> ToUpper(A[i])]
  <2>1. U \in Strings /\ Len(U) = Len(A)
    BY <1>0, Uppercase
  <2>2. Encoded(n, A, B) = Interleaved(U, B)
    BY <1>5 DEF Encoded
  <2>3. QED
    BY <1>0, <2>1, <2>2, InterleavedString
<1>4. CASE n = 4
  <2>1. Reversed(A) \in Strings /\ Len(Reversed(A)) = Len(B)
    BY <1>0, ReversedTwice
  <2>2. QED
    BY <1>0, <1>4, <2>1, Halves DEF Encoded
<1>6. CASE n \in {6, 7}
  BY <1>0, <1>6, Halves DEF Encoded
<1>8. CASE n = 8
  <2>1. A \o B \in Strings /\ Len(A \o B) >= 2
    BY <1>0, Halves
  <2>2. /\ Reversed(A \o B) \in Strings
        /\ Len(Reversed(A \o B)) = Len(A \o B)
    BY <2>1, ReversedTwice
  <2>3. Encoded(n, A, B) = Reversed(A \o B)
    BY <1>8 DEF Encoded
  <2>4. QED
    BY <2>1, <2>2, <2>3
<1>9. CASE n = 9
  BY <1>0, <1>9 DEF Encoded, Strings, Chars, Hash
<1>10. QED
  BY <1>1, <1>4, <1>5, <1>6, <1>8, <1>9 DEF Methods

\* What a client scrambles by a method decodes by that method to the pepper
\* it started from, whatever it mixes in (obfuscation.go:12-162).
THEOREM RoundTrip ==
    ASSUME NEW n \in Methods, NEW A \in Strings, NEW B \in Strings,
           Suits(n, A, B)
    PROVE  DecodesTo(n, Encoded(n, A, B), A)
<1>0. /\ Len(A) = Len(B)
      /\ Len(A) \in Nat
      /\ Len(A) >= 1
  BY DEF Suits, Strings
<1>1. CASE n = 1
  BY <1>0, <1>1, Places DEF DecodesTo, Encoded, Method1
<1>2. CASE n = 2
  BY <1>0, <1>2, Places DEF DecodesTo, Encoded, Method2
<1>3. CASE n = 3
  BY <1>0, <1>3, Places, Swapped DEF DecodesTo, Encoded, Method3
<1>4. CASE n = 4
  <2>1. /\ Reversed(A) \in Strings
        /\ Len(Reversed(A)) = Len(B)
        /\ Reversed(Reversed(A)) = A
    BY <1>0, ReversedTwice
  <2>2. IsEven(Reversed(A) \o B) /\ FirstHalf(Reversed(A) \o B) = Reversed(A)
    BY <2>1, Halves
  <2>3. QED
    BY <1>4, <2>1, <2>2 DEF DecodesTo, Encoded, Method4
<1>5. CASE n = 5
  <2> DEFINE U == [i \in 1..Len(A) |-> ToUpper(A[i])]
             m == Interleaved(U, B)
             at == [i \in 1..Len(A) |-> 2 * i - 1]
  <2>1. U \in Strings /\ Len(U) = Len(A)
    BY <1>0, Uppercase
  <2>2. m \in Strings /\ Len(m) = 2 * Len(A)
    BY <1>0, <2>1, InterleavedString, Places
  <2>3. ASSUME NEW i \in 1..Len(A)
        PROVE  m[2 * i - 1] = U[i] /\ m[2 * i] = B[i]
    <3>1. OddPlaces(m) = U /\ EvenPlaces(m) = B /\ Half(m) = Len(A)
      BY <1>0, <2>1, Places
    <3> HIDE DEF U, m
    <3>2. OddPlaces(m)[i] = m[2 * i - 1] /\ EvenPlaces(m)[i] = m[2 * i]
      BY <3>1 DEF OddPlaces, EvenPlaces
    <3>3. QED
      BY <3>1, <3>2
  <2>4. ASSUME NEW i \in 1..Len(A)
        PROVE  /\ IsUpper(U[i]) \/ IsDigit(U[i])
               /\ ToLower(U[i]) = A[i]
               /\ ~ (IsUpper(B[i]) \/ IsDigit(B[i]))
    <3>1. A[i] \in 97..122 \/ IsDigit(A[i])
      BY <1>5 DEF Suits
    <3>2. B[i] \in 97..122
      BY <1>0, <1>5 DEF Suits
    <3>3. U[i] = ToUpper(A[i])
      OBVIOUS
    <3> HIDE DEF U
    <3>4. QED
      BY <3>1, <3>2, <3>3, LetterCases
  <2> HIDE DEF U, m
  <2>5. ASSUME NEW k \in 1..Len(m)
        PROVE  k \in Kept(m) <=> \E i \in 1..Len(A) : k = 2 * i - 1
    <3>1. PICK i \in 1..Len(A) : k = 2 * i - 1 \/ k = 2 * i
      <4>1. k \in Nat /\ k >= 1 /\ k <= 2 * Len(A)
        BY <1>0, <2>2
      <4>2. (k + 1) \div 2 \in 1..Len(A)
            /\ (k = 2 * ((k + 1) \div 2) - 1 \/ k = 2 * ((k + 1) \div 2))
        BY <1>0, <4>1
      <4>3. QED
        BY <4>2
    <3>2. CASE k = 2 * i - 1
      BY <2>3, <2>4, <3>2 DEF Kept
    <3>3. CASE k = 2 * i
      <4>1. k \notin Kept(m)
        BY <2>3, <2>4, <3>3 DEF Kept
      <4>2. \A j \in 1..Len(A) : k # 2 * j - 1
        BY <1>0, <3>3
      <4>3. QED
        BY <4>1, <4>2
    <3>4. QED
      BY <3>1, <3>2, <3>3
  <2>6. at \in [1..Len(A) -> Kept(m)]
    <3>1. \A i \in 1..Len(A) : 2 * i - 1 \in 1..Len(m)
      BY <1>0, <2>2
    <3>2. QED
      BY <2>5, <3>1
  <2>7. \A k \in Kept(m) : \E i \in 1..Len(A) : at[i] = k
    BY <2>5 DEF Kept
  <2>8. A = [i \in 1..Len(A) |-> ToLower(m[at[i]])]
    <3>1. \A i \in 1..Len(A) : ToLower(m[at[i]]) = A[i]
      BY <2>3, <2>4
    <3>2. QED
      BY <3>1, AsFunction
  <2>9. /\ Len(A) \in 1..Len(m)
        /\ \A i, j \in 1..Len(A) : i < j => at[i] < at[j]
    BY <1>0, <2>2
  <2>10. Method5(m, A)
    <3> HIDE DEF at
    <3>1. QED
      BY <2>6, <2>7, <2>8, <2>9 DEF Method5
  <2>11. QED
    BY <1>5, <2>10 DEF DecodesTo, Encoded, U, m
<1>6. CASE n = 6
  <2>1. /\ Len(A \o B) >= 2
        /\ IsEven(A \o B)
        /\ FirstHalf(A \o B) = A
    BY <1>0, Halves
  <2>2. QED
    BY <1>6, <2>1 DEF DecodesTo, Encoded, Method6
<1>7. CASE n = 7
  <2>1. IsEven(B \o A) /\ SecondHalf(B \o A) = A
    BY <1>0, Halves
  <2>2. QED
    BY <1>7, <2>1 DEF DecodesTo, Encoded, Method7
<1>8. CASE n = 8
  <2>1. /\ A \o B \in Strings
        /\ Len(A \o B) = 2 * Len(A)
        /\ FirstHalf(A \o B) = A
    BY <1>0, Halves
  <2>2. /\ Len(Reversed(A \o B)) = Len(A \o B)
        /\ Reversed(Reversed(A \o B)) = A \o B
    BY <2>1, ReversedTwice
  <2>3. IsEven(Reversed(A \o B))
    BY <1>0, <2>1, <2>2 DEF IsEven
  <2>4. Encoded(n, A, B) = Reversed(A \o B)
    BY <1>8 DEF Encoded
  <2>5. Method8(Reversed(A \o B), A)
    BY <2>1, <2>2, <2>3 DEF Method8
  <2>6. QED
    BY <1>8, <2>4, <2>5 DEF DecodesTo
<1>9. CASE n = 9
  <2> DEFINE m == A \o <<Hash>> \o B
             k == Len(A) + 1
  <2>1. /\ m \in Seq(Chars)
        /\ Len(m) = 2 * Len(A) + 1
    <3>1. /\ A \in Seq(Chars)
          /\ B \in Seq(Chars)
          /\ <<Hash>> \in Seq(Chars)
          /\ Len(<<Hash>>) = 1
      BY DEF Strings, Chars, Hash
    <3>2. A \o <<Hash>> \in Seq(Chars) /\ Len(A \o <<Hash>>) = Len(A) + 1
      BY <3>1
    <3>3. QED
      BY <1>0, <3>1, <3>2
  <2>2. \A i \in 1..Len(m) :
           /\ i < k => m[i] = A[i]
           /\ i = k => m[i] = Hash
           /\ i > k => m[i] = B[i - k]
    BY <1>0, <2>1 DEF Strings, Hash, Chars
  <2>3. \A i \in 1..Len(m) : m[i] = Hash <=> i = k
    <3>1. \A i \in 1..Len(A) : A[i] # Hash /\ B[i] # Hash
      BY <1>9 DEF Suits
    <3>2. ASSUME NEW i \in 1..Len(m)
          PROVE  m[i] = Hash <=> i = k
      <4>0. /\ Len(A) \in Nat /\ k \in Nat
            /\ i \in Nat /\ i >= 1 /\ i <= 2 * Len(A) + 1
        BY <2>1 DEF Strings
      <4>1. CASE i < k
        <5>1. i \in 1..Len(A) /\ m[i] = A[i]
          BY <2>2, <4>0, <4>1
        <5>2. QED
          BY <3>1, <4>0, <4>1, <5>1
      <4>2. CASE i = k
        BY <2>2, <4>2
      <4>3. CASE i > k
        <5>1. i - k \in 1..Len(A) /\ m[i] = B[i - k]
          BY <2>2, <4>0, <4>3
        <5>2. QED
          BY <3>1, <4>0, <4>3, <5>1
      <4>4. QED
        BY <4>0, <4>1, <4>2, <4>3
    <3>3. QED
      BY <3>2
  <2>4. SubSeq(m, 1, k - 1) = A
    <3>1. SubSeq(m, 1, k - 1) = [i \in 1..Len(A) |-> m[i]]
      BY <1>0, <2>1
    <3>2. \A i \in 1..Len(A) : m[i] = A[i]
      BY <1>0, <2>1, <2>2
    <3>3. QED
      BY <3>1, <3>2, AsFunction
  <2>5. k \in 1..Len(m)
    BY <1>0, <2>1
  <2>6. Method9(m, A)
    BY <2>3, <2>4, <2>5 DEF Method9
  <2>7. QED
    BY <1>9, <2>6 DEF DecodesTo, Encoded
<1>10. QED
  BY <1>1, <1>2, <1>3, <1>4, <1>5, <1>6, <1>7, <1>8, <1>9 DEF Methods

\* DecodeWithMethod lets a number through for which there is no method, the
\* tenth, and would index the table out of its range; a header cannot ask for
\* it, since ParseObfValue takes one digit (obfuscation.go:178-197).
THEOREM IndexInRange ==
    ASSUME NEW request \in Strings,
           IsObfValue(request), Admitted(MethodOf(request))
    PROVE  MethodOf(request) \in Methods
<1>1. request[Len(request)] \in 48..57
  BY DEF IsObfValue, IsDigit
<1>2. QED
  BY <1>1 DEF Admitted, MethodOf, Methods

\* Seen from the gate: the header a client makes of the pepper, with the digit
\* of the method at its end, is accepted (admin.auth.go:50-75).
THEOREM ScrambledAccepted ==
    ASSUME NEW n \in Methods, NEW A \in Strings, NEW B \in Strings,
           Suits(n, A, B)
    PROVE  ParsePepper(Append(Encoded(n, A, B), 48 + n), A)
<1> DEFINE e == Encoded(n, A, B)
           request == Append(e, 48 + n)
<1>0. n \in 1..9
  BY DEF Methods
<1>1. /\ Len(e) \in Nat
      /\ Len(e) >= 1
      /\ Len(request) = Len(e) + 1
      /\ request[Len(request)] = 48 + n
      /\ SubSeq(request, 1, Len(request) - 1) = e
  <2> HIDE DEF e
  <2>1. e \in Seq(Chars) /\ Len(e) >= 2 /\ 48 + n \in Chars
    BY <1>0, EncodedString DEF e, Strings, Chars
  <2>2. Len(e) \in Nat /\ Len(e) >= 1
    BY <2>1
  <2>3. /\ request \in Seq(Chars)
        /\ Len(request) = Len(e) + 1
        /\ request[Len(request)] = 48 + n
        /\ \A i \in 1..Len(e) : request[i] = e[i]
    BY <2>1, <2>2
  <2>4. SubSeq(request, 1, Len(request) - 1) = [i \in 1..Len(e) |-> request[i]]
    BY <2>2, <2>3
  <2>5. QED
    BY <2>1, <2>2, <2>3, <2>4, AsFunction DEF Strings
<1>2. MethodOf(request) = n /\ Scrambled(request) = e
  BY <1>0, <1>1 DEF MethodOf, Scrambled
<1>3. IsObfValue(request) /\ Admitted(MethodOf(request))
  BY <1>0, <1>1, <1>2 DEF IsObfValue, Admitted, IsDigit
<1>4. DecodesTo(n, e, A)
  BY RoundTrip
<1>5. QED
  BY <1>2, <1>3, <1>4 DEF ParsePepper
=============================================================================
