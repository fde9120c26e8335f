------------------------------ MODULE Obfuscation ------------------------------
(***************************************************************************)
(* How a scrambled pepper is decoded:                                      *)
(* routes/middleware/authority/obfuscation.go.  A string is the sequence   *)
(* of the codes of its characters, all below 128, so that a character is a *)
(* byte: the code measures some strings in bytes and cuts them by          *)
(* characters, which is the same thing for these only.                     *)
(*                                                                         *)
(* A decodeMethodN that returns an error decodes to nothing: each method   *)
(* is the relation between a mixed string and the pepper it decodes to.    *)
(***************************************************************************)
EXTENDS Integers, Sequences

Chars == 0..127
Strings == Seq(Chars)

Hash == 35
IsDigit(c) == c \in 48..57
IsUpper(c) == c \in 65..90
ToLower(c) == IF IsUpper(c) THEN c + 32 ELSE c

IsEven(s) == Len(s) % 2 = 0
Half(s) == Len(s) \div 2
FirstHalf(s) == SubSeq(s, 1, Half(s))
SecondHalf(s) == SubSeq(s, Half(s) + 1, Len(s))
Reversed(s) == [i \in 1..Len(s) |-> s[Len(s) + 1 - i]]

\* The characters at the odd places of s, and those at the even places.
OddPlaces(s) == [i \in 1..Half(s) |-> s[2 * i - 1]]
EvenPlaces(s) == [i \in 1..Half(s) |-> s[2 * i]]

\* Every pair of neighbours in s swapped.
PairsSwapped(s) ==
    [i \in 1..Len(s) |-> IF i % 2 = 1 THEN s[i + 1] ELSE s[i - 1]]

Method1(mixed, A) == IsEven(mixed) /\ A = OddPlaces(mixed)
Method2(mixed, A) == IsEven(mixed) /\ A = EvenPlaces(mixed)
Method3(mixed, A) == IsEven(mixed) /\ A = OddPlaces(PairsSwapped(mixed))
Method4(mixed, A) == IsEven(mixed) /\ A = Reversed(FirstHalf(mixed))

\* Upper case and digits belong to the pepper, the rest does not.
Kept(mixed) == {i \in 1..Len(mixed) : IsUpper(mixed[i]) \/ IsDigit(mixed[i])}

\* They are collected in their order and turned into lower case; there must be
\* one.
Method5(mixed, A) ==
    \E n \in 1..Len(mixed) : \E at \in [1..n -> Kept(mixed)] :
        /\ \A i, j \in 1..n : i < j => at[i] < at[j]
        /\ \A k \in Kept(mixed) : \E i \in 1..n : at[i] = k
        /\ A = [i \in 1..n |-> ToLower(mixed[at[i]])]

Method6(mixed, A) == Len(mixed) >= 2 /\ IsEven(mixed) /\ A = FirstHalf(mixed)
Method7(mixed, A) == IsEven(mixed) /\ A = SecondHalf(mixed)
Method8(mixed, A) == IsEven(mixed) /\ A = FirstHalf(Reversed(mixed))

\* strings.Split finds two parts: there is one '#', and A stands before it.
Method9(mixed, A) ==
    \E k \in 1..Len(mixed) :
        /\ \A i \in 1..Len(mixed) : mixed[i] = Hash <=> i = k
        /\ A = SubSeq(mixed, 1, k - 1)

\* decodeFns has nine methods; there is no tenth.
Methods == 1..9

DecodesTo(n, mixed, A) ==
    \/ n = 1 /\ Method1(mixed, A)
    \/ n = 2 /\ Method2(mixed, A)
    \/ n = 3 /\ Method3(mixed, A)
    \/ n = 4 /\ Method4(mixed, A)
    \/ n = 5 /\ Method5(mixed, A)
    \/ n = 6 /\ Method6(mixed, A)
    \/ n = 7 /\ Method7(mixed, A)
    \/ n = 8 /\ Method8(mixed, A)
    \/ n = 9 /\ Method9(mixed, A)

-----------------------------------------------------------------------------
\* ParseObfValue: the last character is the number of the method.
IsObfValue(request) == Len(request) >= 2 /\ IsDigit(request[Len(request)])
MethodOf(request) == request[Len(request)] - 48
Scrambled(request) == SubSeq(request, 1, Len(request) - 1)

\* The numbers DecodeWithMethod lets through to decodeFns[methodNum-1].
Admitted(n) == 1 <= n /\ n <= 10

\* parsePepper: the header decodes to the pepper of the server.
ParsePepper(request, prodaoPepper) ==
    /\ IsObfValue(request)
    /\ Admitted(MethodOf(request))
    /\ DecodesTo(MethodOf(request), Scrambled(request), prodaoPepper)

-----------------------------------------------------------------------------
\* What a client sends, for each method: its pepper A mixed with as many
\* characters B, as the comments of the methods describe it.
Interleaved(s, t) ==
    [i \in 1..(2 * Len(s)) |-> IF i % 2 = 1 THEN s[(i + 1) \div 2]
                                            ELSE t[i \div 2]]

ToUpper(c) == IF c \in 97..122 THEN c - 32 ELSE c

Encoded(n, A, B) ==
    CASE n = 1 -> Interleaved(A, B)
      [] n \in {2, 3} -> Interleaved(B, A)
      [] n = 4 -> Reversed(A) \o B
      [] n = 5 -> Interleaved([i \in 1..Len(A) |-> ToUpper(A[i])], B)
      [] n = 6 -> A \o B
      [] n = 7 -> B \o A
      [] n = 8 -> Reversed(A \o B)
      [] n = 9 -> A \o <<Hash>> \o B

\* The strings a method can carry: method 5 tells A from B by letter case,
\* method 9 by the only '#'.
Suits(n, A, B) ==
    /\ A # <<>>
    /\ Len(A) = Len(B)
    /\ n = 5 => /\ \A i \in 1..Len(A) : A[i] \in 97..122 \/ IsDigit(A[i])
                /\ \A i \in 1..Len(B) : B[i] \in 97..122
    /\ n = 9 => \A i \in 1..Len(A) : A[i] # Hash /\ B[i] # Hash
=============================================================================
