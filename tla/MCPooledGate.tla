----------------------------- MODULE MCPooledGate -----------------------------
(***************************************************************************)
(* TLC's instance of PooledGate, and through it of PepperGate and          *)
(* Obfuscation.                                                            *)
(***************************************************************************)
EXTENDS PooledGate, TLC

\* "a1", mixed with "bb" by each of the methods, and some that decode to
\* another pepper, to nothing, or by a method that does not exist.
Pepper == <<97, 49>>
Sent ==
    {Pepper, <<>>, <<49>>, <<97, 98>>}
        \cup {Append(Encoded(n, Pepper, <<98, 98>>), 48 + m) :
                 n \in Methods, m \in 0..9}

\* Every character that matters to a method, in every place.
Short == UNION {[1..n -> {Hash, 49, 65, 97}] : n \in 1..2}

\* What a client scrambles with a method decodes to its pepper by that method,
\* and by no other outcome of it.
ASSUME MethodsUndoEncoding ==
    \A n \in Methods, A \in Short, B \in Short :
        Suits(n, A, B) =>
            {C \in Short : DecodesTo(n, Encoded(n, A, B), C)} = {A}

\* Collected as the code does it, character by character.
Collected(mixed) == SelectSeq(mixed, LAMBDA c : IsUpper(c) \/ IsDigit(c))

\* Method 5 decodes to that, and to nothing if that is empty.
ASSUME MethodCollects ==
    \A mixed \in UNION {[1..n -> {Hash, 49, 65, 97}] : n \in 0..4} :
        LET c == Collected(mixed)
            lower == [i \in 1..Len(c) |-> ToLower(c[i])]
        IN  /\ Method5(mixed, lower) <=> c # <<>>
            /\ \A A \in Short : Method5(mixed, A) => A = lower
=============================================================================
