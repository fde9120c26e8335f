-------------------------------- MODULE Mailbox --------------------------------
(***************************************************************************)
(* What chat promises to the personas a message is sent to, whatever       *)
(* statements routes/chat.go takes to keep it: the message waits for each  *)
(* of them until a fetch of its own takes it, and is kept until everyone   *)
(* has taken it.  Taken is not got: the answer that carries the message    *)
(* may never come, and then the receiver has lost it.                      *)
(*                                                                         *)
(* Exactly tells two promises apart: a receiver takes a message once, and  *)
(* gets it at most once; or it may find it again after it took it.         *)
(***************************************************************************)
CONSTANTS Messages, Personas, Exactly

VARIABLES
    stored,   \* the messages there are
    sent,     \* whom a stored message was sent to
    waiting,  \* whom it waits for
    taken,    \* who has taken it
    got       \* who has got it

vars == <<stored, sent, waiting, taken, got>>

Nobody == [m \in Messages |-> {}]

Init ==
    /\ stored = {}
    /\ sent = Nobody
    /\ waiting = Nobody
    /\ taken = Nobody
    /\ got = Nobody

Post(m) ==
    /\ m \notin stored
    /\ stored' = stored \cup {m}
    /\ \E S \in SUBSET Personas :
          /\ sent' = [sent EXCEPT ![m] = S]
          /\ waiting' = [waiting EXCEPT ![m] = S]
    /\ taken' = [taken EXCEPT ![m] = {}]
    /\ got' = [got EXCEPT ![m] = {}]

\* Whom m may wait for once p has taken it too.
LeftOver(m, p) ==
    IF Exactly THEN {waiting[m] \ {p}}
    ELSE {S \in SUBSET (sent[m] \ {p}) : sent[m] \ (taken[m] \cup {p}) \subseteq S}

\* A persona takes some of the messages that were sent to it, all at once.
Take(p) ==
    \E M \in SUBSET stored :
        /\ \A m \in M : p \in IF Exactly THEN waiting[m] ELSE sent[m]
        /\ taken' = [m \in Messages |->
                        IF m \in M THEN taken[m] \cup {p} ELSE taken[m]]
        /\ waiting' \in [Messages -> SUBSET Personas]
        /\ \A m \in Messages :
              waiting'[m] \in IF m \in M THEN LeftOver(m, p) ELSE {waiting[m]}
        /\ UNCHANGED <<stored, sent, got>>

\* A persona gets messages it has taken.
Get(p) ==
    \E M \in SUBSET stored :
        /\ \A m \in M : p \in taken[m] /\ (Exactly => p \notin got[m])
        /\ got' = [m \in Messages |->
                      IF m \in M THEN got[m] \cup {p} ELSE got[m]]
        /\ UNCHANGED <<stored, sent, waiting, taken>>

\* Messages that wait for nobody, because everybody has taken them, are removed.
Remove ==
    \E M \in SUBSET stored :
        /\ \A m \in M : waiting[m] = {} /\ sent[m] \subseteq taken[m]
        /\ stored' = stored \ M
        /\ sent' = [m \in Messages |-> IF m \in M THEN {} ELSE sent[m]]
        /\ taken' = [m \in Messages |-> IF m \in M THEN {} ELSE taken[m]]
        /\ got' = [m \in Messages |-> IF m \in M THEN {} ELSE got[m]]
        /\ UNCHANGED waiting

Next ==
    \/ \E m \in Messages : Post(m)
    \/ \E p \in Personas : Take(p) \/ Get(p)
    \/ Remove

Spec == Init /\ [][Next]_vars
=============================================================================
