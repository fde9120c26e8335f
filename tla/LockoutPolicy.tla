----------------------------- MODULE LockoutPolicy -----------------------------
(***************************************************************************)
(* What the gate of routes/middleware/authority/admin.auth.go promises,    *)
(* with every decision taken in one step: three failures in a row block a  *)
(* client for a fixed time, a success forgets earlier failures, a blocked  *)
(* client is not served, nothing but time (or a restart, which forgets     *)
(* everything) lifts a block, and one client is served at a time.          *)
(***************************************************************************)
EXTENDS Naturals

CONSTANTS Clients, MaxFailures, BlockTime

VARIABLES
    strikes,  \* failures of a client since its last success, block or restart
    block,    \* time left of a client's block, 0 when it is not blocked
    serving   \* the client whose handler runs: a set of at most one

vars == <<strikes, block, serving>>

Init ==
    /\ strikes = [c \in Clients |-> 0]
    /\ block = [c \in Clients |-> 0]
    /\ serving = {}

\* A client that is not blocked and sent the right pepper is served.
Serve(c) ==
    /\ serving = {}
    /\ block[c] = 0
    /\ strikes' = [strikes EXCEPT ![c] = 0]
    /\ serving' = {c}
    /\ UNCHANGED block

Finish ==
    /\ serving # {}
    /\ serving' = {}
    /\ UNCHANGED <<strikes, block>>

\* A wrong pepper, when the client may still fail.
Strike(c) ==
    /\ serving = {}
    /\ block[c] = 0
    /\ strikes[c] + 1 < MaxFailures
    /\ strikes' = [strikes EXCEPT ![c] = @ + 1]
    /\ UNCHANGED <<block, serving>>

\* A wrong pepper too many.
StrikeOut(c) ==
    /\ serving = {}
    /\ block[c] = 0
    /\ strikes[c] + 1 = MaxFailures
    /\ strikes' = [strikes EXCEPT ![c] = 0]
    /\ block' = [block EXCEPT ![c] = BlockTime]
    /\ UNCHANGED serving

\* Time passes for every block alike.
Tick ==
    /\ \E c \in Clients : block[c] > 0
    /\ block' = [c \in Clients |-> IF block[c] > 0 THEN block[c] - 1 ELSE 0]
    /\ UNCHANGED <<strikes, serving>>

\* A new process knows nothing of the old one's clients.
Restart == strikes' = [c \in Clients |-> 0] /\ block' = [c \in Clients |-> 0]
           /\ serving' = {}

Next ==
    \/ \E c \in Clients : Serve(c) \/ Strike(c) \/ StrikeOut(c)
    \/ Finish
    \/ Tick
    \/ Restart

Spec == Init /\ [][Next]_vars
=============================================================================
