------------------------------ MODULE PepperGate ------------------------------
(***************************************************************************)
(* The request gate every endpoint sits behind: the middleware             *)
(* ValidatePepper of routes/middleware/authority/admin.auth.go, in one     *)
(* server process.                                                         *)
(*                                                                         *)
(* Requests are the goroutines fiber runs, one per request.  They share    *)
(* two maps keyed by client (IP and User-Agent) and one mutex.  The mutex  *)
(* is released by a deferred call, hence only after c.Next() returned: the *)
(* handler of the endpoint runs inside the critical section.               *)
(*                                                                         *)
(* An entry of blacklist is the time of its expiry in the code; here it is *)
(* the time that is left until then, which Tick counts down.  0 is an      *)
(* entry that has expired and is still in the map.                         *)
(***************************************************************************)
EXTENDS Obfuscation

CONSTANTS
    Requests,     \* request goroutines that can be alive at the same time
    Clients,      \* client keys, "ip|user-agent"
    Peppers,      \* what requests send in X-Prodao-Pepper
    ProdaoPepper, \* PRODAO_PEPPER
    MaxFailures,  \* failures that lead to a block; 3 in the code
    BlockTime,    \* length of a block in ticks; one hour in the code
    NoRequest,    \* the mutex is free
    NotListed     \* no entry in the blacklist

ASSUME GateAssumption ==
    /\ MaxFailures \in Nat \ {0}
    /\ BlockTime \in Nat \ {0}
    /\ NoRequest \notin Requests
    /\ NotListed \notin Nat

VARIABLES
    mu,            \* the request that holds the mutex
    failedCounts,  \* failures of a client; 0 stands for no entry
    blacklist,     \* time left of a client's block, or NotListed
    pc,            \* where each request is
    client         \* the client key of a request

vars == <<mu, failedCounts, blacklist, pc, client>>

\* The headers checkPepper takes: the pepper of the server as it is, or
\* scrambled so that it decodes to it.
RightPeppers ==
    {p \in Peppers : p = ProdaoPepper \/ ParsePepper(p, ProdaoPepper)}

\* Positions inside the critical section, and all positions.
Critical == {"blacklist", "pepper", "handler", "unlock"}
Positions == {"idle", "lock"} \cup Critical

TypeOK ==
    /\ mu \in Requests \cup {NoRequest}
    /\ failedCounts \in [Clients -> 0..(MaxFailures - 1)]
    /\ blacklist \in [Clients -> (0..BlockTime) \cup {NotListed}]
    /\ pc \in [Requests -> Positions]
    /\ client \in [Requests -> Clients]

Init ==
    /\ mu = NoRequest
    /\ failedCounts = [c \in Clients |-> 0]
    /\ blacklist = [c \in Clients |-> NotListed]
    /\ pc = [r \in Requests |-> "idle"]
    /\ client \in [Requests -> Clients]

-----------------------------------------------------------------------------
Goto(r, position) == pc' = [pc EXCEPT ![r] = position]

\* The client's entry says it is still blocked: time.Now().Before(expiry).
Blocked(c) == blacklist[c] # NotListed /\ blacklist[c] > 0

\* A request arrives; its goroutine heads for the mutex.
Arrive(r) ==
    /\ pc[r] = "idle"
    /\ \E c \in Clients : client' = [client EXCEPT ![r] = c]
    /\ Goto(r, "lock")
    /\ UNCHANGED <<mu, failedCounts, blacklist>>

Lock(r) ==
    /\ pc[r] = "lock"
    /\ mu = NoRequest
    /\ mu' = r
    /\ Goto(r, "blacklist")
    /\ UNCHANGED <<failedCounts, blacklist, client>>

\* The client is blocked: 403, whatever the pepper.
RefuseBlocked(r) ==
    /\ pc[r] = "blacklist"
    /\ Blocked(client[r])
    /\ Goto(r, "unlock")
    /\ UNCHANGED <<mu, failedCounts, blacklist, client>>

\* There is no entry, or one that has expired and is removed now.
\* Mutants: the expired entry stays; the entry is not looked at.
PassKeepingEntry(r) ==
    /\ pc[r] = "blacklist"
    /\ ~ Blocked(client[r])
    /\ Goto(r, "pepper")
    /\ UNCHANGED <<mu, failedCounts, blacklist, client>>

PassUnchecked(r) ==
    /\ pc[r] = "blacklist"
    /\ blacklist' = [blacklist EXCEPT ![client[r]] = NotListed]
    /\ Goto(r, "pepper")
    /\ UNCHANGED <<mu, failedCounts, client>>

PassBlacklist(r) ==
    /\ pc[r] = "blacklist"
    /\ ~ Blocked(client[r])
    /\ blacklist' = [blacklist EXCEPT ![client[r]] = NotListed]
    /\ Goto(r, "pepper")
    /\ UNCHANGED <<mu, failedCounts, client>>

\* The request has sent a right pepper (its header is first looked at here):
\* the failures are reset and the rest of the chain runs, with the mutex still
\* held.
\* Mutant: the mutex is released before c.Next().
AcceptReleasing(r) ==
    /\ pc[r] = "pepper"
    /\ RightPeppers # {}
    /\ failedCounts' = [failedCounts EXCEPT ![client[r]] = 0]
    /\ mu' = NoRequest
    /\ Goto(r, "handler")
    /\ UNCHANGED <<blacklist, client>>

Accept(r) ==
    /\ pc[r] = "pepper"
    /\ RightPeppers # {}
    /\ failedCounts' = [failedCounts EXCEPT ![client[r]] = 0]
    /\ Goto(r, "handler")
    /\ UNCHANGED <<mu, blacklist, client>>

\* A wrong pepper that is not yet one too many: 403.
\* Mutant: the comparison is off by one.
CountOneMore(r) ==
    /\ pc[r] = "pepper"
    /\ Peppers \ RightPeppers # {}
    /\ failedCounts[client[r]] + 1 <= MaxFailures
    /\ failedCounts' = [failedCounts EXCEPT ![client[r]] = @ + 1]
    /\ Goto(r, "unlock")
    /\ UNCHANGED <<mu, blacklist, client>>

CountFailure(r) ==
    /\ pc[r] = "pepper"
    /\ Peppers \ RightPeppers # {}
    /\ failedCounts[client[r]] + 1 < MaxFailures
    /\ failedCounts' = [failedCounts EXCEPT ![client[r]] = @ + 1]
    /\ Goto(r, "unlock")
    /\ UNCHANGED <<mu, blacklist, client>>

\* The last failure a client is allowed: block it and forget the count.
\* Mutant: the count stays.
BlockKeepingCount(r) ==
    /\ pc[r] = "pepper"
    /\ Peppers \ RightPeppers # {}
    /\ failedCounts[client[r]] + 1 >= MaxFailures
    /\ blacklist' = [blacklist EXCEPT ![client[r]] = BlockTime]
    /\ Goto(r, "unlock")
    /\ UNCHANGED <<mu, failedCounts, client>>

Block(r) ==
    /\ pc[r] = "pepper"
    /\ Peppers \ RightPeppers # {}
    /\ failedCounts[client[r]] + 1 >= MaxFailures
    /\ blacklist' = [blacklist EXCEPT ![client[r]] = BlockTime]
    /\ failedCounts' = [failedCounts EXCEPT ![client[r]] = 0]
    /\ Goto(r, "unlock")
    /\ UNCHANGED <<mu, client>>

\* c.Next() returns, with whatever the handler answered.
HandlerReturns(r) ==
    /\ pc[r] = "handler"
    /\ Goto(r, "unlock")
    /\ UNCHANGED <<mu, failedCounts, blacklist, client>>

\* The deferred mu.Unlock(), then the response leaves.
\* Mutant: a return without the unlock.
ReturnLocked(r) ==
    /\ pc[r] = "unlock"
    /\ Goto(r, "idle")
    /\ UNCHANGED <<mu, failedCounts, blacklist, client>>

Unlock(r) ==
    /\ pc[r] = "unlock"
    /\ mu' = NoRequest
    /\ Goto(r, "idle")
    /\ UNCHANGED <<failedCounts, blacklist, client>>

\* The clock advances: every block that still runs gets shorter.
Tick ==
    /\ \E c \in Clients : Blocked(c)
    /\ blacklist' = [c \in Clients |->
                        IF Blocked(c) THEN blacklist[c] - 1 ELSE blacklist[c]]
    /\ UNCHANGED <<mu, failedCounts, pc, client>>

\* The process dies and comes back.  Everything the gate knows is memory of
\* the process, and the requests in flight are gone.
Restart ==
    /\ mu' = NoRequest
    /\ failedCounts' = [c \in Clients |-> 0]
    /\ blacklist' = [c \in Clients |-> NotListed]
    /\ pc' = [r \in Requests |-> "idle"]
    /\ UNCHANGED client

\* What the goroutine of r does between taking the mutex and giving it back,
\* the endpoint's handler apart.
Inside(r) ==
    \/ RefuseBlocked(r) \/ PassBlacklist(r)
    \/ Accept(r) \/ CountFailure(r) \/ Block(r)
    \/ Unlock(r)

Next ==
    \/ \E r \in Requests :
          Arrive(r) \/ Lock(r) \/ Inside(r) \/ HandlerReturns(r)
    \/ Tick
    \/ Restart

Spec == Init /\ [][Next]_vars

(***************************************************************************)
(* The Go scheduler runs every runnable goroutine; sync.Mutex hands the    *)
(* lock to the longest waiter once it has waited for a millisecond, so a   *)
(* request that keeps finding the mutex free in between does get it        *)
(* (strong fairness); that handlers return is an assumption on the         *)
(* database, which has its own timeouts.                                   *)
(***************************************************************************)
Fairness ==
    \A r \in Requests :
        /\ SF_vars(Lock(r))
        /\ WF_vars(Inside(r))
        /\ WF_vars(HandlerReturns(r))

FairSpec == Spec /\ Fairness

-----------------------------------------------------------------------------
\* The mutex is held by exactly the request that is inside: in particular no
\* two handlers of one process ever run at the same time, which is what the
\* read-then-write sequences of the handlers rely on (c.Next() is called
\* between mu.Lock and the deferred Unlock, admin.auth.go:33-34 and 85-91).
HandlersExclusive == \A r \in Requests : pc[r] \in Critical <=> mu = r

\* A client on the blacklist has no failures on record, so that it starts
\* again from zero when its block is lifted (the delete of
\* admin.auth.go:101, and the order of the checks in ValidatePepper).
ListedHasNoCount ==
    \A c \in Clients : blacklist[c] # NotListed => failedCounts[c] = 0

\* The decision of a request stays valid while it is carried out: a client
\* whose handler is running, or whose pepper is being compared, is not on
\* the blacklist, although other requests of the same client may fail
\* meanwhile (the check of admin.auth.go:37-45 is used at 81-108).
NoListedClientInside ==
    \A r \in Requests :
        pc[r] \in {"pepper", "handler"} => blacklist[client[r]] = NotListed

\* Every request is answered: no order of requests leaves the mutex taken.
EveryRequestAnswered ==
    \A r \in Requests : pc[r] = "lock" ~> pc[r] = "idle"

-----------------------------------------------------------------------------
\* What the gate promises to the clients, with decisions in one step.
Policy == INSTANCE LockoutPolicy WITH
    strikes <- failedCounts,
    block   <- [c \in Clients |-> IF Blocked(c) THEN blacklist[c] ELSE 0],
    serving <- {client[r] : r \in {q \in Requests : pc[q] = "handler"}}

\* The gate with its mutex, its two maps and its lazy removal of expired
\* entries implements the policy.
PolicySpec == Policy!Spec
=============================================================================
