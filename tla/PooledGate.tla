------------------------------ MODULE PooledGate ------------------------------
(***************************************************************************)
(* The request gate together with the connection pool of the API database  *)
(* (config/api_db.go): what a handler does while it holds the gate's mutex *)
(* is to ask the pool for connections, and nothing bounds the time it      *)
(* waits for one.                                                          *)
(*                                                                         *)
(* A handler runs statements and transactions one after the other; each    *)
(* takes a connection and gives it back.  Inside a transaction some        *)
(* handlers call ValidateMember (persona.auth.go), which queries the pool  *)
(* and not the transaction: they wait for a second connection with the     *)
(* first one in hand (persona_profile.go:247,                              *)
(* persona_background_media.go:94, 151, 209).  The goroutine that          *)
(* createMessage leaves behind takes connections as well, beside whatever  *)
(* handler runs then.                                                      *)
(*                                                                         *)
(* PepperGate's actions are those of PepperGate; here its handler is no    *)
(* longer one step that returns, and that it returns is to be shown.       *)
(***************************************************************************)
EXTENDS PepperGate, FiniteSets

CONSTANTS
    Jobs,          \* goroutines that can be left behind by handlers
    MaxOpen,       \* DB_MAX_OPEN_CONNS; 1000 if it is not set
    MaxStatements  \* bound: statements and transactions of one handler

\* Zero and less would mean no limit; with a single connection a handler that
\* asks for a second one waits for itself.
ASSUME PoolAssumption ==
    /\ MaxOpen \in Nat
    /\ MaxOpen >= 2
    /\ MaxStatements \in Nat
    /\ Requests \cap Jobs = {}

VARIABLES
    stage,  \* what a request's handler is doing
    left,   \* statements and transactions its handler still has to run
    job,    \* what a goroutine that was left behind is doing
    inUse   \* connections that are handed out: who holds it, and which one

poolVars == <<stage, left, job, inUse>>
pooledVars == <<vars, poolVars>>

Stages == {"between", "asking", "holding", "askingSecond", "both", "checked"}

PooledTypeOK ==
    /\ TypeOK
    /\ stage \in [Requests -> Stages]
    /\ left \in [Requests -> 0..MaxStatements]
    /\ job \in [Jobs -> {"none", "asking", "holding"}]
    /\ inUse \subseteq (Requests \cup Jobs) \X {1, 2}

PooledInit ==
    /\ Init
    /\ stage = [r \in Requests |-> "between"]
    /\ left = [r \in Requests |-> 0]
    /\ job = [j \in Jobs |-> "none"]
    /\ inUse = {}

-----------------------------------------------------------------------------
\* The pool hands out a connection if it has one left.
HasFree == Cardinality(inUse) < MaxOpen

Takes(who, which) ==
    /\ HasFree
    /\ inUse' = inUse \cup {<<who, which>>}

GivesBack(who, which) == inUse' = inUse \ {<<who, which>>}

Proceeds(r, from, to) ==
    /\ pc[r] = "handler"
    /\ stage[r] = from
    /\ stage' = [stage EXCEPT ![r] = to]
    /\ UNCHANGED vars

\* The gate lets a request in, and its handler begins.
StartHandler(r) ==
    /\ Accept(r)
    /\ \E n \in 0..MaxStatements : left' = [left EXCEPT ![r] = n]
    /\ UNCHANGED <<stage, job, inUse>>

\* A statement on config.DB, or the BEGIN of a transaction.
Ask(r) ==
    /\ Proceeds(r, "between", "asking")
    /\ left[r] > 0
    /\ UNCHANGED <<left, job, inUse>>

Take(r) ==
    /\ Proceeds(r, "asking", "holding")
    /\ Takes(r, 1)
    /\ UNCHANGED <<left, job>>

\* Inside the transaction: a query on config.DB instead of tx.
AskSecond(r) ==
    /\ Proceeds(r, "holding", "askingSecond")
    /\ UNCHANGED <<left, job, inUse>>

TakeSecond(r) ==
    /\ Proceeds(r, "askingSecond", "both")
    /\ Takes(r, 2)
    /\ UNCHANGED <<left, job>>

GiveSecondBack(r) ==
    /\ Proceeds(r, "both", "checked")
    /\ GivesBack(r, 2)
    /\ UNCHANGED <<left, job>>

\* The statement has its result, or the transaction is committed or rolled
\* back.  Mutant: a return that does neither.
GiveNothingBack(r) ==
    /\ Proceeds(r, "holding", "between") \/ Proceeds(r, "checked", "between")
    /\ left' = [left EXCEPT ![r] = @ - 1]
    /\ UNCHANGED <<job, inUse>>

GiveBack(r) ==
    /\ Proceeds(r, "holding", "between") \/ Proceeds(r, "checked", "between")
    /\ GivesBack(r, 1)
    /\ left' = [left EXCEPT ![r] = @ - 1]
    /\ UNCHANGED job

\* The handler leaves a goroutine behind that works on this pool.
LeaveJob(r, j) ==
    /\ Proceeds(r, "between", "between")
    /\ job[j] = "none"
    /\ job' = [job EXCEPT ![j] = "asking"]
    /\ UNCHANGED <<left, inUse>>

JobTakes(j) ==
    /\ job[j] = "asking"
    /\ Takes(j, 1)
    /\ job' = [job EXCEPT ![j] = "holding"]
    /\ UNCHANGED <<vars, stage, left>>

\* It goes on with the next statement, or ends.
JobGivesBack(j) ==
    /\ job[j] = "holding"
    /\ GivesBack(j, 1)
    /\ \E next \in {"asking", "none"} : job' = [job EXCEPT ![j] = next]
    /\ UNCHANGED <<vars, stage, left>>

FinishHandler(r) ==
    /\ HandlerReturns(r)
    /\ stage[r] = "between"
    /\ left[r] = 0
    /\ UNCHANGED poolVars

\* The connections of a process that dies are closed.
PooledRestart ==
    /\ Restart
    /\ stage' = [r \in Requests |-> "between"]
    /\ left' = [r \in Requests |-> 0]
    /\ job' = [j \in Jobs |-> "none"]
    /\ inUse' = {}

-----------------------------------------------------------------------------
\* Steps of a handler that wait for nobody, and those of the gate around it.
Works(r) ==
    \/ Ask(r) \/ AskSecond(r) \/ GiveSecondBack(r) \/ GiveBack(r)
    \/ FinishHandler(r)

AtGate(r) ==
    \/ RefuseBlocked(r) \/ PassBlacklist(r)
    \/ CountFailure(r) \/ Block(r)
    \/ Unlock(r)

PooledNext ==
    \/ \E r \in Requests :
          \/ (Arrive(r) \/ Lock(r) \/ AtGate(r)) /\ UNCHANGED poolVars
          \/ StartHandler(r)
          \/ Works(r) \/ Take(r) \/ TakeSecond(r)
          \/ \E j \in Jobs : LeaveJob(r, j)
    \/ \E j \in Jobs : JobTakes(j) \/ JobGivesBack(j)
    \/ Tick /\ UNCHANGED poolVars
    \/ PooledRestart

PooledSpec == PooledInit /\ [][PooledNext]_pooledVars

(***************************************************************************)
(* As in PepperGate for the mutex; the database answers every statement    *)
(* (weak fairness of what holds a connection); the pool hands a connection *)
(* that comes back to one of those who wait, picked at random, so that     *)
(* nobody is passed over for ever (strong fairness).                       *)
(***************************************************************************)
PooledFairness ==
    /\ \A r \in Requests :
          /\ SF_pooledVars(Lock(r) /\ UNCHANGED poolVars)
          /\ WF_pooledVars(AtGate(r) /\ UNCHANGED poolVars)
          /\ WF_pooledVars(StartHandler(r))
          /\ WF_pooledVars(Works(r))
          /\ SF_pooledVars(Take(r))
          /\ SF_pooledVars(TakeSecond(r))
    /\ \A j \in Jobs :
          /\ SF_pooledVars(JobTakes(j))
          /\ WF_pooledVars(JobGivesBack(j))

PooledFairSpec == PooledSpec /\ PooledFairness

-----------------------------------------------------------------------------
\* Those who wait for the pool.
Waiting ==
    {r \in Requests : stage[r] \in {"asking", "askingSecond"}}
        \cup {j \in Jobs : job[j] = "asking"}

\* Nobody waits for a connection while all of them are held by others who
\* wait: ValidateMember asks config.DB for a second connection inside its
\* caller's transaction (persona.auth.go:26), and it is the gate's mutex,
\* held over the whole handler, that keeps two such callers apart.
NoStandstill ==
    Waiting # {} => HasFree \/ \E c \in inUse : c[1] \notin Waiting

\* PepperGate takes for granted that a handler returns; handlers that work
\* through the pool are shown here to implement PepperGate with all of its
\* fairness: none of them keeps the mutex for ever (c.Next() of
\* admin.auth.go:85 and 91; a wait for a connection has no timeout,
\* api_db.go:40).
ImplementsGate == FairSpec
=============================================================================
