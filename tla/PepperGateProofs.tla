--------------------------- MODULE PepperGateProofs ---------------------------
(***************************************************************************)
(* Proofs about PepperGate, for any number of requests and clients, any    *)
(* number of tolerated failures and any length of a block, and about       *)
(* PooledGate, for any number of goroutines left behind and any pool of at *)
(* least two connections.                                                  *)
(***************************************************************************)
EXTENDS PooledGate, TLAPS, FiniteSetTheorems

-----------------------------------------------------------------------------
\* Each step of the gate keeps the types.
LEMMA TypeStep == TypeOK /\ [Next]_vars => TypeOK'
<1> USE GateAssumption
<1> SUFFICES ASSUME TypeOK, [Next]_vars
             PROVE  TypeOK'
  OBVIOUS
<1> USE DEF TypeOK, Positions, Critical, Goto
<1>1. ASSUME NEW r \in Requests, Arrive(r) PROVE TypeOK'
  BY <1>1 DEF Arrive
<1>2. ASSUME NEW r \in Requests, Lock(r) PROVE TypeOK'
  BY <1>2 DEF Lock
<1>3. ASSUME NEW r \in Requests, RefuseBlocked(r) PROVE TypeOK'
  BY <1>3 DEF RefuseBlocked
<1>4. ASSUME NEW r \in Requests, PassBlacklist(r) PROVE TypeOK'
  BY <1>4 DEF PassBlacklist
<1>5. ASSUME NEW r \in Requests, Accept(r) PROVE TypeOK'
  BY <1>5 DEF Accept
<1>6. ASSUME NEW r \in Requests, CountFailure(r) PROVE TypeOK'
  BY <1>6 DEF CountFailure
<1>7. ASSUME NEW r \in Requests, Block(r) PROVE TypeOK'
  BY <1>7 DEF Block
<1>8. ASSUME NEW r \in Requests, HandlerReturns(r) PROVE TypeOK'
  BY <1>8 DEF HandlerReturns
<1>9. ASSUME NEW r \in Requests, Unlock(r) PROVE TypeOK'
  BY <1>9 DEF Unlock
<1>10. CASE Tick
  BY <1>10 DEF Tick, Blocked
<1>11. CASE Restart
  BY <1>11 DEF Restart
<1>12. CASE UNCHANGED vars
  BY <1>12 DEF vars
<1>13. QED
  BY <1>1, <1>2, <1>3, <1>4, <1>5, <1>6, <1>7, <1>8, <1>9, <1>10, <1>11,
     <1>12 DEF Next, Inside

\* The gate's maps, mutex and goroutines keep their types: in particular a
\* failure count never reaches MaxFailures (admin.auth.go:95-101).
THEOREM TypeCorrect == Spec => []TypeOK
<1> USE GateAssumption
<1>1. Init => TypeOK
  BY DEF Init, TypeOK, Positions
<1>2. QED
  BY <1>1, TypeStep, PTL DEF Spec

-----------------------------------------------------------------------------
\* Handlers of one process never overlap: whoever is between mu.Lock and the
\* deferred Unlock is the one holder of the mutex (admin.auth.go:33-34).
THEOREM Exclusion == Spec => []HandlersExclusive
<1> USE GateAssumption
<1>1. Init => HandlersExclusive
  BY DEF Init, HandlersExclusive, Critical
<1>2. TypeOK /\ HandlersExclusive /\ [Next]_vars => HandlersExclusive'
  <2> SUFFICES ASSUME TypeOK, HandlersExclusive, [Next]_vars
               PROVE  HandlersExclusive'
    OBVIOUS
  <2> USE DEF TypeOK, Critical, HandlersExclusive, Goto
  <2>1. ASSUME NEW r \in Requests, Arrive(r) PROVE HandlersExclusive'
    BY <2>1 DEF Arrive
  <2>2. ASSUME NEW r \in Requests, Lock(r) PROVE HandlersExclusive'
    BY <2>2 DEF Lock
  <2>3. ASSUME NEW r \in Requests, Unlock(r) PROVE HandlersExclusive'
    BY <2>3 DEF Unlock
  <2>4. ASSUME NEW r \in Requests,
               Inside(r) \/ HandlerReturns(r), ~ Unlock(r)
        PROVE  HandlersExclusive'
    BY <2>4 DEF Inside, RefuseBlocked, PassBlacklist, Accept, CountFailure,
                Block, HandlerReturns
  <2>5. CASE Tick \/ UNCHANGED vars
    BY <2>5 DEF Tick, vars
  <2>6. CASE Restart
    BY <2>6 DEF Restart
  <2>7. QED
    BY <2>1, <2>2, <2>3, <2>4, <2>5, <2>6 DEF Next, Inside
<1>3. QED
  BY <1>1, <1>2, TypeCorrect, PTL DEF Spec

-----------------------------------------------------------------------------
\* The verdict of a request is not overtaken: no client is listed while a
\* request of it is past the check of admin.auth.go:37-45, because a block
\* is only entered by a request that is inside, and no other one is.
THEOREM VerdictStands == Spec => []NoListedClientInside
<1> USE GateAssumption
<1>1. Init => NoListedClientInside
  BY DEF Init, NoListedClientInside
<1>2. TypeOK /\ HandlersExclusive /\ NoListedClientInside /\ [Next]_vars
        => NoListedClientInside'
  <2> SUFFICES ASSUME TypeOK, HandlersExclusive, NoListedClientInside,
                      [Next]_vars
               PROVE  NoListedClientInside'
    OBVIOUS
  <2> USE DEF TypeOK, Critical, HandlersExclusive, NoListedClientInside, Goto
  <2>1. ASSUME NEW r \in Requests, Arrive(r) PROVE NoListedClientInside'
    BY <2>1 DEF Arrive
  <2>2. ASSUME NEW r \in Requests, Lock(r) PROVE NoListedClientInside'
    BY <2>2 DEF Lock
  <2>3. ASSUME NEW r \in Requests, PassBlacklist(r)
        PROVE  NoListedClientInside'
    BY <2>3 DEF PassBlacklist
  <2>4. ASSUME NEW r \in Requests, Block(r) PROVE NoListedClientInside'
    BY <2>4 DEF Block
  <2>5. ASSUME NEW r \in Requests,
               RefuseBlocked(r) \/ CountFailure(r) \/ HandlerReturns(r)
                 \/ Unlock(r)
        PROVE  NoListedClientInside'
    BY <2>5 DEF RefuseBlocked, CountFailure, HandlerReturns, Unlock
  <2>6. ASSUME NEW r \in Requests, Accept(r) PROVE NoListedClientInside'
    BY <2>6 DEF Accept
  <2>7. CASE Tick
    BY <2>7 DEF Tick, Blocked
  <2>8. CASE Restart
    BY <2>8 DEF Restart
  <2>9. CASE UNCHANGED vars
    BY <2>9 DEF vars
  <2>10. QED
    BY <2>1, <2>2, <2>3, <2>4, <2>5, <2>6, <2>7, <2>8, <2>9
       DEF Next, Inside
<1>3. QED
  BY <1>1, <1>2, TypeCorrect, Exclusion, PTL DEF Spec

\* A client on the blacklist has no failures on record: a failure is counted
\* only by a request that has passed the blacklist, and the request that
\* enters a block forgets the count in the same critical section
\* (admin.auth.go:95-101).
THEOREM CountsStartAgain == Spec => []ListedHasNoCount
<1> USE GateAssumption
<1>1. Init => ListedHasNoCount
  BY DEF Init, ListedHasNoCount
<1>2. TypeOK /\ NoListedClientInside /\ ListedHasNoCount /\ [Next]_vars
        => ListedHasNoCount'
  <2> SUFFICES ASSUME TypeOK, NoListedClientInside, ListedHasNoCount,
                      [Next]_vars
               PROVE  ListedHasNoCount'
    OBVIOUS
  <2> USE DEF TypeOK, NoListedClientInside, ListedHasNoCount
  <2>1. ASSUME NEW r \in Requests,
               Arrive(r) \/ Lock(r) \/ RefuseBlocked(r) \/ HandlerReturns(r)
                 \/ Unlock(r)
        PROVE  ListedHasNoCount'
    BY <2>1 DEF Arrive, Lock, RefuseBlocked, HandlerReturns, Unlock
  <2>2. ASSUME NEW r \in Requests, PassBlacklist(r) PROVE ListedHasNoCount'
    BY <2>2 DEF PassBlacklist
  <2>3. ASSUME NEW r \in Requests, Accept(r) PROVE ListedHasNoCount'
    BY <2>3 DEF Accept
  <2>4. ASSUME NEW r \in Requests, CountFailure(r) PROVE ListedHasNoCount'
    BY <2>4 DEF CountFailure
  <2>5. ASSUME NEW r \in Requests, Block(r) PROVE ListedHasNoCount'
    BY <2>5 DEF Block
  <2>6. CASE Tick
    BY <2>6 DEF Tick, Blocked
  <2>7. CASE Restart
    BY <2>7 DEF Restart
  <2>8. CASE UNCHANGED vars
    BY <2>8 DEF vars
  <2>9. QED
    BY <2>1, <2>2, <2>3, <2>4, <2>5, <2>6, <2>7, <2>8 DEF Next, Inside
<1>3. QED
  BY <1>1, <1>2, TypeCorrect, VerdictStands, PTL DEF Spec

-----------------------------------------------------------------------------
\* The client whose handler runs, as the policy sees it.
Serving == {client[r] : r \in {q \in Requests : pc[q] = "handler"}}

\* The blocks that still run, as the policy sees them.
Remaining == [c \in Clients |-> IF Blocked(c) THEN blacklist[c] ELSE 0]

\* Nobody is served while another request is inside.
LEMMA NobodyServed ==
    ASSUME HandlersExclusive, NEW r \in Requests, pc[r] \in Critical,
           pc[r] # "handler"
    PROVE  Serving = {}
BY DEF HandlersExclusive, Serving, Critical

\* One is served when its request is in the handler.
LEMMA OneServed ==
    ASSUME HandlersExclusive, NEW r \in Requests, pc[r] = "handler"
    PROVE  Serving = {client[r]}
BY DEF HandlersExclusive, Serving, Critical

\* Every step of the gate is a step of the policy or invisible to it.
LEMMA StepSimulation ==
    ASSUME TypeOK, HandlersExclusive, HandlersExclusive', NoListedClientInside,
           [Next]_vars
    PROVE  [Policy!Next]_(Policy!vars)
<1> USE GateAssumption DEF TypeOK, Goto
<1>0. (UNCHANGED <<failedCounts, Remaining, Serving>>)
        => UNCHANGED Policy!vars
  BY DEF Policy!vars, Remaining, Serving
<1>1. ASSUME NEW r \in Requests,
             Arrive(r) \/ Lock(r) \/ RefuseBlocked(r) \/ Unlock(r)
      PROVE  UNCHANGED <<failedCounts, Remaining, Serving>>
  <2>1. UNCHANGED <<failedCounts, blacklist>>
    BY <1>1 DEF Arrive, Lock, RefuseBlocked, Unlock
  <2>2. UNCHANGED Remaining
    BY <2>1 DEF Remaining, Blocked
  <2>3. UNCHANGED Serving
    <3>1. \A q \in Requests : pc'[q] = "handler" <=> pc[q] = "handler"
      BY <1>1 DEF Arrive, Lock, RefuseBlocked, Unlock
    <3>2. \A q \in Requests : pc[q] = "handler" => client'[q] = client[q]
      BY <1>1 DEF Arrive, Lock, RefuseBlocked, Unlock
    <3>3. QED
      BY <3>1, <3>2 DEF Serving
  <2>4. QED
    BY <2>1, <2>2, <2>3
<1>2. ASSUME NEW r \in Requests, PassBlacklist(r)
      PROVE  UNCHANGED <<failedCounts, Remaining, Serving>>
  <2>1. UNCHANGED Remaining
    BY <1>2 DEF PassBlacklist, Remaining, Blocked
  <2>2. UNCHANGED Serving
    BY <1>2 DEF PassBlacklist, Serving
  <2>3. QED
    BY <1>2, <2>1, <2>2 DEF PassBlacklist
<1>3. ASSUME NEW r \in Requests, NEW c \in Clients, c = client[r],
             Accept(r)
      PROVE  Policy!Serve(c)
  <2>1. Serving = {}
    BY <1>3, NobodyServed DEF Accept, Critical
  <2>2. Serving' = {c}
    <3>1. pc'[r] = "handler" /\ client' = client
      BY <1>3 DEF Accept
    <3>2. \A q \in Requests : pc'[q] = "handler" => q = r
      BY <3>1 DEF HandlersExclusive, Critical
    <3>3. QED
      BY <1>3, <3>1, <3>2 DEF Serving
  <2>3. Remaining[c] = 0 /\ UNCHANGED Remaining
    BY <1>3 DEF Accept, NoListedClientInside, Remaining, Blocked
  <2>4. QED
    BY <1>3, <2>1, <2>2, <2>3
       DEF Accept, Policy!Serve, Serving, Remaining
<1>4. ASSUME NEW r \in Requests, NEW c \in Clients, c = client[r],
             CountFailure(r)
      PROVE  Policy!Strike(c)
  <2>1. Serving = {} /\ UNCHANGED Serving
    BY <1>4, NobodyServed DEF CountFailure, Critical, Serving
  <2>2. Remaining[c] = 0 /\ UNCHANGED Remaining
    BY <1>4 DEF CountFailure, NoListedClientInside, Remaining, Blocked
  <2>3. QED
    BY <1>4, <2>1, <2>2 DEF CountFailure, Policy!Strike, Serving, Remaining
<1>5. ASSUME NEW r \in Requests, NEW c \in Clients, c = client[r],
             Block(r)
      PROVE  Policy!StrikeOut(c)
  <2>1. Serving = {} /\ UNCHANGED Serving
    BY <1>5, NobodyServed DEF Block, Critical, Serving
  <2>2. Remaining[c] = 0
    BY <1>5 DEF Block, NoListedClientInside, Remaining, Blocked
  <2>3. Remaining' = [Remaining EXCEPT ![c] = BlockTime]
    <3>1. \A d \in Clients :
             blacklist'[d] = IF d = c THEN BlockTime ELSE blacklist[d]
      BY <1>5 DEF Block
    <3>2. BlockTime # NotListed /\ BlockTime > 0
      OBVIOUS
    <3>3. \A d \in Clients :
             Remaining'[d] = IF d = c THEN BlockTime ELSE Remaining[d]
      BY <3>1, <3>2 DEF Remaining, Blocked
    <3>4. QED
      BY <3>3 DEF Remaining
  <2>4. QED
    BY <1>5, <2>1, <2>2, <2>3 DEF Block, Policy!StrikeOut, Serving, Remaining
<1>6. ASSUME NEW r \in Requests, HandlerReturns(r)
      PROVE  Policy!Finish
  <2>1. Serving # {}
    BY <1>6, OneServed DEF HandlerReturns
  <2>2. Serving' = {}
    BY <1>6 DEF HandlerReturns, Serving, HandlersExclusive, Critical
  <2>3. UNCHANGED Remaining
    BY <1>6 DEF HandlerReturns, Remaining, Blocked
  <2>4. QED
    BY <1>6, <2>1, <2>2, <2>3
       DEF HandlerReturns, Policy!Finish, Serving, Remaining
<1>7. ASSUME Tick
      PROVE  Policy!Tick
  <2>1. UNCHANGED Serving
    BY <1>7 DEF Tick, Serving
  <2>2. \E c \in Clients : Remaining[c] > 0
    BY <1>7 DEF Tick, Remaining, Blocked
  <2>3. Remaining' = [c \in Clients |->
                        IF Remaining[c] > 0 THEN Remaining[c] - 1 ELSE 0]
    BY <1>7 DEF Tick, Remaining, Blocked
  <2>4. QED
    BY <1>7, <2>1, <2>2, <2>3 DEF Tick, Policy!Tick, Serving, Remaining
<1>8. ASSUME Restart
      PROVE  Policy!Restart
  <2>1. Serving' = {}
    BY <1>8 DEF Restart, Serving
  <2>2. Remaining' = [c \in Clients |-> 0]
    BY <1>8 DEF Restart, Remaining, Blocked
  <2>3. QED
    BY <1>8, <2>1, <2>2 DEF Restart, Policy!Restart, Serving, Remaining
<1>9. ASSUME UNCHANGED vars
      PROVE  UNCHANGED <<failedCounts, Remaining, Serving>>
  BY <1>9 DEF vars, Remaining, Serving, Blocked
<1>10. Policy!Next \/ UNCHANGED <<failedCounts, Remaining, Serving>>
  <2>1. ASSUME NEW r \in Requests,
               Arrive(r) \/ Lock(r) \/ Inside(r) \/ HandlerReturns(r)
        PROVE  Policy!Next \/ UNCHANGED <<failedCounts, Remaining, Serving>>
    <3>1. PICK c \in Clients : c = client[r]
      OBVIOUS
    <3>2. CASE Arrive(r) \/ Lock(r) \/ RefuseBlocked(r) \/ Unlock(r)
      BY <3>2, <1>1
    <3>3. CASE PassBlacklist(r)
      BY <3>3, <1>2
    <3>4. CASE Accept(r)
      BY <3>1, <3>4, <1>3 DEF Policy!Next
    <3>5. CASE CountFailure(r)
      BY <3>1, <3>5, <1>4 DEF Policy!Next
    <3>6. CASE Block(r)
      BY <3>1, <3>6, <1>5 DEF Policy!Next
    <3>7. CASE HandlerReturns(r)
      BY <3>7, <1>6 DEF Policy!Next
    <3>8. QED
      BY <2>1, <3>2, <3>3, <3>4, <3>5, <3>6, <3>7 DEF Inside
  <2>2. Tick \/ Restart => Policy!Next
    BY <1>7, <1>8 DEF Policy!Next
  <2>3. CASE UNCHANGED vars
    BY <1>9, <2>3
  <2>4. CASE Next
    BY <2>1, <2>2, <2>4 DEF Next
  <2>5. QED
    BY <2>3, <2>4
<1>11. QED
  BY <1>0, <1>10

\* The gate implements the policy: mutex, lazy removal of expired entries and
\* the order of the two checks are invisible to the clients.
THEOREM Refinement == Spec => PolicySpec
<1>1. Init => Policy!Init
  BY DEF Init, Policy!Init, Blocked
<1>2. TypeOK /\ HandlersExclusive /\ HandlersExclusive' /\ NoListedClientInside
        /\ [Next]_vars => [Policy!Next]_(Policy!vars)
  BY StepSimulation
<1>3. QED
  BY <1>1, <1>2, TypeCorrect, Exclusion, VerdictStands, PTL
     DEF Spec, PolicySpec, Policy!Spec

-----------------------------------------------------------------------------
(* The gate with its pool *)

\* Every step of a handler is a step of the gate, or the gate stands still.
LEMMA PooledStep == PooledNext => [Next]_vars
<1> SUFFICES ASSUME PooledNext PROVE [Next]_vars
  OBVIOUS
<1>1. ASSUME NEW r \in Requests, Arrive(r) \/ Lock(r) \/ AtGate(r)
      PROVE  Next
  BY <1>1 DEF Next, Inside, AtGate
<1>2. ASSUME NEW r \in Requests, StartHandler(r) PROVE Next
  BY <1>2 DEF Next, Inside, StartHandler
<1>3. ASSUME NEW r \in Requests, FinishHandler(r) PROVE Next
  BY <1>3 DEF Next, FinishHandler
<1>4. ASSUME NEW r \in Requests,
             \/ Ask(r) \/ AskSecond(r) \/ GiveSecondBack(r) \/ GiveBack(r)
             \/ Take(r) \/ TakeSecond(r) \/ \E j \in Jobs : LeaveJob(r, j)
      PROVE  UNCHANGED vars
  BY <1>4 DEF Ask, AskSecond, GiveSecondBack, GiveBack, Take, TakeSecond,
              LeaveJob, Proceeds
<1>5. ASSUME NEW j \in Jobs, JobTakes(j) \/ JobGivesBack(j)
      PROVE  UNCHANGED vars
  BY <1>5 DEF JobTakes, JobGivesBack, vars
<1>6. CASE Tick
  BY <1>6 DEF Next
<1>7. CASE PooledRestart
  BY <1>7 DEF Next, PooledRestart
<1>8. QED
  BY <1>1, <1>2, <1>3, <1>4, <1>5, <1>6, <1>7 DEF PooledNext, Works

\* A gate whose handlers work through the pool is still the gate of
\* PepperGate: what is proved of it holds with the pool as well.
THEOREM PooledIsGate == PooledSpec => Spec
<1>1. PooledInit => Init
  BY DEF PooledInit
<1>2. [PooledNext]_pooledVars => [Next]_vars
  BY PooledStep DEF pooledVars
<1>3. QED
  BY <1>1, <1>2, PTL DEF PooledSpec, Spec

-----------------------------------------------------------------------------
\* Only a request whose handler runs, and is not yet through with its
\* statements, has anything to do with the pool.
OnlyHandlersWork ==
    \A r \in Requests :
        stage[r] # "between" => pc[r] = "handler" /\ left[r] > 0

\* The connections in use are those of the handlers and goroutines that have
\* got one, and each holder has as many as it thinks.
PoolAgrees ==
    /\ \A r \in Requests :
          /\ <<r, 1>> \in inUse
               <=> stage[r] \in {"holding", "askingSecond", "both", "checked"}
          /\ <<r, 2>> \in inUse <=> stage[r] = "both"
    /\ \A j \in Jobs :
          /\ <<j, 1>> \in inUse <=> job[j] = "holding"
          /\ <<j, 2>> \notin inUse

PoolInv == PooledTypeOK /\ OnlyHandlersWork /\ PoolAgrees

LEMMA PoolInvInit == PooledInit => PoolInv
<1> USE GateAssumption, PoolAssumption
<1> SUFFICES ASSUME PooledInit PROVE PoolInv
  OBVIOUS
<1>1. TypeOK
  BY DEF PooledInit, Init, TypeOK, Positions
<1>2. QED
  BY <1>1 DEF PooledInit, Init, PoolInv, PooledTypeOK, Stages,
              OnlyHandlersWork, PoolAgrees

\* One step per kind of action; what happens at the gate leaves the pool
\* alone, and touches no request whose handler runs.
LEMMA PoolInvStep == PoolInv /\ [PooledNext]_pooledVars => PoolInv'
<1> USE GateAssumption, PoolAssumption
<1> SUFFICES ASSUME PoolInv, [PooledNext]_pooledVars
             PROVE  PoolInv'
  OBVIOUS
<1>a. TypeOK'
  <2>1. [Next]_vars
    BY PooledStep DEF pooledVars
  <2>2. TypeOK
    BY DEF PoolInv, PooledTypeOK
  <2>3. QED
    BY <2>1, <2>2, TypeStep
<1>b. ASSUME UNCHANGED poolVars,
             \A q \in Requests : pc[q] = "handler" => pc'[q] = "handler"
      PROVE  PoolInv'
  BY <1>a, <1>b DEF PoolInv, PooledTypeOK, OnlyHandlersWork, PoolAgrees,
                    poolVars
<1>1. ASSUME NEW r \in Requests,
             Arrive(r) \/ Lock(r) \/ AtGate(r), UNCHANGED poolVars
      PROVE  PoolInv'
  <2>1. \A q \in Requests : pc[q] = "handler" => pc'[q] = "handler"
    BY <1>1 DEF Arrive, Lock, AtGate, RefuseBlocked, PassBlacklist,
                CountFailure, Block, Unlock, Goto, PoolInv, PooledTypeOK,
                TypeOK
  <2>2. QED
    BY <1>1, <1>b, <2>1
<1>2. ASSUME NEW r \in Requests, StartHandler(r) PROVE PoolInv'
  BY <1>2, <1>a DEF StartHandler, Accept, Goto, PoolInv, PooledTypeOK,
     OnlyHandlersWork, PoolAgrees, TypeOK
<1>3. ASSUME NEW r \in Requests, FinishHandler(r) PROVE PoolInv'
  BY <1>3, <1>a DEF FinishHandler, HandlerReturns, Goto, poolVars, PoolInv,
     PooledTypeOK, OnlyHandlersWork, PoolAgrees, TypeOK
<1> USE DEF Proceeds, vars, Stages
<1>4. ASSUME NEW r \in Requests,
             Ask(r) \/ AskSecond(r) \/ \E j \in Jobs : LeaveJob(r, j)
      PROVE  PoolInv'
  BY <1>4, <1>a DEF Ask, AskSecond, LeaveJob, PoolInv, PooledTypeOK,
     OnlyHandlersWork, PoolAgrees
<1>5. ASSUME NEW r \in Requests, Take(r) \/ TakeSecond(r)
      PROVE  PoolInv'
  BY <1>5, <1>a DEF Take, TakeSecond, Takes, PoolInv, PooledTypeOK,
     OnlyHandlersWork, PoolAgrees
<1>6. ASSUME NEW r \in Requests, GiveSecondBack(r) \/ GiveBack(r)
      PROVE  PoolInv'
  <2>1. CASE GiveSecondBack(r)
    BY <2>1, <1>a DEF GiveSecondBack, GivesBack, PoolInv, PooledTypeOK,
       OnlyHandlersWork, PoolAgrees
  <2>2. CASE GiveBack(r)
    BY <2>2, <1>a DEF GiveBack, GivesBack, PoolInv, PooledTypeOK,
       OnlyHandlersWork, PoolAgrees
  <2>3. QED
    BY <1>6, <2>1, <2>2
<1>7. ASSUME NEW j \in Jobs, JobTakes(j) \/ JobGivesBack(j)
      PROVE  PoolInv'
  BY <1>7, <1>a DEF JobTakes, JobGivesBack, Takes, GivesBack, PoolInv,
     PooledTypeOK, OnlyHandlersWork, PoolAgrees
<1>8. CASE Tick /\ UNCHANGED poolVars
  BY <1>8, <1>b DEF Tick
<1>9. CASE PooledRestart
  BY <1>9, <1>a DEF PooledRestart, PoolInv, PooledTypeOK, OnlyHandlersWork,
     PoolAgrees
<1>10. CASE UNCHANGED pooledVars
  BY <1>10, <1>b DEF pooledVars
<1>11. QED
  BY <1>1, <1>2, <1>3, <1>4, <1>5, <1>6, <1>7, <1>8, <1>9, <1>10
     DEF PooledNext, Works

LEMMA PoolInvariant == PooledSpec => []PoolInv
  BY PoolInvInit, PoolInvStep, PTL DEF PooledSpec

\* The pool and the handlers keep their types, and no handler runs more
\* statements than it had to.
THEOREM PooledTypeCorrect == PooledSpec => []PooledTypeOK
<1>1. PoolInv => PooledTypeOK
  BY DEF PoolInv
<1>2. QED
  BY <1>1, PoolInvariant, PTL

-----------------------------------------------------------------------------
\* Two connections are enough, however many handlers and goroutines there
\* are: who waits with a connection in hand is inside the gate, so there is
\* one of them at most, and it holds one connection (persona.auth.go:26,
\* admin.auth.go:33).
THEOREM TwoConnectionsSuffice == PooledSpec => []NoStandstill
<1> USE GateAssumption, PoolAssumption
<1>1. PoolInv /\ HandlersExclusive => NoStandstill
  <2> SUFFICES ASSUME PoolInv, HandlersExclusive,
                      \A c \in inUse : c[1] \in Waiting
               PROVE  HasFree
    BY DEF NoStandstill
  <2>1. ASSUME NEW c \in inUse PROVE c = <<mu, 1>>
    <3>1. PICK who \in Requests \cup Jobs, which \in {1, 2} :
             c = <<who, which>>
      BY DEF PoolInv, PooledTypeOK
    <3>2. who \in Waiting
      BY <3>1
    <3>3. who \in Requests /\ stage[who] = "askingSecond"
      BY <3>1, <3>2 DEF Waiting, PoolInv, PoolAgrees
    <3>4. which = 1
      BY <3>1, <3>3 DEF PoolInv, PoolAgrees
    <3>5. pc[who] = "handler"
      BY <3>3 DEF PoolInv, OnlyHandlersWork
    <3>6. mu = who
      BY <3>3, <3>5 DEF HandlersExclusive, Critical
    <3>7. QED
      BY <3>1, <3>4, <3>6
  <2>2. inUse = {} \/ inUse = {<<mu, 1>>}
    BY <2>1
  <2>3. Cardinality(inUse) \in {0, 1}
    BY <2>2, FS_EmptySet, FS_Singleton
  <2>4. QED
    BY <2>3 DEF HasFree
<1>2. QED
  BY <1>1, PoolInvariant, PooledIsGate, Exclusion, PTL
=============================================================================
