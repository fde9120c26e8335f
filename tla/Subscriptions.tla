----------------------------- MODULE Subscriptions -----------------------------
(***************************************************************************)
(* The table persona_subscriber and the handlers of                        *)
(* routes/persona_subscribe.go.  The table has a primary key and no other  *)
(* unique index, so nothing but the handlers keeps a pair of personas from *)
(* being subscribed twice; deleting a persona deletes its rows with it     *)
(* (the foreign keys of the schema cascade).                               *)
(*                                                                         *)
(* A server runs one handler at a time (HandlersExclusive of PepperGate);  *)
(* several servers share the database.  A step is one statement.           *)
(***************************************************************************)
EXTENDS Naturals, FiniteSets

CONSTANTS
    Servers,     \* server processes that share the database
    Personas,    \* persona ids
    Ids,         \* uuids the database will give to subscriptions
    Statuses,    \* the enum subscription_status
    Approved,    \* its default
    MayFail      \* statements may fail

ASSUME SubscriptionsAssumption ==
    /\ Approved \in Statuses
    /\ MayFail \in BOOLEAN

VARIABLES
    personas,  \* the personas there are
    sub,       \* the table
    handler    \* what each server is doing

vars == <<personas, sub, handler>>

\* An id that was never given, and one whose row is gone.
Unborn == [row |-> "unborn"]
Cancelled == [row |-> "cancelled"]

\* is_paid is nullable: a set of at most one boolean.
Null == {}
Paids == {Null, {TRUE}, {FALSE}}
Rows == [persona : Personas, subscriber : Personas, paid : Paids,
         status : Statuses]

Idle == [step |-> "idle"]

\* A request body; "nested" tells that createSubscription is to go on.  Its
\* status is left out: it is parsed and looked at nowhere.
Requests == [persona : Personas, subscriber : Personas, paid : Paids,
             nested : BOOLEAN]

Working ==
    [step : {"find", "insert"}, req : Requests]
      \cup [step : {"save"}, req : Requests, id : Ids, copy : Rows]

TypeOK ==
    /\ personas \subseteq Personas
    /\ sub \in [Ids -> Rows \cup {Unborn, Cancelled}]
    /\ handler \in [Servers -> {Idle} \cup Working]

Init ==
    /\ personas = Personas
    /\ sub = [i \in Ids |-> Unborn]
    /\ handler = [s \in Servers |-> Idle]

-----------------------------------------------------------------------------
Exists(i) == sub[i] \notin {Unborn, Cancelled}

\* The rows of a pair; First takes the one with the least uuid: any of them.
Subscribed(p, q) ==
    {i \in Ids : Exists(i) /\ sub[i].persona = p /\ sub[i].subscriber = q}

Goto(s, h) == handler' = [handler EXCEPT ![s] = h]

\* What follows updateSubscription: the reply, or, when createSubscription
\* called it, the statement after the call.
AfterUpdate(h) ==
    IF h.req.nested THEN [step |-> "insert", req |-> h.req] ELSE Idle

\* createSubscription looks for the pair.  When there is a row it calls
\* updateSubscription, and drops its result.
CreateSubscription(s) ==
    /\ handler[s] = Idle
    /\ \E req \in Requests :
          /\ req.nested
          /\ \/ /\ Subscribed(req.persona, req.subscriber) # {}
                /\ Goto(s, [step |-> "find", req |-> req])
             \/ /\ Subscribed(req.persona, req.subscriber) = {} \/ MayFail
                /\ Goto(s, [step |-> "insert", req |-> req])
    /\ UNCHANGED <<personas, sub>>

\* updateSubscription, on its own.
UpdateSubscription(s) ==
    /\ handler[s] = Idle
    /\ \E req \in Requests :
          ~ req.nested /\ Goto(s, [step |-> "find", req |-> req])
    /\ UNCHANGED <<personas, sub>>

\* updateSubscription reads the row of the pair.
FindRow(s) ==
    /\ handler[s].step = "find"
    /\ LET h == handler[s]
       IN  \E i \in Subscribed(h.req.persona, h.req.subscriber) :
              Goto(s, [step |-> "save", req |-> h.req, id |-> i,
                       copy |-> [sub[i] EXCEPT !.paid = h.req.paid]])
    /\ UNCHANGED <<personas, sub>>

\* No such row, or a failure: 404.
FindNothing(s) ==
    /\ handler[s].step = "find"
    /\ LET h == handler[s]
       IN  /\ Subscribed(h.req.persona, h.req.subscriber) = {} \/ MayFail
           /\ Goto(s, AfterUpdate(h))
    /\ UNCHANGED <<personas, sub>>

\* The foreign keys hold for a row of these two personas.
Admitted(p, q) == {p, q} \subseteq personas

\* gorm's Save writes every column of the copy, and inserts the row when the
\* update has matched none.
SaveRow(s) ==
    /\ handler[s].step = "save"
    /\ LET h == handler[s]
       IN  /\ Admitted(h.copy.persona, h.copy.subscriber)
           /\ sub' = [sub EXCEPT ![h.id] = h.copy]
           /\ Goto(s, AfterUpdate(h))
    /\ UNCHANGED personas

SaveFails(s) ==
    /\ handler[s].step = "save"
    /\ LET h == handler[s]
       IN  /\ MayFail \/ ~ Admitted(h.copy.persona, h.copy.subscriber)
           /\ Goto(s, AfterUpdate(h))
    /\ UNCHANGED <<personas, sub>>

\* A new row, with the defaults of the columns.
\* Mutant: the column status without its default.
NewRowWithoutStatus(req) ==
    [persona |-> req.persona, subscriber |-> req.subscriber, paid |-> Null]

NewRow(req) ==
    [persona |-> req.persona, subscriber |-> req.subscriber, paid |-> Null,
     status |-> Approved]

\* createSubscription inserts it.
InsertRow(s) ==
    /\ handler[s].step = "insert"
    /\ LET req == handler[s].req
       IN  /\ Admitted(req.persona, req.subscriber)
           /\ \E i \in Ids :
                 /\ sub[i] = Unborn
                 /\ sub' = [sub EXCEPT ![i] = NewRow(req)]
    /\ Goto(s, Idle)
    /\ UNCHANGED personas

InsertFails(s) ==
    /\ handler[s].step = "insert"
    /\ \/ MayFail
       \/ ~ Admitted(handler[s].req.persona, handler[s].req.subscriber)
       \/ \A i \in Ids : sub[i] # Unborn   \* bound: the ids are used up
    /\ Goto(s, Idle)
    /\ UNCHANGED <<personas, sub>>

\* updateSubscriptionStatus: one column of one row.
\* Mutant: it does not wait for the handler that is running.
UpdateStatusUnlocked(s) ==
    /\ \E i \in Ids, status \in Statuses :
          Exists(i) /\ sub' = [sub EXCEPT ![i].status = status]
    /\ UNCHANGED <<personas, handler>>

UpdateStatus(s) ==
    /\ handler[s] = Idle
    /\ \E i \in Ids, status \in Statuses :
          Exists(i) /\ sub' = [sub EXCEPT ![i].status = status]
    /\ UNCHANGED <<personas, handler>>

\* cancelSubscription reads and deletes the row in one transaction.
\* Mutant: it does not wait for the handler that is running.
CancelUnlocked(s) ==
    /\ \E i \in Ids :
          Exists(i) /\ sub' = [sub EXCEPT ![i] = Cancelled]
    /\ UNCHANGED <<personas, handler>>

CancelSubscription(s) ==
    /\ handler[s] = Idle
    /\ \E i \in Ids :
          Exists(i) /\ sub' = [sub EXCEPT ![i] = Cancelled]
    /\ UNCHANGED <<personas, handler>>

\* A persona is deleted (deletePersona, deleteWallet); its rows go with it.
DeletePersona(s) ==
    /\ handler[s] = Idle
    /\ \E p \in personas :
          /\ personas' = personas \ {p}
          /\ sub' = [i \in Ids |->
                IF Exists(i) /\ p \in {sub[i].persona, sub[i].subscriber}
                THEN Cancelled ELSE sub[i]]
    /\ UNCHANGED handler

Crash(s) ==
    /\ handler[s] # Idle
    /\ Goto(s, Idle)
    /\ UNCHANGED <<personas, sub>>

Next ==
    \E s \in Servers :
        \/ CreateSubscription(s) \/ UpdateSubscription(s)
        \/ FindRow(s) \/ FindNothing(s) \/ SaveRow(s) \/ SaveFails(s)
        \/ InsertRow(s) \/ InsertFails(s)
        \/ UpdateStatus(s) \/ CancelSubscription(s) \/ DeletePersona(s)
        \/ Crash(s)

Spec == Init /\ [][Next]_vars

-----------------------------------------------------------------------------
\* A subscription that was cancelled, or went with a persona, never comes
\* back: Save inserts a missing row, so that this rests on no request coming
\* between the read and the save of updateSubscription
\* (persona_subscribe.go:83-93).
CancelledStaysCancelled ==
    [][\A i \in Ids : sub[i] = Cancelled => sub'[i] = Cancelled]_vars

\* The status of a subscription is changed by the request that asks for it
\* and by no other: the row that updateSubscription saves whole, some
\* statements after it was read, carries the status it has in the table
\* (persona_subscribe.go:83-93 and 118-120).
StatusChangesAlone ==
    [][\A i \in Ids :
          (Exists(i) /\ Exists(i)' /\ sub'[i].status # sub[i].status)
          => handler' = handler]_vars

\* A pair has one subscription ("check whether the subscription exists
\* already", persona_subscribe.go:40).
OneSubscriptionPerPair ==
    \A p, q \in Personas : Cardinality(Subscribed(p, q)) <= 1
=============================================================================
