-------------------------- MODULE SubscriptionsProofs --------------------------
(***************************************************************************)
(* Proofs about Subscriptions, for any personas, ids and statuses: types   *)
(* on any number of servers, and what updateSubscription may count on when *)
(* one server, which runs one handler at a time, has the table to itself.  *)
(***************************************************************************)
EXTENDS Subscriptions, TLAPS

OneServer == \A r, s \in Servers : r = s

\* Rows of the table are no markers, and no handler at work is idle.
LEMMA Distinct ==
    /\ \A x \in Rows : x # Unborn /\ x # Cancelled
    /\ Unborn # Cancelled
    /\ \A h \in Working : h # Idle
  BY DEF Rows, Unborn, Cancelled, Working, Idle

\* What a handler at work has to say.
LEMMA HandlerTyped ==
    ASSUME TypeOK, NEW s \in Servers
    PROVE  /\ handler[s].step \in {"find", "insert"} =>
                 /\ handler[s].req \in Requests
                 /\ handler[s] # Idle
           /\ handler[s].step = "save" =>
                 /\ handler[s].req \in Requests
                 /\ handler[s].id \in Ids
                 /\ handler[s].copy \in Rows
                 /\ handler[s] # Idle
  BY DEF TypeOK, Working, Idle

\* A row that is there is a row.
LEMMA RowTyped ==
    ASSUME TypeOK, NEW i \in Ids
    PROVE  Exists(i) <=> sub[i] \in Rows
  BY Distinct DEF TypeOK, Exists

LEMMA AfterUpdateTyped ==
    ASSUME NEW h, h.req \in Requests
    PROVE  /\ AfterUpdate(h) \in {Idle} \cup Working
           /\ AfterUpdate(h).step # "save"
  BY DEF AfterUpdate, Working, Idle

-----------------------------------------------------------------------------
(* Types *)

LEMMA TypeStep == TypeOK /\ [Next]_vars => TypeOK'
  <1> SUFFICES ASSUME TypeOK, [Next]_vars PROVE TypeOK'
    OBVIOUS
  <1>1. ASSUME NEW s \in Servers,
               CreateSubscription(s) \/ UpdateSubscription(s)
        PROVE  TypeOK'
    BY <1>1 DEF CreateSubscription, UpdateSubscription, Goto, TypeOK, Working
  <1>2. ASSUME NEW s \in Servers, FindRow(s) PROVE TypeOK'
    <2>1. handler[s].req \in Requests
      BY <1>2, HandlerTyped DEF FindRow
    <2>2. PICK i \in Subscribed(handler[s].req.persona, handler[s].req.subscriber) :
             Goto(s, [step |-> "save", req |-> handler[s].req, id |-> i,
                      copy |-> [sub[i] EXCEPT !.paid = handler[s].req.paid]])
      BY <1>2 DEF FindRow
    <2>3. i \in Ids /\ sub[i] \in Rows
      BY <2>2, RowTyped DEF Subscribed
    <2>4. [sub[i] EXCEPT !.paid = handler[s].req.paid] \in Rows
      BY <2>1, <2>3 DEF Rows, Requests
    <2> QED
      BY <1>2, <2>1, <2>2, <2>3, <2>4 DEF FindRow, Goto, TypeOK, Working
  <1>3. ASSUME NEW s \in Servers, FindNothing(s) PROVE TypeOK'
    <2>1. AfterUpdate(handler[s]) \in {Idle} \cup Working
      BY <1>3, HandlerTyped, AfterUpdateTyped DEF FindNothing
    <2> QED
      BY <1>3, <2>1 DEF FindNothing, Goto, TypeOK
  <1>4. ASSUME NEW s \in Servers, SaveRow(s) \/ SaveFails(s) PROVE TypeOK'
    <2>1. /\ AfterUpdate(handler[s]) \in {Idle} \cup Working
          /\ handler[s].id \in Ids /\ handler[s].copy \in Rows
      BY <1>4, HandlerTyped, AfterUpdateTyped DEF SaveRow, SaveFails
    <2> QED
      BY <1>4, <2>1 DEF SaveRow, SaveFails, Goto, TypeOK
  <1>5. ASSUME NEW s \in Servers, InsertRow(s) PROVE TypeOK'
    <2>1. handler[s].req \in Requests
      BY <1>5, HandlerTyped DEF InsertRow
    <2>2. NewRow(handler[s].req) \in Rows
      BY <2>1, SubscriptionsAssumption DEF NewRow, Rows, Requests, Paids
    <2> QED
      BY <1>5, <2>2 DEF InsertRow, Goto, TypeOK
  <1>6. ASSUME NEW s \in Servers, InsertFails(s) \/ Crash(s) PROVE TypeOK'
    BY <1>6 DEF InsertFails, Crash, Goto, TypeOK
  <1>7. ASSUME NEW s \in Servers, UpdateStatus(s) PROVE TypeOK'
    <2>1. PICK i \in Ids, status \in Statuses :
             Exists(i) /\ sub' = [sub EXCEPT ![i].status = status]
      BY <1>7 DEF UpdateStatus
    <2>2. [sub[i] EXCEPT !.status = status] \in Rows
      BY <2>1, RowTyped DEF Rows
    <2> QED
      BY <1>7, <2>1, <2>2 DEF UpdateStatus, TypeOK
  <1>8. ASSUME NEW s \in Servers, CancelSubscription(s) PROVE TypeOK'
    BY <1>8 DEF CancelSubscription, TypeOK
  <1>9. ASSUME NEW s \in Servers, DeletePersona(s) PROVE TypeOK'
    BY <1>9 DEF DeletePersona, TypeOK
  <1>10. CASE UNCHANGED vars
    BY <1>10 DEF vars, TypeOK
  <1> QED
    BY <1>1, <1>2, <1>3, <1>4, <1>5, <1>6, <1>7, <1>8, <1>9, <1>10 DEF Next

\* Rows, handlers and the copies they keep have their types, on any number of
\* servers (persona_subscribe.go, model/persona_subscriber.gen.go).
THEOREM TypeCorrect == Spec => []TypeOK
  <1>1. Init => TypeOK
    BY DEF Init, TypeOK
  <1> QED
    BY <1>1, TypeStep, PTL DEF Spec

-----------------------------------------------------------------------------
(* What updateSubscription counts on, between its read and its save *)

\* The row is still there, and as it was read but for the payment.
Agrees(s) ==
    LET h == handler[s]
    IN  /\ Exists(h.id)
        /\ h.copy = [sub[h.id] EXCEPT !.paid = h.req.paid]

CopiesAgree == \A s \in Servers : handler[s].step = "save" => Agrees(s)

\* A handler that is about to save has just read the row, or nothing moves.
LEMMA BeforeSave ==
    ASSUME OneServer, TypeOK, [Next]_vars, NEW s \in Servers,
           handler'[s].step = "save"
    PROVE  FindRow(s) \/ (sub' = sub /\ handler'[s] = handler[s])
  <1>1. CASE UNCHANGED vars
    BY <1>1 DEF vars
  <1>2. CASE Next
    <2>0. \A r \in Servers : r = s
      BY DEF OneServer
    <2>1. CASE CreateSubscription(s) \/ UpdateSubscription(s)
      BY <2>1 DEF CreateSubscription, UpdateSubscription, Goto, TypeOK
    <2>2. CASE FindNothing(s) \/ SaveRow(s) \/ SaveFails(s)
      <3>1. handler'[s] = AfterUpdate(handler[s]) /\ handler[s].req \in Requests
        BY <2>2, HandlerTyped DEF FindNothing, SaveRow, SaveFails, Goto, TypeOK
      <3> QED
        BY <3>1, AfterUpdateTyped
    <2>3. CASE InsertRow(s) \/ InsertFails(s) \/ Crash(s)
      BY <2>3 DEF InsertRow, InsertFails, Crash, Goto, TypeOK, Idle
    <2>4. CASE UpdateStatus(s) \/ CancelSubscription(s) \/ DeletePersona(s)
      BY <2>4 DEF UpdateStatus, CancelSubscription, DeletePersona, Idle
    <2> QED
      BY <1>2, <2>0, <2>1, <2>2, <2>3, <2>4 DEF Next
  <1> QED
    BY <1>1, <1>2

LEMMA CopiesStep ==
    ASSUME OneServer
    PROVE  TypeOK /\ CopiesAgree /\ [Next]_vars => CopiesAgree'
  <1> SUFFICES ASSUME TypeOK, CopiesAgree, [Next]_vars,
                      NEW s \in Servers, handler'[s].step = "save"
               PROVE  Agrees(s)'
    BY DEF CopiesAgree
  <1>1. CASE FindRow(s)
    <2>1. PICK i \in Subscribed(handler[s].req.persona, handler[s].req.subscriber) :
             Goto(s, [step |-> "save", req |-> handler[s].req, id |-> i,
                      copy |-> [sub[i] EXCEPT !.paid = handler[s].req.paid]])
      BY <1>1 DEF FindRow
    <2>2. handler'[s] = [step |-> "save", req |-> handler[s].req, id |-> i,
                         copy |-> [sub[i] EXCEPT !.paid = handler[s].req.paid]]
      BY <2>1 DEF Goto, TypeOK
    <2>3. Exists(i) /\ sub' = sub
      BY <1>1, <2>1 DEF FindRow, Subscribed
    <2> QED
      BY <2>2, <2>3 DEF Exists, Agrees
  <1>2. CASE sub' = sub /\ handler'[s] = handler[s]
    <2>1. Agrees(s)
      BY <1>2 DEF CopiesAgree
    <2> QED
      BY <1>2, <2>1 DEF Agrees, Exists
  <1> QED
    BY <1>1, <1>2, BeforeSave

CopiesInv == TypeOK /\ CopiesAgree

LEMMA CopiesInvAlways ==
    ASSUME OneServer
    PROVE  Spec => []CopiesInv
  <1>1. Init => CopiesInv
    BY DEF Init, CopiesInv, TypeOK, CopiesAgree, Idle
  <1>2. CopiesInv /\ [Next]_vars => CopiesInv'
    BY TypeStep, CopiesStep DEF CopiesInv
  <1> QED
    BY <1>1, <1>2, PTL DEF Spec

\* So a save changes the payment of a row that is there, and nothing else.
LEMMA SaveChangesPayment ==
    ASSUME CopiesInv, NEW s \in Servers, SaveRow(s), NEW i \in Ids
    PROVE  \/ sub'[i] = sub[i]
           \/ Exists(i) /\ sub'[i] = [sub[i] EXCEPT !.paid = handler[s].req.paid]
  <1>1. handler[s].step = "save" /\ sub' = [sub EXCEPT ![handler[s].id] = handler[s].copy]
    BY DEF SaveRow
  <1>2. /\ Exists(handler[s].id)
        /\ handler[s].copy = [sub[handler[s].id] EXCEPT !.paid = handler[s].req.paid]
    BY <1>1 DEF CopiesInv, CopiesAgree, Agrees
  <1> QED
    BY <1>1, <1>2 DEF CopiesInv, TypeOK

\* On one server a subscription that was cancelled, or went with a persona,
\* never comes back, although gorm's Save inserts a row that is missing
\* (persona_subscribe.go:83-93).
THEOREM CancelledForGood ==
    ASSUME OneServer
    PROVE  Spec => CancelledStaysCancelled
  <1> DEFINE Stays == \A i \in Ids : sub[i] = Cancelled => sub'[i] = Cancelled
  <1>1. CopiesInv /\ [Next]_vars => [Stays]_vars
    <2> SUFFICES ASSUME CopiesInv, [Next]_vars, NEW i \in Ids, sub[i] = Cancelled
                 PROVE  sub'[i] = Cancelled
      OBVIOUS
    <2>0. ~ Exists(i) /\ TypeOK
      BY DEF Exists, CopiesInv
    <2>1. ASSUME NEW s \in Servers, SaveRow(s) PROVE sub'[i] = Cancelled
      BY <2>0, <2>1, SaveChangesPayment
    <2>2. ASSUME NEW s \in Servers, InsertRow(s) PROVE sub'[i] = Cancelled
      BY <2>0, <2>2, Distinct DEF InsertRow, TypeOK
    <2>3. ASSUME NEW s \in Servers,
                 UpdateStatus(s) \/ CancelSubscription(s) \/ DeletePersona(s)
          PROVE  sub'[i] = Cancelled
      BY <2>0, <2>3 DEF UpdateStatus, CancelSubscription, DeletePersona, TypeOK
    <2>4. CASE sub' = sub
      BY <2>4
    <2> QED
      BY <2>1, <2>2, <2>3, <2>4 DEF Next, vars, CreateSubscription,
         UpdateSubscription, FindRow, FindNothing, SaveFails, InsertFails, Crash
  <1>2. CancelledStaysCancelled <=> [][Stays]_vars
    BY PTL DEF CancelledStaysCancelled
  <1> HIDE DEF Stays
  <1>3. Spec => [][Next]_vars
    BY PTL DEF Spec
  <1> QED
    BY <1>1, <1>2, <1>3, CopiesInvAlways, PTL

\* On one server the row that updateSubscription saves whole carries the status
\* it has in the table, so that only the request for a status changes one
\* (persona_subscribe.go:83-93 and 118-120).
THEOREM StatusesStand ==
    ASSUME OneServer
    PROVE  Spec => StatusChangesAlone
  <1> DEFINE Alone ==
        \A i \in Ids :
          (Exists(i) /\ Exists(i)' /\ sub'[i].status # sub[i].status)
          => handler' = handler
  <1>1. CopiesInv /\ [Next]_vars => [Alone]_vars
    <2> SUFFICES ASSUME CopiesInv, [Next]_vars, NEW i \in Ids,
                        Exists(i), sub'[i].status # sub[i].status
                 PROVE  handler' = handler
      OBVIOUS
    <2>0. TypeOK /\ sub[i] \in Rows
      BY RowTyped DEF CopiesInv
    <2>1. ASSUME NEW s \in Servers, SaveRow(s) PROVE FALSE
      BY <2>0, <2>1, SaveChangesPayment DEF Rows
    <2>2. ASSUME NEW s \in Servers, InsertRow(s) PROVE FALSE
      BY <2>0, <2>2, Distinct DEF InsertRow, TypeOK
    <2>3. ASSUME NEW s \in Servers,
                 UpdateStatus(s) \/ CancelSubscription(s) \/ DeletePersona(s)
          PROVE  handler' = handler
      BY <2>3 DEF UpdateStatus, CancelSubscription, DeletePersona
    <2>4. sub' # sub
      OBVIOUS
    <2> QED
      BY <2>1, <2>2, <2>3, <2>4 DEF Next, vars, CreateSubscription,
         UpdateSubscription, FindRow, FindNothing, SaveFails, InsertFails, Crash
  <1>2. StatusChangesAlone <=> [][Alone]_vars
    BY PTL DEF StatusChangesAlone
  <1> HIDE DEF Alone
  <1>3. Spec => [][Next]_vars
    BY PTL DEF Spec
  <1> QED
    BY <1>1, <1>2, <1>3, CopiesInvAlways, PTL
================================================================================
