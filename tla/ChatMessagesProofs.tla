--------------------------- MODULE ChatMessagesProofs ---------------------------
(***************************************************************************)
(* ChatMessages for any rooms, personas and messages.  A message waits for *)
(* each receiver until a fetch of its own commits, on any number of        *)
(* servers, if messages keep their ids: a list that was read stays one     *)
(* that covers whoever has not taken the message yet.  On one server it    *)
(* stays the list in the table, and everyone gets a message at most once.  *)
(* Together they show that the handlers implement Mailbox.                 *)
(***************************************************************************)
EXTENDS ChatMessages, FiniteSetTheorems, TLAPS

OneServer == \A r, s \in Servers : r = s

\* An id in use is used for one message, as far as any one handler can see.
IdsStay == OneServer \/ ~ IdsRepeat

-----------------------------------------------------------------------------
(* What the rows and the handlers are *)

LEMMA NamedIds ==
    ASSUME NEW ids \in Ids
    PROVE  Named(ids) \in SUBSET Personas
  BY DEF Ids, Named, NullIds

LEMMA RestOfList ==
    ASSUME NEW list \in SUBSET Personas, NEW p
    PROVE  Rest(list, p) \in Ids /\ Named(Rest(list, p)) = list \ {p}
  BY DEF Rest, Ids, Named, NullIds

LEMMA RowsExist ==
    ASSUME TypeOK, NEW m \in Messages
    PROVE  /\ Exists(m) <=> row[m] \in Stored
           /\ ~ Exists(m) => row[m] \in {Unused, Deleted}
  BY DEF TypeOK, Exists, Stored, Unused, Deleted

\* What a handler is, told by its step.
LEMMA HandlerTyped ==
    ASSUME TypeOK, NEW s \in Servers
    PROVE  /\ handler[s].step \in {"create", "touch"} => handler[s] \in Creating
           /\ handler[s].step \in {"consume", "answer"} =>
                 /\ handler[s] \in Reading
                 /\ DOMAIN handler[s].read \subseteq Messages
                 /\ \A m \in DOMAIN handler[s].read :
                       handler[s].read[m] \in SUBSET Personas
  <1>1. handler[s] \in {Idle} \cup Creating \cup Reading
    BY DEF TypeOK
  <1>2. CASE handler[s] \in Reading
    <2>1. PICK S \in SUBSET Messages : handler[s].read \in [S -> SUBSET Personas]
      BY <1>2 DEF Reading
    <2> QED
      BY <1>2, <2>1 DEF Reading
  <1>3. CASE handler[s] \in {Idle} \cup Creating
    BY <1>3 DEF Idle, Creating
  <1> QED
    BY <1>1, <1>2, <1>3

LEMMA ReplyTyped ==
    ASSUME TypeOK, NEW s \in Servers, Reply(s)
    PROVE  handler' \in [Servers -> {Idle} \cup Creating \cup Reading]
  BY DEF TypeOK, Reply

\* The row of a message that is stored.
LEMMA StoredRow ==
    ASSUME TypeOK, NEW s \in Servers, StoreMessage(s)
    PROVE  LET h == handler[s]
           IN  /\ h.msg \in Messages /\ ~ Exists(h.msg)
               /\ ~ IdsRepeat => row[h.msg] = Unused
               /\ row'[h.msg] \in Stored
               /\ row'[h.msg].receivers = h.to
               /\ row'[h.msg].sent = Named(h.to)
               /\ taken'[h.msg] = {} /\ fetched'[h.msg] = {}
               /\ \A m \in Messages : m # h.msg =>
                     UNCHANGED <<row[m], taken[m], fetched[m]>>
  <1> DEFINE h == handler[s]
  <1>1. h \in Creating
    BY HandlerTyped DEF StoreMessage
  <1>2. h.msg \in Messages /\ h.room \in Rooms /\ h.to \in Ids
    BY <1>1 DEF Creating
  <1>3. Named(h.to) \in SUBSET Personas
    BY <1>2, NamedIds
  <1>4. [room |-> h.room, receivers |-> h.to, sent |-> Named(h.to)] \in Stored
    BY <1>2, <1>3 DEF Stored
  <1>5. /\ row' = [row EXCEPT ![h.msg] =
              [room |-> h.room, receivers |-> h.to, sent |-> Named(h.to)]]
        /\ taken' = [taken EXCEPT ![h.msg] = {}]
        /\ fetched' = [fetched EXCEPT ![h.msg] = {}]
        /\ Insertable(h.msg)
    BY DEF StoreMessage
  <1> HIDE DEF h
  <1>6. row'[h.msg] = [room |-> h.room, receivers |-> h.to, sent |-> Named(h.to)]
    BY <1>2, <1>5 DEF TypeOK
  <1>7. /\ taken'[h.msg] = {} /\ fetched'[h.msg] = {}
        /\ \A m \in Messages : m # h.msg =>
              UNCHANGED <<row[m], taken[m], fetched[m]>>
    BY <1>2, <1>5 DEF TypeOK
  <1>8. ~ Exists(h.msg) /\ (~ IdsRepeat => row[h.msg] = Unused)
    BY <1>5 DEF Insertable, Exists
  <1> QED
    BY <1>2, <1>4, <1>6, <1>7, <1>8 DEF h

\* The row of a message whose list is written back.
LEMMA ConsumedRow ==
    ASSUME TypeOK, NEW s \in Servers, CommitLists(s), NEW m \in Messages
    PROVE  LET h == handler[s]
           IN  \/ /\ m \in DOMAIN h.read /\ Exists(m)
                  /\ row'[m] \in Stored
                  /\ row'[m].sent = row[m].sent
                  /\ row'[m].room = row[m].room
                  /\ Named(row'[m].receivers) = h.read[m] \ {h.persona}
                  /\ taken'[m] = taken[m] \cup {h.persona}
               \/ /\ ~ (m \in DOMAIN h.read /\ Exists(m))
                  /\ row'[m] = row[m]
                  /\ taken'[m] = taken[m]
  <1> DEFINE h == handler[s]
  <1>1. CASE ~ (m \in DOMAIN h.read /\ Exists(m))
    BY <1>1 DEF CommitLists, Written
  <1>2. CASE m \in DOMAIN h.read /\ Exists(m)
    <2>1. h.read[m] \in SUBSET Personas
      BY <1>2, HandlerTyped DEF CommitLists
    <2>2. /\ row'[m] = [row[m] EXCEPT !.receivers = Rest(h.read[m], h.persona)]
          /\ taken'[m] = taken[m] \cup {h.persona}
      BY <1>2 DEF CommitLists, Written
    <2>3. row[m] \in Stored
      BY <1>2, RowsExist
    <2> DEFINE rest == Rest(h.read[m], h.persona)
    <2>4. rest \in Ids /\ Named(rest) = h.read[m] \ {h.persona}
      BY <2>1, RestOfList
    <2> HIDE DEF rest, h
    <2>5. row'[m] = [row[m] EXCEPT !.receivers = rest]
      BY <2>2 DEF rest, h
    <2>6. /\ row'[m] \in Stored
          /\ row'[m].receivers = rest
          /\ row'[m].sent = row[m].sent
          /\ row'[m].room = row[m].room
      BY <2>3, <2>4, <2>5 DEF Stored
    <2> QED
      BY <1>2, <2>2, <2>4, <2>6 DEF h
  <1> QED
    BY <1>1, <1>2

\* The transaction has committed when the handler goes on or is refused.
LEMMA CommitsLists ==
    ASSUME NEW s \in Servers, ConsumeMessages(s) \/ CommitUnreported(s)
    PROVE  CommitLists(s) /\ cleanups \subseteq cleanups'
  BY DEF ConsumeMessages, CommitUnreported

\* Who has been answered with a message.
LEMMA AnsweredRow ==
    ASSUME TypeOK, NEW s \in Servers, AnswerMessages(s), NEW m \in Messages
    PROVE  fetched'[m] = IF m \in DOMAIN handler[s].read
                         THEN fetched[m] \cup {handler[s].persona} ELSE fetched[m]
  BY DEF AnswerMessages

\* A goroutine stays the goroutine of its room when its handler returns.
LEMMA ReturnedTyped ==
    ASSUME TypeOK, NEW s \in Servers
    PROVE  /\ Returned(s) \subseteq Cleanups
           /\ \A g \in cleanups : \E k \in Returned(s) : k.room = g.room
  <1> DEFINE After(g) == IF g.server = s THEN [g EXCEPT !.returned = TRUE] ELSE g
  <1>1. ASSUME NEW g \in cleanups
        PROVE  After(g) \in Cleanups /\ After(g).room = g.room
    BY DEF TypeOK, Cleanups
  <1>2. Returned(s) = {After(g) : g \in cleanups}
    BY DEF Returned
  <1> HIDE DEF After
  <1> QED
    BY <1>1, <1>2

\* The row of a message where a cleanup passes.
LEMMA CleanedRow ==
    ASSUME TypeOK, NEW g, CleanUp(g), NEW m \in Messages
    PROVE  \/ row'[m] = row[m]
           \/ /\ Exists(m) /\ row[m].receivers = NullIds
              /\ row'[m] = Deleted
  BY DEF CleanUp, WaitsForNobody

-----------------------------------------------------------------------------
(* Types *)

LEMMA TypeStep ==
    ASSUME TypeOK, [Next]_vars
    PROVE  TypeOK'
  <1>1. ASSUME NEW s \in Servers, DeleteRoom(s) PROVE TypeOK'
    BY <1>1 DEF DeleteRoom, TypeOK
  <1>2. ASSUME NEW s \in Servers, StartMessage(s) PROVE TypeOK'
    <2>1. PICK h \in Creating : handler' = [handler EXCEPT ![s] = h]
      <3>1. PICK m \in Messages, r \in open, to \in Ids :
                handler' = [handler EXCEPT ![s] =
                   [step |-> "create", msg |-> m, room |-> r, to |-> to]]
        BY <1>2 DEF StartMessage
      <3>2. [step |-> "create", msg |-> m, room |-> r, to |-> to] \in Creating
        BY DEF Creating, TypeOK
      <3> QED
        BY <3>1, <3>2
    <2> QED
      BY <1>2, <2>1 DEF StartMessage, TypeOK
  <1>3. ASSUME NEW s \in Servers, FetchMessages(s) PROVE TypeOK'
    <2>1. PICK r \in Rooms, p \in Personas :
              LET found == {m \in Messages : Exists(m) /\ row[m].room = r
                                             /\ p \in Named(row[m].receivers)}
              IN  handler' = [handler EXCEPT ![s] =
                     [step |-> "consume", room |-> r, persona |-> p,
                      read |-> [m \in found |-> Named(row[m].receivers)]]]
      BY <1>3 DEF FetchMessages
    <2> DEFINE found == {m \in Messages : Exists(m) /\ row[m].room = r
                                          /\ p \in Named(row[m].receivers)}
               read == [m \in found |-> Named(row[m].receivers)]
    <2>2. ASSUME NEW m \in found PROVE Named(row[m].receivers) \in SUBSET Personas
      BY RowsExist, NamedIds DEF Stored
    <2>3. read \in [found -> SUBSET Personas]
      BY <2>2
    <2>4. found \in SUBSET Messages
      OBVIOUS
    <2>5. handler' = [handler EXCEPT ![s] =
             [step |-> "consume", room |-> r, persona |-> p, read |-> read]]
      BY <2>1
    <2> HIDE DEF found, read
    <2>6. [step |-> "consume", room |-> r, persona |-> p, read |-> read] \in Reading
      BY <2>3, <2>4 DEF Reading
    <2>7. handler' \in [Servers -> {Idle} \cup Creating \cup Reading]
      BY <2>5, <2>6 DEF TypeOK
    <2> QED
      BY <1>3, <2>7 DEF FetchMessages, TypeOK
  <1>4. ASSUME NEW s \in Servers, StoreMessage(s) PROVE TypeOK'
    <2>1. handler[s] \in Creating /\ handler[s].msg \in Messages
      BY <1>4, HandlerTyped DEF StoreMessage, Creating
    <2>2. [handler[s] EXCEPT !.step = "touch"] \in Creating
      BY <2>1 DEF Creating
    <2>3. handler' \in [Servers -> {Idle} \cup Creating \cup Reading]
      BY <1>4, <2>2 DEF StoreMessage, TypeOK
    <2>4. row' \in [Messages -> Stored \cup {Unused, Deleted}]
      <3>1. \A m \in Messages : row'[m] \in Stored \cup {Unused, Deleted}
        BY <1>4, StoredRow DEF TypeOK
      <3>2. row' = [m \in Messages |-> row'[m]]
        BY <1>4 DEF StoreMessage, TypeOK
      <3> QED
        BY <3>1, <3>2
    <2>5. last' \in [Rooms -> {{}} \cup {{m} : m \in Messages}]
      BY <1>4, <2>1 DEF StoreMessage, Pointed, TypeOK
    <2>6. taken' \in [Messages -> SUBSET Personas] /\ fetched' \in [Messages -> SUBSET Personas]
      BY <1>4, <2>1 DEF StoreMessage, TypeOK
    <2> QED
      BY <1>4, <2>3, <2>4, <2>5, <2>6 DEF StoreMessage, TypeOK
  <1>5. ASSUME NEW s \in Servers, TouchRoom(s) PROVE TypeOK'
    <2>1. handler[s].msg \in Messages
      BY <1>5, HandlerTyped DEF TouchRoom, Creating
    <2> QED
      BY <1>5, <2>1, ReplyTyped DEF TouchRoom, Pointed, TypeOK
  <1>6. ASSUME NEW s \in Servers, ConsumeMessages(s) \/ CommitUnreported(s)
        PROVE  TypeOK'
    <2>0. CommitLists(s) /\ handler[s].step = "consume"
      BY <1>6, CommitsLists DEF CommitLists
    <2>1. row' \in [Messages -> Stored \cup {Unused, Deleted}]
      <3>1. \A m \in Messages : row'[m] \in Stored \cup {Unused, Deleted}
        BY <2>0, ConsumedRow DEF TypeOK
      <3>2. row' = [m \in Messages |-> row'[m]]
        BY <2>0 DEF CommitLists
      <3> QED
        BY <3>1, <3>2
    <2>2. handler[s] \in Reading
      BY <2>0, HandlerTyped
    <2>3. handler[s].persona \in Personas /\ handler[s].room \in Rooms
      BY <2>2 DEF Reading
    <2>4. taken' \in [Messages -> SUBSET Personas]
      BY <2>0, <2>3 DEF CommitLists, TypeOK
    <2>5. CASE ConsumeMessages(s)
      <3>0. [server |-> s, room |-> handler[s].room, returned |-> FALSE] \in Cleanups
        BY <2>3 DEF Cleanups
      <3>1. cleanups' \subseteq Cleanups
        BY <2>5, <3>0 DEF ConsumeMessages, TypeOK
      <3>2. [handler[s] EXCEPT !.step = "answer"] \in Reading
        BY <2>2 DEF Reading
      <3>3. handler' \in [Servers -> {Idle} \cup Creating \cup Reading]
        BY <2>5, <3>2 DEF ConsumeMessages, TypeOK
      <3> QED
        BY <2>0, <2>1, <2>4, <3>1, <3>3 DEF CommitLists, TypeOK
    <2>6. CASE CommitUnreported(s)
      BY <2>0, <2>1, <2>4, <2>6, ReplyTyped DEF CommitUnreported, CommitLists, TypeOK
    <2> QED
      BY <1>6, <2>5, <2>6
  <1>7. ASSUME NEW s \in Servers,
               RefuseMessage(s) \/ TouchFails(s) \/ ConsumeFails(s)
        PROVE  TypeOK'
    BY <1>7, ReplyTyped DEF RefuseMessage, TouchFails, ConsumeFails, TypeOK
  <1>12. ASSUME NEW s \in Servers, AnswerMessages(s) PROVE TypeOK'
    <2>1. handler[s].persona \in Personas
      BY <1>12, HandlerTyped DEF AnswerMessages, Reading
    <2>2. fetched' \in [Messages -> SUBSET Personas]
      BY <1>12, <2>1 DEF AnswerMessages, TypeOK
    <2> QED
      BY <1>12, <2>2, ReplyTyped, ReturnedTyped DEF AnswerMessages, TypeOK
  <1>13. ASSUME NEW s \in Servers, AnswerLost(s) PROVE TypeOK'
    BY <1>13, ReplyTyped, ReturnedTyped DEF AnswerLost, TypeOK
  <1>8. ASSUME NEW s \in Servers, Crash(s) PROVE TypeOK'
    BY <1>8, ReplyTyped DEF Crash, TypeOK
  <1>9. ASSUME NEW g \in cleanups, CleanUp(g) PROVE TypeOK'
    <2>1. row' \in [Messages -> Stored \cup {Unused, Deleted}]
      BY <1>9 DEF CleanUp, TypeOK
    <2> QED
      BY <1>9, <2>1 DEF CleanUp, TypeOK
  <1>10. ASSUME NEW g \in cleanups, CleanUpFails(g) PROVE TypeOK'
    BY <1>10 DEF CleanUpFails, TypeOK
  <1>11. CASE UNCHANGED vars
    BY <1>11 DEF vars, TypeOK
  <1> QED
    BY <1>1, <1>2, <1>3, <1>4, <1>5, <1>6, <1>7, <1>8, <1>9, <1>10, <1>11, <1>12,
       <1>13 DEF Next, Handle

\* The tables, the handlers of chat.go and the goroutines they leave behind
\* keep their types, whatever fails, dies or is reused.
THEOREM TypeCorrect == Spec => []TypeOK
  <1>1. Init => TypeOK
    BY DEF Init, TypeOK
  <1> QED
    BY <1>1, TypeStep, PTL DEF Spec

-----------------------------------------------------------------------------
(* Steps that leave the messages alone, and those that begin a handler *)

LEMMA OtherSteps ==
    ASSUME [Next]_vars
    PROVE  \/ UNCHANGED <<row, taken>>
           \/ \E s \in Servers : StoreMessage(s) \/ CommitLists(s)
           \/ \E g \in cleanups : CleanUp(g)
  BY DEF Next, vars, Handle, DeleteRoom, StartMessage, FetchMessages, RefuseMessage,
     TouchRoom, TouchFails, ConsumeMessages, CommitUnreported, ConsumeFails,
     AnswerMessages, AnswerLost, Crash, CleanUpFails

LEMMA AnswerSteps ==
    ASSUME [Next]_vars
    PROVE  \/ UNCHANGED fetched
           \/ \E s \in Servers : StoreMessage(s) \/ AnswerMessages(s)
  BY DEF Next, vars, Handle, DeleteRoom, StartMessage, FetchMessages, RefuseMessage,
     TouchRoom, TouchFails, ConsumeMessages, CommitUnreported, CommitLists,
     ConsumeFails, AnswerLost, Crash, CleanUp, CleanUpFails

\* What FetchMessages reads.
LEMMA Fetched ==
    ASSUME TypeOK, NEW s \in Servers, FetchMessages(s)
    PROVE  /\ UNCHANGED <<open, last, row, taken, fetched>>
           /\ handler'[s].step = "consume"
           /\ \A r \in Servers : r # s => handler'[r] = handler[r]
           /\ \A m \in DOMAIN handler'[s].read :
                 /\ m \in Messages /\ Exists(m) /\ row[m].room = handler'[s].room
                 /\ handler'[s].read[m] = Named(row[m].receivers)
                 /\ handler'[s].persona \in handler'[s].read[m]
  <1>1. PICK r \in Rooms, p \in Personas :
            LET found == {m \in Messages : Exists(m) /\ row[m].room = r
                                           /\ p \in Named(row[m].receivers)}
            IN  handler' = [handler EXCEPT ![s] =
                   [step |-> "consume", room |-> r, persona |-> p,
                    read |-> [m \in found |-> Named(row[m].receivers)]]]
    BY DEF FetchMessages
  <1> DEFINE found == {m \in Messages : Exists(m) /\ row[m].room = r
                                        /\ p \in Named(row[m].receivers)}
             read == [m \in found |-> Named(row[m].receivers)]
  <1>2. handler'[s] = [step |-> "consume", room |-> r, persona |-> p, read |-> read]
    BY <1>1 DEF TypeOK
  <1>3. /\ handler'[s].step = "consume"
        /\ handler'[s].persona = p
        /\ handler'[s].room = r
        /\ handler'[s].read = read
    BY <1>2
  <1>4. DOMAIN read = found /\ \A m \in found : read[m] = Named(row[m].receivers)
    OBVIOUS
  <1> HIDE DEF read
  <1>5. ASSUME NEW m \in DOMAIN handler'[s].read
        PROVE  /\ m \in Messages /\ Exists(m) /\ row[m].room = handler'[s].room
               /\ handler'[s].read[m] = Named(row[m].receivers)
               /\ handler'[s].persona \in handler'[s].read[m]
    BY <1>3, <1>4, <1>5
  <1>6. \A q \in Servers : q # s => handler'[q] = handler[q]
    BY <1>1 DEF TypeOK
  <1> QED
    BY <1>3, <1>5, <1>6 DEF FetchMessages

\* A handler goes on from its transaction to its answer.
LEMMA GoesOn ==
    ASSUME TypeOK, NEW s \in Servers, ConsumeMessages(s)
    PROVE  /\ CommitLists(s)
           /\ handler[s].step = "consume" /\ handler'[s].step = "answer"
           /\ handler'[s].read = handler[s].read
           /\ handler'[s].persona = handler[s].persona
           /\ handler'[s].room = handler[s].room
           /\ \A r \in Servers : r # s => handler'[r] = handler[r]
  <1>1. handler[s] \in Reading /\ handler[s].step = "consume"
    BY HandlerTyped DEF ConsumeMessages, CommitLists
  <1>2. handler'[s] = [handler[s] EXCEPT !.step = "answer"]
    BY DEF ConsumeMessages, TypeOK
  <1>3. \A r \in Servers : r # s => handler'[r] = handler[r]
    BY DEF ConsumeMessages, TypeOK
  <1> QED
    BY <1>1, <1>2, <1>3 DEF ConsumeMessages, Reading

LEMMA HandlersBegin ==
    ASSUME TypeOK, [Next]_vars, NEW s \in Servers
    PROVE  /\ handler'[s].step = "consume" =>
                 handler'[s] = handler[s] \/ FetchMessages(s)
           /\ handler'[s].step = "touch" =>
                 handler'[s] = handler[s] \/ StoreMessage(s)
           /\ handler'[s].step = "answer" =>
                 handler'[s] = handler[s] \/ ConsumeMessages(s)
  <1> DEFINE Goal == /\ handler'[s].step = "consume" =>
                           handler'[s] = handler[s] \/ FetchMessages(s)
                     /\ handler'[s].step = "touch" =>
                           handler'[s] = handler[s] \/ StoreMessage(s)
                     /\ handler'[s].step = "answer" =>
                           handler'[s] = handler[s] \/ ConsumeMessages(s)
  <1>1. ASSUME NEW r \in Servers, Reply(r) PROVE Goal
    <2>1. handler'[s] = handler[s] \/ handler'[s] = Idle
      BY <1>1 DEF Reply, TypeOK
    <2> QED
      BY <2>1 DEF Idle
  <1>2. ASSUME NEW r \in Servers, StartMessage(r) PROVE Goal
    <2>1. handler'[s] = handler[s] \/ handler'[s].step = "create"
      BY <1>2 DEF StartMessage, TypeOK
    <2> QED
      BY <2>1
  <1>3. ASSUME NEW r \in Servers, FetchMessages(r) PROVE Goal
    <2>1. handler'[s] = handler[s] \/ (FetchMessages(s) /\ handler'[s].step = "consume")
      BY <1>3, Fetched
    <2> QED
      BY <2>1
  <1>4. ASSUME NEW r \in Servers, StoreMessage(r) PROVE Goal
    <2>1. handler[r] \in Creating
      BY <1>4, HandlerTyped DEF StoreMessage
    <2>2. [handler[r] EXCEPT !.step = "touch"].step = "touch"
      BY <2>1 DEF Creating
    <2>3. handler' = [handler EXCEPT ![r] = [handler[r] EXCEPT !.step = "touch"]]
      BY <1>4 DEF StoreMessage
    <2>4. handler'[s] = handler[s] \/ (StoreMessage(s) /\ handler'[s].step = "touch")
      BY <1>4, <2>2, <2>3 DEF TypeOK
    <2> QED
      BY <2>4
  <1>5. ASSUME NEW r \in Servers, ConsumeMessages(r) PROVE Goal
    <2>1. handler'[s] = handler[s] \/ (ConsumeMessages(s) /\ handler'[s].step = "answer")
      BY <1>5, GoesOn
    <2> QED
      BY <2>1
  <1>6. ASSUME UNCHANGED handler PROVE Goal
    BY <1>6
  <1>7. ASSUME NEW r \in Servers, Handle(r) \/ Crash(r)
        PROVE  Reply(r) \/ StoreMessage(r) \/ ConsumeMessages(r)
    BY <1>7 DEF Handle, Crash, RefuseMessage, TouchRoom, TouchFails,
       CommitUnreported, ConsumeFails, AnswerMessages, AnswerLost
  <1>8. ASSUME NEW r \in Servers, DeleteRoom(r) PROVE UNCHANGED handler
    BY <1>8 DEF DeleteRoom
  <1>9. ASSUME NEW g \in cleanups, CleanUp(g) \/ CleanUpFails(g) PROVE UNCHANGED handler
    BY <1>9 DEF CleanUp, CleanUpFails
  <1>10. ASSUME UNCHANGED vars PROVE UNCHANGED handler
    BY <1>10 DEF vars
  <1> HIDE DEF Goal
  <1>11. Goal
    BY <1>1, <1>2, <1>3, <1>4, <1>5, <1>6, <1>7, <1>8, <1>9, <1>10 DEF Next
  <1> QED
    BY <1>11 DEF Goal

-----------------------------------------------------------------------------
(* Whoever leaves a list has taken the message *)

\* The list a handler has read, the reader in it, names nobody the message was
\* not sent to, and whoever has not taken it yet; the message is of its room.
Covers(s, m) ==
    LET h == handler[s]
    IN  /\ row[m] # Unused
        /\ h.persona \in h.read[m]
        /\ Exists(m) => /\ row[m].room = h.room
                        /\ h.read[m] \subseteq row[m].sent
                        /\ row[m].sent \subseteq h.read[m] \cup taken[m]

ReadsCover ==
    \A s \in Servers :
        handler[s].step = "consume" => \A m \in DOMAIN handler[s].read : Covers(s, m)

\* A message waits for nobody but those it was sent to.
WaitsForSent ==
    \A m \in Messages : Exists(m) => Named(row[m].receivers) \subseteq row[m].sent

\* Whoever is about to be answered has taken what the answer carries.
AnswersTaken ==
    \A s \in Servers :
        handler[s].step = "answer" =>
            \A m \in DOMAIN handler[s].read :
                /\ row[m] # Unused
                /\ Exists(m) => handler[s].persona \in taken[m]

\* Nobody is answered with a message but those who have taken it.
FetchedTaken ==
    \A m \in Messages : Exists(m) => fetched[m] \subseteq taken[m]

MailInv ==
    /\ TypeOK /\ LeavesByOwnFetch /\ WaitsForSent
    /\ ReadsCover /\ AnswersTaken /\ FetchedTaken

\* A message stays what it was, or is stored, read or removed.
LEMMA RowStep ==
    ASSUME MailInv, [Next]_vars, NEW m \in Messages
    PROVE  \/ row'[m] = row[m] /\ taken'[m] = taken[m]
           \/ /\ ~ Exists(m) /\ row'[m] \in Stored
              /\ \E s \in Servers : StoreMessage(s) /\ handler[s].msg = m
              /\ Named(row'[m].receivers) = row'[m].sent /\ taken'[m] = {}
           \/ /\ Exists(m) /\ row'[m] \in Stored
              /\ row'[m].sent = row[m].sent /\ row'[m].room = row[m].room
              /\ taken[m] \subseteq taken'[m]
              /\ row'[m].sent \subseteq Named(row'[m].receivers) \cup taken'[m]
              /\ Named(row'[m].receivers) \subseteq row[m].sent
           \/ Exists(m) /\ row[m].receivers = NullIds /\ row'[m] = Deleted
  <1>1. CASE UNCHANGED <<row, taken>>
    BY <1>1
  <1>2. ASSUME NEW s \in Servers, StoreMessage(s)
        PROVE  \/ row'[m] = row[m] /\ taken'[m] = taken[m]
               \/ /\ ~ Exists(m) /\ row'[m] \in Stored /\ handler[s].msg = m
                  /\ Named(row'[m].receivers) = row'[m].sent /\ taken'[m] = {}
    BY <1>2, StoredRow DEF MailInv
  <1>3. ASSUME NEW s \in Servers, CommitLists(s)
        PROVE  \/ row'[m] = row[m] /\ taken'[m] = taken[m]
               \/ /\ Exists(m) /\ row'[m] \in Stored
                  /\ row'[m].sent = row[m].sent /\ row'[m].room = row[m].room
                  /\ taken[m] \subseteq taken'[m]
                  /\ row'[m].sent \subseteq Named(row'[m].receivers) \cup taken'[m]
                  /\ Named(row'[m].receivers) \subseteq row[m].sent
    <2> DEFINE h == handler[s]
    <2>1. CASE m \in DOMAIN h.read /\ Exists(m)
      <3>1. Covers(s, m)
        BY <1>3, <2>1 DEF MailInv, ReadsCover, CommitLists
      <3>2. /\ row'[m] \in Stored
            /\ row'[m].sent = row[m].sent /\ row'[m].room = row[m].room
            /\ Named(row'[m].receivers) = h.read[m] \ {h.persona}
            /\ taken'[m] = taken[m] \cup {h.persona}
        BY <1>3, <2>1, ConsumedRow DEF MailInv
      <3>3. /\ h.read[m] \subseteq row[m].sent
            /\ row[m].sent \subseteq h.read[m] \cup taken[m]
        BY <2>1, <3>1 DEF Covers
      <3> HIDE DEF h
      <3> QED
        BY <2>1, <3>2, <3>3
    <2>2. CASE ~ (m \in DOMAIN h.read /\ Exists(m))
      BY <1>3, <2>2, ConsumedRow DEF MailInv
    <2> QED
      BY <2>1, <2>2
  <1>4. ASSUME NEW g \in cleanups, CleanUp(g)
        PROVE  \/ row'[m] = row[m] /\ taken'[m] = taken[m]
               \/ Exists(m) /\ row[m].receivers = NullIds /\ row'[m] = Deleted
    BY <1>4, CleanedRow DEF MailInv, CleanUp
  <1> QED
    BY <1>1, <1>2, <1>3, <1>4, OtherSteps

LEMMA HandlerTypedPrimed ==
    ASSUME TypeOK', NEW s \in Servers, handler'[s].step = "answer"
    PROVE  DOMAIN handler'[s].read \subseteq Messages
  <1>1. handler'[s] \in {Idle} \cup Creating \cup Reading
    BY DEF TypeOK
  <1> QED
    BY <1>1 DEF Idle, Creating, Reading

LEMMA RowsPrimed ==
    ASSUME TypeOK', NEW m \in Messages
    PROVE  Exists(m)' <=> row'[m] \in Stored
  BY DEF TypeOK, Exists, Stored, Unused, Deleted

LEMMA ReadsCoverStep ==
    ASSUME IdsStay, MailInv, TypeOK', [Next]_vars
    PROVE  ReadsCover'
  <1> SUFFICES ASSUME NEW s \in Servers, handler'[s].step = "consume",
                      NEW m \in DOMAIN handler'[s].read
               PROVE  Covers(s, m)'
    BY DEF ReadsCover
  <1>1. CASE FetchMessages(s)
    <2>1. /\ UNCHANGED <<row, taken>>
          /\ m \in Messages /\ Exists(m) /\ row[m].room = handler'[s].room
          /\ handler'[s].read[m] = Named(row[m].receivers)
          /\ handler'[s].persona \in handler'[s].read[m]
      BY <1>1, Fetched DEF MailInv
    <2>2. /\ Named(row[m].receivers) \subseteq row[m].sent
          /\ row[m].sent \subseteq Named(row[m].receivers) \cup taken[m]
      BY <2>1 DEF MailInv, LeavesByOwnFetch, WaitsForSent
    <2> QED
      BY <2>1, <2>2 DEF Covers, Exists
  <1>2. CASE handler'[s] = handler[s]
    <2> DEFINE h == handler[s]
    <2>1. h.step = "consume" /\ m \in DOMAIN h.read /\ m \in Messages
      BY <1>2, HandlerTyped DEF MailInv
    <2>2. Covers(s, m)
      BY <2>1 DEF MailInv, ReadsCover
    <2>3. ASSUME NEW r \in Servers, StoreMessage(r) PROVE handler[r].msg # m
      <3>1. r # s
        BY <2>1, <2>3 DEF StoreMessage
      <3>2. ~ IdsRepeat
        BY <3>1 DEF IdsStay, OneServer
      <3>3. row[handler[r].msg] = Unused
        BY <2>3, <3>2, StoredRow DEF MailInv
      <3> QED
        BY <2>2, <3>3 DEF Covers
    <2>4. CASE row'[m] = row[m] /\ taken'[m] = taken[m]
      BY <1>2, <2>2, <2>4 DEF Covers, Exists
    <2>5. CASE /\ Exists(m) /\ row'[m] \in Stored
               /\ row'[m].sent = row[m].sent /\ row'[m].room = row[m].room
               /\ taken[m] \subseteq taken'[m]
      <3>1. row'[m] # Unused
        BY <2>1, <2>5, RowsPrimed DEF Exists
      <3>2. /\ row[m].room = h.room
            /\ h.read[m] \subseteq row[m].sent
            /\ row[m].sent \subseteq h.read[m] \cup taken[m]
            /\ h.persona \in h.read[m]
        BY <2>2, <2>5 DEF Covers
      <3> QED
        BY <1>2, <2>5, <3>1, <3>2 DEF Covers
    <2>6. CASE row'[m] = Deleted
      <3>1. Deleted # Unused
        BY DEF Deleted, Unused
      <3> QED
        BY <1>2, <2>2, <2>6, <3>1 DEF Covers, Exists
    <2> QED
      BY <2>1, <2>3, <2>4, <2>5, <2>6, RowStep
  <1> QED
    BY <1>1, <1>2, HandlersBegin DEF MailInv

\* A message a handler has read is not stored anew.
LEMMA ReadStays ==
    ASSUME IdsStay, MailInv, [Next]_vars, NEW s \in Servers, NEW m \in Messages,
           handler[s].step \in {"consume", "answer"}, row[m] # Unused
    PROVE  \/ UNCHANGED <<row[m], taken[m]>>
           \/ /\ Exists(m) /\ row'[m] \in Stored
              /\ taken[m] \subseteq taken'[m]
           \/ row'[m] = Deleted
  <1>1. ASSUME NEW r \in Servers, StoreMessage(r) PROVE handler[r].msg # m
    <2>1. r # s
      BY <1>1 DEF StoreMessage
    <2>2. ~ IdsRepeat
      BY <2>1 DEF IdsStay, OneServer
    <2>3. row[handler[r].msg] = Unused
      BY <1>1, <2>2, StoredRow DEF MailInv
    <2> QED
      BY <2>3
  <1> QED
    BY <1>1, RowStep

LEMMA AnswersTakenStep ==
    ASSUME IdsStay, MailInv, TypeOK', [Next]_vars
    PROVE  AnswersTaken'
  <1> SUFFICES ASSUME NEW s \in Servers, handler'[s].step = "answer",
                      NEW m \in DOMAIN handler'[s].read
               PROVE  /\ row'[m] # Unused
                      /\ Exists(m)' => handler'[s].persona \in taken'[m]
    BY DEF AnswersTaken
  <1>0. m \in Messages /\ Deleted # Unused
    <2>1. DOMAIN handler'[s].read \subseteq Messages
      BY HandlerTypedPrimed
    <2> QED
      BY <2>1 DEF Deleted, Unused
  <1>1. CASE ConsumeMessages(s)
    <2> DEFINE h == handler[s]
    <2>1. /\ CommitLists(s) /\ h.step = "consume" /\ m \in DOMAIN h.read
          /\ handler'[s].persona = h.persona
      BY <1>1, GoesOn DEF MailInv
    <2>2. Covers(s, m)
      BY <2>1 DEF MailInv, ReadsCover
    <2>3. CASE Exists(m)
      <3>1. row'[m] \in Stored /\ taken'[m] = taken[m] \cup {h.persona}
        BY <1>0, <2>1, <2>3, ConsumedRow DEF MailInv
      <3>2. row'[m] # Unused
        BY <1>0, <3>1, RowsPrimed DEF Exists
      <3> QED
        BY <2>1, <3>1, <3>2
    <2>4. CASE ~ Exists(m)
      <3>1. row'[m] = row[m]
        BY <1>0, <2>1, <2>4, ConsumedRow DEF MailInv
      <3> QED
        BY <2>2, <2>4, <3>1 DEF Covers, Exists
    <2> QED
      BY <2>3, <2>4
  <1>2. CASE handler'[s] = handler[s]
    <2>1. /\ row[m] # Unused
          /\ Exists(m) => handler[s].persona \in taken[m]
      BY <1>2 DEF MailInv, AnswersTaken
    <2>2. CASE UNCHANGED <<row[m], taken[m]>>
      BY <1>2, <2>1, <2>2 DEF Exists
    <2>3. CASE Exists(m) /\ row'[m] \in Stored /\ taken[m] \subseteq taken'[m]
      <3>1. row'[m] # Unused
        BY <1>0, <2>3, RowsPrimed DEF Exists
      <3> QED
        BY <1>2, <2>1, <2>3, <3>1
    <2>4. CASE row'[m] = Deleted
      BY <1>0, <2>4 DEF Exists
    <2> QED
      BY <1>0, <1>2, <2>1, <2>2, <2>3, <2>4, ReadStays
  <1> QED
    BY <1>1, <1>2, HandlersBegin DEF MailInv

LEMMA FetchedTakenStep ==
    ASSUME MailInv, TypeOK', [Next]_vars
    PROVE  FetchedTaken'
  <1> SUFFICES ASSUME NEW m \in Messages, Exists(m)'
               PROVE  fetched'[m] \subseteq taken'[m]
    BY DEF FetchedTaken
  <1>1. Exists(m) => fetched[m] \subseteq taken[m]
    BY DEF MailInv, FetchedTaken
  <1>2. ASSUME NEW s \in Servers, StoreMessage(s)
        PROVE  fetched'[m] \subseteq taken'[m]
    BY <1>1, <1>2, StoredRow DEF MailInv, Exists
  <1>3. ASSUME NEW s \in Servers, AnswerMessages(s)
        PROVE  fetched'[m] \subseteq taken'[m]
    <2>1. UNCHANGED <<row, taken>> /\ handler[s].step = "answer"
      BY <1>3 DEF AnswerMessages
    <2>2. Exists(m)
      BY <2>1 DEF Exists
    <2>3. m \in DOMAIN handler[s].read => handler[s].persona \in taken[m]
      BY <2>1, <2>2 DEF MailInv, AnswersTaken
    <2> QED
      BY <1>1, <1>3, <2>1, <2>2, <2>3, AnsweredRow DEF MailInv
  <1>4. CASE UNCHANGED fetched /\ ~ \E s \in Servers : StoreMessage(s)
    <2>1. Exists(m) /\ taken[m] \subseteq taken'[m]
      BY <1>4, RowStep DEF Exists
    <2> QED
      BY <1>1, <1>4, <2>1
  <1> QED
    BY <1>2, <1>3, <1>4, AnswerSteps

LEMMA MailStep ==
    ASSUME IdsStay, MailInv, [Next]_vars
    PROVE  MailInv'
  <1>1. TypeOK'
    BY TypeStep DEF MailInv
  <1>2. ReadsCover' /\ AnswersTaken' /\ FetchedTaken'
    BY <1>1, ReadsCoverStep, AnswersTakenStep, FetchedTakenStep
  <1>3. ASSUME NEW m \in Messages, Exists(m)'
        PROVE  /\ row'[m].sent \subseteq Named(row'[m].receivers) \cup taken'[m]
               /\ Named(row'[m].receivers) \subseteq row'[m].sent
    <2>1. CASE row'[m] = row[m] /\ taken'[m] = taken[m]
      BY <1>3, <2>1 DEF Exists, MailInv, LeavesByOwnFetch, WaitsForSent
    <2>2. CASE row'[m] = Deleted
      BY <1>3, <2>2 DEF Exists
    <2> QED
      BY <2>1, <2>2, RowStep
  <1> QED
    BY <1>1, <1>2, <1>3 DEF MailInv, LeavesByOwnFetch, WaitsForSent

LEMMA MailInvAlways ==
    ASSUME IdsStay
    PROVE  Spec => []MailInv
  <1>1. Init => MailInv
    <2>1. Init => \A m \in Messages : ~ Exists(m)
      BY DEF Init, Exists
    <2>2. Init => \A s \in Servers : handler[s].step \notin {"consume", "answer"}
      BY DEF Init, Idle
    <2>3. Init => TypeOK
      BY DEF Init, TypeOK
    <2> QED
      BY <2>1, <2>2, <2>3 DEF MailInv, LeavesByOwnFetch, WaitsForSent, ReadsCover,
         AnswersTaken, FetchedTaken
  <1>2. MailInv /\ [Next]_vars => MailInv'
    BY MailStep
  <1> QED
    BY <1>1, <1>2, PTL DEF Spec

\* A receiver leaves the list of a message only by a fetch of its own that
\* commits, on any number of servers that give no id twice (chat.go:550-585);
\* whether the answer reaches it is another matter.
THEOREM LeavesOnlyByFetch ==
    ASSUME IdsStay
    PROVE  Spec => []LeavesByOwnFetch
  <1>1. MailInv => LeavesByOwnFetch
    BY DEF MailInv
  <1> QED
    BY <1>1, MailInvAlways, PTL

\* The cleanup goroutine, in whatever room it looks, deletes only what a fetch
\* has taken for everyone it was sent to (chat.go:585-597).
THEOREM DeletedAfterTaking ==
    ASSUME IdsStay
    PROVE  Spec => DeletedWhenTaken
  <1> DEFINE Read ==
        \A m \in Messages :
            Exists(m) /\ ~ Exists(m)' => row[m].sent \subseteq taken[m]
  <1>1. MailInv /\ [Next]_vars => [Read]_vars
    <2> SUFFICES ASSUME MailInv, [Next]_vars, NEW m \in Messages,
                        Exists(m), ~ Exists(m)'
                 PROVE  row[m].sent \subseteq taken[m]
      OBVIOUS
    <2>1. TypeOK'
      BY TypeStep DEF MailInv
    <2>2. row[m].receivers = NullIds
      BY <2>1, RowStep, RowsPrimed DEF Exists
    <2>3. row[m].sent \subseteq Named(row[m].receivers) \cup taken[m]
      BY DEF MailInv, LeavesByOwnFetch
    <2> QED
      BY <2>2, <2>3 DEF Named, NullIds
  <1>2. DeletedWhenTaken <=> [][Read]_vars
    BY PTL DEF DeletedWhenTaken
  <1> HIDE DEF Read
  <1> QED
    BY <1>1, <1>2, MailInvAlways, PTL DEF Spec

-----------------------------------------------------------------------------
(* What everyone has taken is about to be removed *)

ReadByAll(m) == Exists(m) /\ row[m].receivers = NullIds /\ row[m].sent # {}

Coming(m) == \E g \in cleanups : g.room = row[m].room

\* What a fetch has taken for all is removed by a goroutine that is to run, unless
\* a statement fails, its process dies or the string with the room changes
\* under it: on any number of servers nothing else keeps a read message, and
\* ReadMessagesRemoved is a matter of running that goroutine (chat.go:576-597).
THEOREM CleanupComes ==
    ASSUME IdsStay, ~ MayFail, ~ MayCrash, ~ BuffersReused
    PROVE  Spec => [](\A m \in Messages : ReadByAll(m) => Coming(m))
  <1> DEFINE AllComing == \A m \in Messages : ReadByAll(m) => Coming(m)
  <1>1. Init => AllComing
    BY DEF Init, ReadByAll, Exists
  <1>2. MailInv /\ AllComing /\ [Next]_vars => AllComing'
    <2> SUFFICES ASSUME MailInv, AllComing, [Next]_vars,
                        NEW m \in Messages, ReadByAll(m)'
                 PROVE  Coming(m)'
      OBVIOUS
    <2>0. TypeOK /\ TypeOK'
      BY TypeStep DEF MailInv
    <2>1. CASE UNCHANGED <<row, taken>> /\ cleanups \subseteq cleanups'
      BY <2>1 DEF ReadByAll, Exists, Coming
    <2>2. ASSUME NEW s \in Servers, StoreMessage(s)
          PROVE  Coming(m)'
      <3>1. handler[s].msg # m
        <4> SUFFICES ASSUME handler[s].msg = m PROVE FALSE
          OBVIOUS
        <4>1. row'[m].sent = Named(row'[m].receivers)
          BY <2>0, <2>2, StoredRow
        <4> QED
          BY <4>1 DEF ReadByAll, Named, NullIds
      <3>2. row'[m] = row[m] /\ cleanups' = cleanups
        BY <2>0, <2>2, <3>1, StoredRow DEF StoreMessage
      <3> QED
        BY <3>2 DEF ReadByAll, Exists, Coming
    <2>3. ASSUME NEW s \in Servers, ConsumeMessages(s)
          PROVE  Coming(m)'
      <3> DEFINE h == handler[s]
      <3>0. CommitLists(s)
        BY <2>3, CommitsLists
      <3>1. cleanups' = cleanups \cup
               {[server |-> s, room |-> h.room, returned |-> FALSE]}
        BY <2>3 DEF ConsumeMessages
      <3>2. CASE m \in DOMAIN h.read /\ Exists(m)
        <4>1. row[m].room = h.room /\ row'[m].room = row[m].room
          BY <2>0, <3>0, <3>2, ConsumedRow
             DEF MailInv, ReadsCover, Covers, CommitLists
        <4>2. [server |-> s, room |-> h.room, returned |-> FALSE].room = row'[m].room
          BY <4>1
        <4> HIDE DEF h
        <4> QED
          BY <3>1, <4>2 DEF Coming
      <3>3. CASE ~ (m \in DOMAIN h.read /\ Exists(m))
        <4>1. row'[m] = row[m]
          BY <2>0, <3>0, <3>3, ConsumedRow
        <4> HIDE DEF h
        <4> QED
          BY <3>1, <4>1 DEF ReadByAll, Exists, Coming
      <3> QED
        BY <3>2, <3>3
    <2>4. ASSUME NEW g \in cleanups, CleanUp(g)
          PROVE  Coming(m)'
      <3>1. row'[m] = IF Exists(m) /\ row[m].room = g.room /\ WaitsForNobody(m)
                      THEN Deleted ELSE row[m]
        BY <2>4 DEF CleanUp
      <3>2. row'[m] = row[m] /\ ReadByAll(m)
        BY <3>1 DEF ReadByAll, Exists
      <3>3. row[m].room # g.room
        BY <3>1, <3>2 DEF ReadByAll, Exists, WaitsForNobody
      <3>4. cleanups' = cleanups \ {g}
        BY <2>4 DEF CleanUp
      <3> QED
        BY <3>2, <3>3, <3>4 DEF Coming
    <2>5. ASSUME NEW s \in Servers, AnswerMessages(s)
          PROVE  Coming(m)'
      <3>1. row' = row /\ cleanups' = Returned(s)
        BY <2>5 DEF AnswerMessages
      <3>2. Coming(m)
        BY <3>1 DEF ReadByAll, Exists
      <3> QED
        BY <2>0, <3>1, <3>2, ReturnedTyped DEF Coming
    <2>6. \/ UNCHANGED <<row, taken, cleanups>>
          \/ \E s \in Servers :
                StoreMessage(s) \/ ConsumeMessages(s) \/ AnswerMessages(s)
          \/ \E g \in cleanups : CleanUp(g)
      BY DEF Next, vars, Handle, DeleteRoom, StartMessage, FetchMessages, RefuseMessage,
         TouchRoom, TouchFails, CommitUnreported, ConsumeFails, AnswerLost, Crash,
         CleanUpFails
    <2> QED
      BY <2>1, <2>2, <2>3, <2>4, <2>5, <2>6
  <1> HIDE DEF AllComing
  <1>3. Spec => []AllComing
    BY <1>1, <1>2, MailInvAlways, PTL DEF Spec
  <1> QED
    BY <1>3 DEF AllComing

-----------------------------------------------------------------------------
(* One server: what a handler has read is still so, goroutines or not *)

\* The list it has read is the one in the table.
ReadsExact ==
    \A s \in Servers :
        handler[s].step = "consume" =>
            \A m \in DOMAIN handler[s].read :
                Exists(m) => handler[s].read[m] = Named(row[m].receivers)

\* The room it is about to point at its message is pointed there.
TouchAgrees ==
    \A s \in Servers :
        (handler[s].step = "touch" /\ handler[s].room \in open)
        => last[handler[s].room] = {handler[s].msg}

\* A message waits for nobody who has taken it.
TakenLeft ==
    \A m \in Messages :
        Exists(m) => Named(row[m].receivers) \cap taken[m] = {}

\* Whoever is about to be answered has not got what the answer carries.
AnswersNew ==
    \A s \in Servers :
        handler[s].step = "answer" =>
            \A m \in DOMAIN handler[s].read :
                Exists(m) => handler[s].persona \notin fetched[m]

ExactInv == TakenLeft /\ ReadsExact /\ AnswersNew /\ TouchAgrees

\* No other handler runs while one is under way.
LEMMA Alone ==
    ASSUME OneServer, TypeOK, [Next]_vars, NEW s \in Servers,
           handler[s] # Idle, handler'[s] = handler[s]
    PROVE  /\ UNCHANGED <<open, last, taken, fetched>>
           /\ \A m \in Messages : row'[m] = row[m] \/ (Exists(m) /\ row'[m] = Deleted)
  <1>0. \A r \in Servers : r = s
    BY DEF OneServer
  <1>1. ASSUME NEW r \in Servers PROVE ~ Reply(r)
    BY <1>0, <1>1 DEF Reply, TypeOK
  <1>2. ASSUME NEW r \in Servers PROVE ~ StoreMessage(r)
    <2> SUFFICES ASSUME StoreMessage(r) PROVE FALSE
      OBVIOUS
    <2>1. handler[s] \in Creating /\ handler[s].step = "create"
      BY <1>0, HandlerTyped DEF StoreMessage
    <2>2. handler'[s] = [handler[s] EXCEPT !.step = "touch"]
      BY <1>0 DEF StoreMessage, TypeOK
    <2>3. handler'[s].step = "touch"
      BY <2>1, <2>2 DEF Creating
    <2> QED
      BY <2>1, <2>3
  <1>3. ASSUME NEW r \in Servers
        PROVE  ~ (DeleteRoom(r) \/ StartMessage(r) \/ FetchMessages(r))
    BY <1>0, <1>3 DEF DeleteRoom, StartMessage, FetchMessages
  <1>7. ASSUME NEW r \in Servers PROVE ~ ConsumeMessages(r)
    BY <1>0, <1>7, GoesOn
  <1>4. ASSUME NEW r \in Servers PROVE ~ (Handle(r) \/ Crash(r))
    BY <1>1, <1>2, <1>4, <1>7 DEF Handle, Crash, RefuseMessage, TouchRoom, TouchFails,
       CommitUnreported, ConsumeFails, AnswerMessages, AnswerLost
  <1>5. CASE UNCHANGED vars
    BY <1>5 DEF vars
  <1>6. ASSUME NEW g \in cleanups, CleanUp(g) \/ CleanUpFails(g)
        PROVE  /\ UNCHANGED <<open, last, taken, fetched>>
               /\ \A m \in Messages : row'[m] = row[m] \/ (Exists(m) /\ row'[m] = Deleted)
    BY <1>6, CleanedRow DEF CleanUp, CleanUpFails
  <1> QED
    BY <1>3, <1>4, <1>5, <1>6 DEF Next

LEMMA TakenLeftStep ==
    ASSUME TypeOK, TakenLeft, ReadsExact, [Next]_vars
    PROVE  TakenLeft'
  <1> SUFFICES ASSUME NEW m \in Messages, Exists(m)'
               PROVE  Named(row'[m].receivers) \cap taken'[m] = {}
    BY DEF TakenLeft
  <1>1. CASE row'[m] = row[m] /\ taken'[m] = taken[m]
    BY <1>1 DEF TakenLeft, Exists
  <1>2. ASSUME NEW s \in Servers, StoreMessage(s)
        PROVE  Named(row'[m].receivers) \cap taken'[m] = {}
    BY <1>1, <1>2, StoredRow
  <1>3. ASSUME NEW s \in Servers, CommitLists(s)
        PROVE  Named(row'[m].receivers) \cap taken'[m] = {}
    <2> DEFINE h == handler[s]
    <2>1. CASE m \in DOMAIN h.read /\ Exists(m)
      <3>1. /\ Named(row'[m].receivers) = h.read[m] \ {h.persona}
            /\ taken'[m] = taken[m] \cup {h.persona}
        BY <1>3, <2>1, ConsumedRow
      <3>2. h.read[m] = Named(row[m].receivers)
        BY <1>3, <2>1 DEF CommitLists, ReadsExact
      <3>3. Named(row[m].receivers) \cap taken[m] = {}
        BY <2>1 DEF TakenLeft
      <3> HIDE DEF h
      <3> QED
        BY <3>1, <3>2, <3>3
    <2>2. CASE ~ (m \in DOMAIN h.read /\ Exists(m))
      BY <1>1, <1>3, <2>2, ConsumedRow
    <2> QED
      BY <2>1, <2>2
  <1>4. ASSUME NEW g \in cleanups, CleanUp(g)
        PROVE  Named(row'[m].receivers) \cap taken'[m] = {}
    <2>1. row'[m] # Deleted
      BY DEF Exists
    <2> QED
      BY <1>1, <1>4, <2>1, CleanedRow DEF CleanUp
  <1>5. CASE UNCHANGED <<row, taken>>
    BY <1>1, <1>5
  <1> QED
    BY <1>2, <1>3, <1>4, <1>5, OtherSteps

LEMMA AnswersNewStep ==
    ASSUME OneServer, MailInv, TypeOK', ExactInv, [Next]_vars
    PROVE  AnswersNew'
  <1> SUFFICES ASSUME NEW s \in Servers, handler'[s].step = "answer",
                      NEW m \in DOMAIN handler'[s].read, Exists(m)'
               PROVE  handler'[s].persona \notin fetched'[m]
    BY DEF AnswersNew
  <1>0. TypeOK /\ m \in Messages /\ row'[m] # Deleted
    <2>1. DOMAIN handler'[s].read \subseteq Messages
      BY HandlerTypedPrimed
    <2> QED
      BY <2>1 DEF MailInv, Exists
  <1>1. CASE ConsumeMessages(s)
    <2> DEFINE h == handler[s]
    <2>1. /\ CommitLists(s) /\ h.step = "consume" /\ m \in DOMAIN h.read
          /\ handler'[s].persona = h.persona
      BY <1>0, <1>1, GoesOn
    <2>2. Exists(m)
      BY <1>0, <2>1, ConsumedRow DEF Exists
    <2>3. h.persona \in h.read[m] /\ h.read[m] = Named(row[m].receivers)
      BY <2>1, <2>2 DEF MailInv, ReadsCover, Covers, ExactInv, ReadsExact
    <2>4. Named(row[m].receivers) \cap taken[m] = {} /\ fetched[m] \subseteq taken[m]
      BY <1>0, <2>2 DEF MailInv, FetchedTaken, ExactInv, TakenLeft
    <2>5. fetched' = fetched
      BY <2>1 DEF CommitLists
    <2> HIDE DEF h
    <2> QED
      BY <2>1, <2>3, <2>4, <2>5
  <1>2. CASE handler'[s] = handler[s]
    <2>1. handler[s] # Idle
      BY <1>2 DEF Idle
    <2>2. fetched' = fetched /\ row'[m] = row[m]
      BY <1>0, <1>2, <2>1, Alone
    <2> QED
      BY <1>2, <2>2 DEF ExactInv, AnswersNew, Exists
  <1> QED
    BY <1>0, <1>1, <1>2, HandlersBegin

LEMMA ExactStep ==
    ASSUME OneServer, MailInv, ExactInv, [Next]_vars
    PROVE  ExactInv'
  <1>0. TypeOK /\ TypeOK'
    BY TypeStep DEF MailInv
  <1>1. TakenLeft'
    BY <1>0, TakenLeftStep DEF ExactInv
  <1>4. AnswersNew'
    BY <1>0, AnswersNewStep
  <1>2. ReadsExact'
    <2> SUFFICES ASSUME NEW s \in Servers, handler'[s].step = "consume",
                        NEW m \in DOMAIN handler'[s].read, Exists(m)'
                 PROVE  handler'[s].read[m] = Named(row'[m].receivers)
      BY DEF ReadsExact
    <2>1. CASE FetchMessages(s)
      BY <1>0, <2>1, Fetched
    <2>2. CASE handler'[s] = handler[s]
      <3>1. handler[s] # Idle /\ m \in Messages
        BY <1>0, <2>2, HandlerTyped DEF Idle
      <3>2. row'[m] # Deleted
        BY DEF Exists
      <3>3. row'[m] = row[m]
        BY <1>0, <2>2, <3>1, <3>2, Alone
      <3> QED
        BY <2>2, <3>3 DEF ExactInv, ReadsExact, Exists
    <2> QED
      BY <1>0, <2>1, <2>2, HandlersBegin
  <1>3. TouchAgrees'
    <2> SUFFICES ASSUME NEW s \in Servers, handler'[s].step = "touch",
                        handler'[s].room \in open'
                 PROVE  last'[handler'[s].room] = {handler'[s].msg}
      BY DEF TouchAgrees
    <2>1. CASE StoreMessage(s)
      <3>1. handler[s] \in Creating
        BY <1>0, <2>1, HandlerTyped DEF StoreMessage
      <3>2. handler'[s] = [handler[s] EXCEPT !.step = "touch"]
        BY <1>0, <2>1 DEF StoreMessage, TypeOK
      <3>3. handler'[s].room = handler[s].room /\ handler'[s].msg = handler[s].msg
        BY <3>1, <3>2 DEF Creating
      <3>4. handler[s].room \in Rooms
        BY <3>1 DEF Creating
      <3> QED
        BY <1>0, <2>1, <3>3, <3>4 DEF StoreMessage, Pointed, TypeOK
    <2>2. CASE handler'[s] = handler[s]
      <3>1. handler[s] # Idle
        BY <2>2 DEF Idle
      <3> QED
        BY <1>0, <2>2, <3>1, Alone DEF ExactInv, TouchAgrees
    <2> QED
      BY <1>0, <2>1, <2>2, HandlersBegin
  <1> QED
    BY <1>1, <1>2, <1>3, <1>4 DEF ExactInv

LEMMA ExactInvAlways ==
    ASSUME OneServer
    PROVE  Spec => []ExactInv
  <1>1. Init => ExactInv
    <2>1. Init => \A m \in Messages : ~ Exists(m)
      BY DEF Init, Exists
    <2>2. Init => \A s \in Servers :
                     handler[s].step \notin {"consume", "answer", "touch"}
      BY DEF Init, Idle
    <2> QED
      BY <2>1, <2>2 DEF ExactInv, TakenLeft, ReadsExact, AnswersNew, TouchAgrees
  <1>2. MailInv /\ ExactInv /\ [Next]_vars => ExactInv'
    BY ExactStep
  <1>3. Spec => []MailInv
    BY MailInvAlways DEF IdsStay
  <1> QED
    BY <1>1, <1>2, <1>3, PTL DEF Spec

\* Whoever has got a message does not find it again, on one server: the list
\* written back is the list in the table (chat.go:556 and 576).
THEOREM ReadOnlyOnce ==
    ASSUME OneServer
    PROVE  Spec => []ReadOnce
  <1>1. MailInv /\ ExactInv => ReadOnce
    BY DEF MailInv, FetchedTaken, ExactInv, TakenLeft, ReadOnce
  <1>2. Spec => []MailInv
    BY MailInvAlways DEF IdsStay
  <1> QED
    BY <1>1, <1>2, ExactInvAlways, PTL

\* On one server the second update of createMessage changes nothing, so that
\* last_message_id moves to a message only as that is stored (chat.go:446-453).
THEOREM LastAdvances ==
    ASSUME OneServer
    PROVE  Spec => LastOnlyAdvances
  <1> DEFINE Advances ==
        \A r \in Rooms : last'[r] # last[r] => \A m \in last'[r] : ~ Exists(m)
  <1>1. TypeOK /\ ExactInv /\ [Next]_vars => [Advances]_vars
    <2> SUFFICES ASSUME TypeOK, ExactInv, [Next]_vars, NEW r \in Rooms,
                        last'[r] # last[r], NEW m \in last'[r]
                 PROVE  ~ Exists(m)
      OBVIOUS
    <2>1. ASSUME NEW s \in Servers, StoreMessage(s)
          PROVE  ~ Exists(m)
      <3>1. last' = Pointed(handler[s].room, handler[s].msg)
        BY <2>1 DEF StoreMessage
      <3>2. last'[r] = {handler[s].msg}
        BY <3>1 DEF Pointed, TypeOK
      <3> QED
        BY <2>1, <3>2, StoredRow
    <2>2. ASSUME NEW s \in Servers, TouchRoom(s)
          PROVE  UNCHANGED last
      BY <2>2 DEF TouchRoom, Pointed, ExactInv, TouchAgrees, TypeOK
    <2>3. \/ UNCHANGED last
          \/ \E s \in Servers : StoreMessage(s) \/ TouchRoom(s)
      BY DEF Next, vars, Handle, DeleteRoom, StartMessage, FetchMessages, RefuseMessage,
         TouchFails, ConsumeMessages, CommitUnreported, CommitLists, ConsumeFails,
         AnswerMessages, AnswerLost, Crash, CleanUp, CleanUpFails
    <2> QED
      BY <2>1, <2>2, <2>3
  <1>2. LastOnlyAdvances <=> [][Advances]_vars
    BY PTL DEF LastOnlyAdvances
  <1> HIDE DEF Advances
  <1> QED
    BY <1>1, <1>2, TypeCorrect, ExactInvAlways, PTL DEF Spec

-----------------------------------------------------------------------------
(* The handlers implement Mailbox *)

Exactly == Cardinality(Servers) = 1

\* The mailbox's variables, as Box reads them off the table.
BoxStored == {m \in Messages : Exists(m)}
BoxSent == [m \in Messages |-> IF Exists(m) THEN row[m].sent ELSE {}]
BoxWaiting == [m \in Messages |->
                  IF Exists(m) THEN Named(row[m].receivers) ELSE {}]
BoxTaken == [m \in Messages |-> IF Exists(m) THEN taken[m] ELSE {}]
BoxGot == [m \in Messages |-> IF Exists(m) THEN fetched[m] ELSE {}]

BoxInv == MailInv /\ (Exactly => ExactInv)

LEMMA BoxPost ==
    ASSUME MailInv, TypeOK', NEW s \in Servers, StoreMessage(s)
    PROVE  Box!Next
  <1> PICK n, S : n = handler[s].msg /\ S = Named(handler[s].to)
    OBVIOUS
  <1>1. /\ n \in Messages /\ ~ Exists(n)
        /\ row'[n] \in Stored
        /\ Named(row'[n].receivers) = S
        /\ row'[n].sent = S
        /\ taken'[n] = {} /\ fetched'[n] = {}
        /\ \A m \in Messages : m # n => UNCHANGED <<row[m], taken[m], fetched[m]>>
    BY StoredRow DEF MailInv
  <1>2. S \in SUBSET Personas
    BY HandlerTyped, NamedIds DEF StoreMessage, Creating, MailInv
  <1>3. Exists(n)'
    BY <1>1, RowsPrimed
  <1>4. \A m \in Messages : m # n => (Exists(m)' <=> Exists(m))
    BY <1>1 DEF Exists
  <1>5. n \notin BoxStored /\ BoxStored' = BoxStored \cup {n}
    BY <1>1, <1>3, <1>4 DEF BoxStored
  <1>6. BoxSent' = [BoxSent EXCEPT ![n] = S]
    BY <1>1, <1>3, <1>4 DEF BoxSent
  <1>7. BoxWaiting' = [BoxWaiting EXCEPT ![n] = S]
    BY <1>1, <1>3, <1>4 DEF BoxWaiting
  <1>8. BoxGot' = [BoxGot EXCEPT ![n] = {}]
    BY <1>1, <1>3, <1>4 DEF BoxGot
  <1>9. BoxTaken' = [BoxTaken EXCEPT ![n] = {}]
    BY <1>1, <1>3, <1>4 DEF BoxTaken
  <1>10. Box!Post(n)
    BY <1>2, <1>5, <1>6, <1>7, <1>8, <1>9
       DEF Box!Post, BoxStored, BoxSent, BoxWaiting, BoxTaken, BoxGot
  <1> QED
    BY <1>1, <1>10 DEF Box!Next

LEMMA BoxTake ==
    ASSUME BoxInv, TypeOK', NEW s \in Servers, CommitLists(s)
    PROVE  Box!Next
  <1> DEFINE h == handler[s]
             M == {m \in DOMAIN h.read : Exists(m)}
             list(m) == h.read[m]
  <1> PICK p : p = h.persona
    OBVIOUS
  <1>0. TypeOK /\ h.step = "consume"
    BY DEF BoxInv, MailInv, CommitLists
  <1>1. p \in Personas /\ M \subseteq Messages
    BY <1>0, HandlerTyped DEF Reading
  <1>2. \A m \in M : /\ Exists(m) /\ row'[m] \in Stored
                     /\ row'[m].sent = row[m].sent
                     /\ Named(row'[m].receivers) = list(m) \ {p}
                     /\ taken'[m] = taken[m] \cup {p}
    BY <1>0, <1>1, ConsumedRow
  <1>3. \A m \in Messages : m \notin M => row'[m] = row[m] /\ taken'[m] = taken[m]
    BY <1>0, ConsumedRow
  <1>4. \A m \in M : /\ p \in list(m)
                     /\ list(m) \subseteq row[m].sent
                     /\ row[m].sent \subseteq list(m) \cup taken[m]
    BY <1>0 DEF BoxInv, MailInv, ReadsCover, Covers
  <1>5. Exactly => \A m \in M : list(m) = Named(row[m].receivers)
    BY <1>0 DEF BoxInv, ExactInv, ReadsExact
  <1>6. \A m \in M : row[m].sent \in SUBSET Personas
    BY <1>0, <1>1, RowsExist DEF Stored
  <1> HIDE DEF M, list
  <1>7. \A m \in Messages : Exists(m)' <=> Exists(m)
    <2> SUFFICES ASSUME NEW m \in Messages PROVE Exists(m)' <=> Exists(m)
      OBVIOUS
    <2>1. CASE m \in M
      BY <1>2, <2>1, RowsPrimed
    <2>2. CASE m \notin M
      BY <1>3, <2>2 DEF Exists
    <2> QED
      BY <2>1, <2>2
  <1>8. M \in SUBSET BoxStored /\ BoxStored' = BoxStored
    BY <1>1, <1>2, <1>7 DEF BoxStored
  <1>9. BoxSent' = BoxSent
    <2>1. \A m \in Messages : Exists(m) => row'[m].sent = row[m].sent
      BY <1>2, <1>3
    <2> QED
      BY <1>7, <2>1 DEF BoxSent
  <1>10. BoxTaken' = [m \in Messages |->
                       IF m \in M THEN BoxTaken[m] \cup {p} ELSE BoxTaken[m]]
    BY <1>2, <1>3, <1>7 DEF BoxTaken
  <1>11. \A m \in Messages :
            /\ m \in M => BoxWaiting'[m] = list(m) \ {p}
            /\ m \notin M => BoxWaiting'[m] = BoxWaiting[m]
    BY <1>2, <1>3, <1>7 DEF BoxWaiting
  <1>12. BoxWaiting' \in [Messages -> SUBSET Personas]
    <2>1. \A m \in Messages : Exists(m)' => Named(row'[m].receivers) \in SUBSET Personas
      BY RowsPrimed, NamedIds DEF Stored
    <2> QED
      BY <2>1 DEF BoxWaiting
  <1>13. \A m \in M : /\ BoxSent[m] = row[m].sent
                      /\ BoxTaken[m] = taken[m]
                      /\ BoxWaiting[m] = Named(row[m].receivers)
    BY <1>1, <1>2 DEF BoxSent, BoxTaken, BoxWaiting
  <1>14. ASSUME NEW m \in M
         PROVE  p \in IF Exactly THEN BoxWaiting[m] ELSE BoxSent[m]
    BY <1>4, <1>5, <1>13
  <1>15. ASSUME NEW m \in M
         PROVE  BoxWaiting'[m] \in
                   IF Exactly THEN {BoxWaiting[m] \ {p}}
                   ELSE {S \in SUBSET (BoxSent[m] \ {p}) :
                            BoxSent[m] \ (BoxTaken[m] \cup {p}) \subseteq S}
    <2>1. BoxWaiting'[m] = list(m) \ {p}
      BY <1>1, <1>11
    <2>2. CASE Exactly
      BY <1>5, <1>13, <2>1, <2>2
    <2>3. CASE ~ Exactly
      <3>1. list(m) \ {p} \in SUBSET (BoxSent[m] \ {p})
        BY <1>4, <1>13
      <3>2. BoxSent[m] \ (BoxTaken[m] \cup {p}) \subseteq list(m) \ {p}
        BY <1>4, <1>13
      <3> QED
        BY <2>1, <2>3, <3>1, <3>2
    <2> QED
      BY <2>2, <2>3
  <1>16. \A m \in Messages :
            BoxWaiting'[m] \in IF m \in M THEN Box!LeftOver(m, p) ELSE {BoxWaiting[m]}
    BY <1>11, <1>15 DEF Box!LeftOver, Exactly, BoxSent, BoxTaken, BoxWaiting
  <1>17. BoxGot' = BoxGot
    BY <1>7 DEF BoxGot, CommitLists
  <1>18. Box!Take(p)
    BY <1>8, <1>9, <1>10, <1>12, <1>14, <1>16, <1>17
       DEF Box!Take, Exactly, BoxStored, BoxSent, BoxTaken, BoxGot, BoxWaiting
  <1> QED
    BY <1>1, <1>18 DEF Box!Next

LEMMA BoxGet ==
    ASSUME BoxInv, NEW s \in Servers, AnswerMessages(s)
    PROVE  Box!Next
  <1> DEFINE h == handler[s]
             M == {m \in DOMAIN h.read : Exists(m)}
  <1> PICK p : p = h.persona
    OBVIOUS
  <1>0. TypeOK /\ h.step = "answer" /\ UNCHANGED <<row, taken>>
    BY DEF BoxInv, MailInv, AnswerMessages
  <1>1. p \in Personas /\ M \subseteq Messages
    BY <1>0, HandlerTyped DEF Reading
  <1>2. \A m \in M : p \in taken[m]
    BY <1>0 DEF BoxInv, MailInv, AnswersTaken
  <1>3. Exactly => \A m \in M : p \notin fetched[m]
    BY <1>0 DEF BoxInv, ExactInv, AnswersNew
  <1>4. \A m \in Messages :
           Exists(m) => fetched'[m] = IF m \in M THEN fetched[m] \cup {p} ELSE fetched[m]
    BY <1>0, AnsweredRow
  <1>5. \A m \in M : Exists(m)
    OBVIOUS
  <1> HIDE DEF M, h
  <1>6. /\ BoxStored' = BoxStored /\ BoxSent' = BoxSent
        /\ BoxWaiting' = BoxWaiting /\ BoxTaken' = BoxTaken
    BY <1>0 DEF BoxStored, BoxSent, BoxWaiting, BoxTaken, Exists
  <1>7. M \in SUBSET BoxStored
    BY <1>1, <1>5 DEF BoxStored
  <1>8. BoxGot' = [m \in Messages |-> IF m \in M THEN BoxGot[m] \cup {p} ELSE BoxGot[m]]
    BY <1>0, <1>1, <1>4, <1>5 DEF BoxGot, Exists
  <1>9. \A m \in M : p \in BoxTaken[m] /\ (Exactly => p \notin BoxGot[m])
    BY <1>1, <1>2, <1>3, <1>5 DEF BoxTaken, BoxGot
  <1>10. Box!Get(p)
    BY <1>6, <1>7, <1>8, <1>9
       DEF Box!Get, Exactly, BoxStored, BoxSent, BoxWaiting, BoxTaken, BoxGot
  <1> QED
    BY <1>1, <1>10 DEF Box!Next

LEMMA BoxRemove ==
    ASSUME MailInv, TypeOK', NEW g \in cleanups, CleanUp(g)
    PROVE  Box!Next
  <1> DEFINE M == {m \in Messages : Exists(m) /\ row'[m] = Deleted}
  <1>1. \A m \in M : /\ m \in Messages /\ Exists(m) /\ ~ Exists(m)'
                     /\ row[m].receivers = NullIds
    <2> SUFFICES ASSUME NEW m \in M
                 PROVE  ~ Exists(m)' /\ row[m].receivers = NullIds
      OBVIOUS
    <2>1. ~ Exists(m)'
      BY DEF Exists
    <2>2. row'[m] # row[m]
      BY <2>1 DEF Exists
    <2> QED
      BY <2>1, <2>2, CleanedRow DEF MailInv
  <1>2. \A m \in Messages : m \notin M => row'[m] = row[m] /\ (Exists(m)' <=> Exists(m))
    BY CleanedRow DEF MailInv, Exists
  <1>3. taken' = taken /\ fetched' = fetched
    BY DEF CleanUp
  <1>4. \A m \in M : row[m].sent \subseteq taken[m]
    BY <1>1 DEF MailInv, LeavesByOwnFetch, Named, NullIds
  <1>5. \A m \in M : Named(row[m].receivers) = {}
    BY <1>1 DEF Named, NullIds
  <1> HIDE DEF M
  <1>6. M \in SUBSET BoxStored /\ BoxStored' = BoxStored \ M
    BY <1>1, <1>2 DEF BoxStored
  <1>7. BoxSent' = [m \in Messages |-> IF m \in M THEN {} ELSE BoxSent[m]]
    BY <1>1, <1>2 DEF BoxSent
  <1>8. BoxGot' = [m \in Messages |-> IF m \in M THEN {} ELSE BoxGot[m]]
    BY <1>1, <1>2, <1>3 DEF BoxGot
  <1>9. BoxWaiting' = BoxWaiting
    BY <1>1, <1>2, <1>5 DEF BoxWaiting
  <1>10. \A m \in M : BoxWaiting[m] = {} /\ BoxSent[m] \subseteq BoxTaken[m]
    BY <1>1, <1>4, <1>5 DEF BoxWaiting, BoxSent, BoxTaken
  <1>11. BoxTaken' = [m \in Messages |-> IF m \in M THEN {} ELSE BoxTaken[m]]
    BY <1>1, <1>2, <1>3 DEF BoxTaken
  <1>12. Box!Remove
    BY <1>6, <1>7, <1>8, <1>9, <1>10, <1>11
       DEF Box!Remove, BoxStored, BoxSent, BoxTaken, BoxGot, BoxWaiting
  <1> QED
    BY <1>12 DEF Box!Next

\* The handlers of chat.go and their cleanup keep the promise of Mailbox: every
\* message waits for each receiver until a fetch of its own takes it, on any
\* number of servers that give no id twice, and on one server each gets it at
\* most once (chat.go:421-436 and 550-602).
THEOREM MailboxKept ==
    ASSUME IsFiniteSet(Servers), IdsStay
    PROVE  Spec => MailboxSpec
  <1>1. Init => Box!Init
    <2>1. Init => \A m \in Messages : ~ Exists(m)
      BY DEF Init, Exists
    <2> QED
      BY <2>1 DEF Box!Init, Box!Nobody
  <1>2. BoxInv /\ BoxInv' /\ [Next]_vars => [Box!Next]_(Box!vars)
    <2> SUFFICES ASSUME BoxInv, TypeOK', [Next]_vars
                 PROVE  [Box!Next]_(Box!vars)
      BY DEF BoxInv, MailInv
    <2>1. CASE UNCHANGED <<row, taken, fetched>>
      BY <2>1 DEF Box!vars, Exists
    <2>4. CASE \E s \in Servers : AnswerMessages(s)
      BY <2>4, BoxGet
    <2>2. CASE \E s \in Servers : StoreMessage(s) \/ CommitLists(s)
      BY <2>2, BoxPost, BoxTake DEF BoxInv
    <2>3. CASE \E g \in cleanups : CleanUp(g)
      BY <2>3, BoxRemove DEF BoxInv
    <2> QED
      BY <2>1, <2>2, <2>3, <2>4, OtherSteps, AnswerSteps
  <1>3. Spec => []MailInv
    BY MailInvAlways
  <1>4. Spec => [](Exactly => ExactInv)
    <2>1. CASE Exactly
      <3>1. OneServer
        BY <2>1, FS_Singleton DEF Exactly, OneServer
      <3>2. Spec => []ExactInv
        BY <3>1, ExactInvAlways
      <3> QED
        BY <3>2, PTL
    <2>2. CASE ~ Exactly
      BY <2>2, PTL
    <2> QED
      BY <2>1, <2>2
  <1>5. MailInv /\ (Exactly => ExactInv) => BoxInv
    BY DEF BoxInv
  <1> QED
    BY <1>1, <1>2, <1>3, <1>4, <1>5, PTL DEF Spec, MailboxSpec, Box!Spec
=============================================================================
