------------------------------ MODULE ChatMessages ------------------------------
(***************************************************************************)
(* The messages of routes/chat.go: the table message, last_message_id of   *)
(* chat_room, the handlers createMessage and getChatRoomMessages, and the  *)
(* goroutines they leave behind.                                           *)
(*                                                                         *)
(* A message waits in the table for its receivers: receiver_ids holds the  *)
(* personas that have not read it yet.  Reading takes the reader out of    *)
(* the list, the last reader leaves NULL, and a cleanup goroutine deletes  *)
(* the messages whose receiver_ids is NULL.  A reader leaves the list when *)
(* its fetch commits, and has the message when the fetch is answered: two  *)
(* steps, and the second need not follow.                                  *)
(*                                                                         *)
(* As in ChatRooms a server runs one handler at a time (HandlersExclusive  *)
(* of PepperGate), but its goroutines run beside the handlers.  A step is  *)
(* one statement, or one transaction: those of this module hold the rows   *)
(* they write until they commit and read nothing.                          *)
(***************************************************************************)
EXTENDS Naturals, FiniteSets

CONSTANTS
    Servers,        \* server processes that share the database
    Rooms,          \* ids of rooms
    Personas,       \* persona ids
    Messages,       \* ids of messages: client-chosen, or the uuid default
    IdsRepeat,      \* a client may choose an id that has been in use
    Elsewhere,      \* what a reused string buffer can hold: no room's id
    BuffersReused,  \* fiber reuses the bytes of a parameter: its default
    BindsSlices,    \* the driver accepts a non-empty []string for text[]
    MayFail,        \* statements may fail
    MayCrash        \* server processes may die

ASSUME MessagesAssumption ==
    /\ Elsewhere \notin Rooms
    /\ {IdsRepeat, BuffersReused, BindsSlices, MayFail, MayCrash}
          \subseteq BOOLEAN

VARIABLES
    open,      \* the rooms there are
    last,      \* last_message_id of each room, a set of at most one
    row,       \* the table message
    taken,     \* history: in whose name a fetch of it has committed ...
    fetched,   \* ... and who has been answered with it, since its creation
    handler,   \* what each server is doing
    cleanups   \* cleanup goroutines that are to run

vars == <<open, last, row, taken, fetched, handler, cleanups>>

\* An id without a row, and one whose row has been deleted.
Unused == [row |-> "none"]
Deleted == [row |-> "deleted"]

\* A value of the column receiver_ids: NULL, or one list of personas.
NullIds == {}
Ids == {NullIds} \cup {{S} : S \in SUBSET Personas}

\* The personas it names; NULL and the empty list name nobody.
Named(ids) == UNION ids

Stored == [room : Rooms, receivers : Ids, sent : SUBSET Personas]

Idle == [step |-> "idle"]

\* createMessage: "create" is before its transaction, "touch" after it.
Creating == [step : {"create", "touch"}, msg : Messages, room : Rooms,
             to : Ids]

\* getChatRoomMessages with the messages it has read: "consume" is before the
\* commit of its transaction, "answer" after it.
Reading == [step : {"consume", "answer"}, room : Rooms, persona : Personas,
            read : UNION {[S -> SUBSET Personas] : S \in SUBSET Messages}]

\* A cleanup goroutine, and whether the handler that started it has returned.
Cleanups == [server : Servers, room : Rooms, returned : BOOLEAN]

TypeOK ==
    /\ open \subseteq Rooms
    /\ last \in [Rooms -> {{}} \cup {{m} : m \in Messages}]
    /\ row \in [Messages -> Stored \cup {Unused, Deleted}]
    /\ taken \in [Messages -> SUBSET Personas]
    /\ fetched \in [Messages -> SUBSET Personas]
    /\ handler \in [Servers -> {Idle} \cup Creating \cup Reading]
    /\ cleanups \subseteq Cleanups

Init ==
    /\ open \in SUBSET Rooms
    /\ last = [r \in Rooms |-> {}]
    /\ row = [m \in Messages |-> Unused]
    /\ taken = [m \in Messages |-> {}]
    /\ fetched = [m \in Messages |-> {}]
    /\ handler = [s \in Servers |-> Idle]
    /\ cleanups = {}

-----------------------------------------------------------------------------
Exists(m) == row[m] \notin {Unused, Deleted}

\* The primary key admits the id.
\* Mutant: the insert overwrites a row that is there.
InsertableOver(m) == row[m] = Unused \/ IdsRepeat

Insertable(m) == row[m] = Unused \/ (IdsRepeat /\ row[m] = Deleted)

Reply(s) == handler' = [handler EXCEPT ![s] = Idle]

\* A room is deleted without its messages (deleteChatRoom).
DeleteRoom(s) ==
    /\ handler[s] = Idle
    /\ \E r \in open : open' = open \ {r}
    /\ UNCHANGED <<last, row, taken, fetched, handler, cleanups>>

-----------------------------------------------------------------------------
(* createMessage *)

\* The body is parsed and the room is looked up; without it: 400.
StartMessage(s) ==
    /\ handler[s] = Idle
    /\ \E m \in Messages, r \in open, to \in Ids :
          handler' = [handler EXCEPT ![s] =
             [step |-> "create", msg |-> m, room |-> r, to |-> to]]
    /\ UNCHANGED <<open, last, row, taken, fetched, cleanups>>

\* last_message_id of a room set to a message.  The room may be gone by now:
\* the update then matches no row, and that is no error.
\* Mutant: the old value stays beside the new one.
PointedToo(r, m) == [last EXCEPT ![r] = @ \cup {m}]

Pointed(r, m) == IF r \in open THEN [last EXCEPT ![r] = {m}] ELSE last

\* The transaction: insert the message, point the room at it.
\* Mutant: the room is left to the second update.
StoreUnpointed(s) ==
    /\ handler[s].step = "create"
    /\ LET h == handler[s]
       IN  /\ Insertable(h.msg)
           /\ row' = [row EXCEPT ![h.msg] =
                 [room |-> h.room, receivers |-> h.to, sent |-> Named(h.to)]]
           /\ taken' = [taken EXCEPT ![h.msg] = {}]
           /\ fetched' = [fetched EXCEPT ![h.msg] = {}]
    /\ handler' = [handler EXCEPT ![s].step = "touch"]
    /\ UNCHANGED <<open, last, cleanups>>

StoreMessage(s) ==
    /\ handler[s].step = "create"
    /\ LET h == handler[s]
       IN  /\ Insertable(h.msg)
           /\ row' = [row EXCEPT ![h.msg] =
                 [room |-> h.room, receivers |-> h.to, sent |-> Named(h.to)]]
           /\ last' = Pointed(h.room, h.msg)
           /\ taken' = [taken EXCEPT ![h.msg] = {}]
           /\ fetched' = [fetched EXCEPT ![h.msg] = {}]
    /\ handler' = [handler EXCEPT ![s].step = "touch"]
    /\ UNCHANGED <<open, cleanups>>

\* The id is taken (a client repeats a request), or a statement fails: 500.
RefuseMessage(s) ==
    /\ handler[s].step = "create"
    /\ ~ Insertable(handler[s].msg) \/ MayFail
    /\ Reply(s)
    /\ UNCHANGED <<open, last, row, taken, fetched, cleanups>>

\* The room is pointed at the message once more, outside the transaction;
\* then the goroutine that notifies the receivers is started (it touches none
\* of these tables), and the client gets its 201.
TouchRoom(s) ==
    /\ handler[s].step = "touch"
    /\ last' = Pointed(handler[s].room, handler[s].msg)
    /\ Reply(s)
    /\ UNCHANGED <<open, row, taken, fetched, cleanups>>

\* The second update fails, or the commit before it took effect and was
\* reported as failed: 500 for a message that is stored, and nobody is
\* notified of it.
TouchFails(s) ==
    /\ MayFail
    /\ handler[s].step = "touch"
    /\ Reply(s)
    /\ UNCHANGED <<open, last, row, taken, fetched, cleanups>>

-----------------------------------------------------------------------------
(* getChatRoomMessages *)

\* The messages of a room that wait for a persona are read.
FetchMessages(s) ==
    /\ handler[s] = Idle
    /\ \E r \in Rooms, p \in Personas :
          LET found == {m \in Messages : Exists(m) /\ row[m].room = r
                                         /\ p \in Named(row[m].receivers)}
          IN  handler' = [handler EXCEPT ![s] =
                 [step |-> "consume", room |-> r, persona |-> p,
                  read |-> [m \in found |-> Named(row[m].receivers)]]]
    /\ UNCHANGED <<open, last, row, taken, fetched, cleanups>>

\* The list without the reader.  gorm renders the slice newReceiverIDs as a
\* row of values: (NULL) when it is empty, a string where an array is due
\* when it is not.
\* Mutants: the reader stays in the list; the whole list is emptied.
RestWithReader(list, p) == {list}
RestOfNobody(list, p) == NullIds

Rest(list, p) == IF list = {p} THEN NullIds ELSE {list \ {p}}
Accepted(list, p) == list = {p} \/ BindsSlices

\* The messages whose lists the handler's transaction writes back; a message
\* that has been deleted since it was read matches no row.
Written(h) == {m \in DOMAIN h.read : Exists(m)}

\* The transaction commits.
CommitLists(s) ==
    /\ handler[s].step = "consume"
    /\ LET h == handler[s]
       IN  /\ \A m \in DOMAIN h.read : Accepted(h.read[m], h.persona)
           /\ row' = [m \in Messages |->
                 IF m \in Written(h)
                 THEN [row[m] EXCEPT !.receivers = Rest(h.read[m], h.persona)]
                 ELSE row[m]]
           /\ taken' = [m \in Messages |->
                 IF m \in Written(h) THEN taken[m] \cup {h.persona} ELSE taken[m]]
    /\ UNCHANGED <<open, last, fetched>>

\* It commits, and the cleanup goroutine is started.
ConsumeMessages(s) ==
    /\ CommitLists(s)
    /\ cleanups' = cleanups \cup
          {[server |-> s, room |-> handler[s].room, returned |-> FALSE]}
    /\ handler' = [handler EXCEPT ![s].step = "answer"]

\* It commits, but the commit is reported as failed (the connection broke
\* before the database's answer): 500, and no goroutine.
CommitUnreported(s) ==
    /\ MayFail
    /\ CommitLists(s)
    /\ Reply(s)
    /\ UNCHANGED cleanups

\* The strings of a handler's parameters last until it returns.
Returned(s) ==
    {IF g.server = s THEN [g EXCEPT !.returned = TRUE] ELSE g : g \in cleanups}

\* The client gets the messages that were read.
\* Mutant: it gets those that could be read now.
AnswerRows(s) ==
    /\ handler[s].step = "answer"
    /\ LET h == handler[s]
       IN  fetched' = [m \in Messages |->
              IF m \in DOMAIN h.read /\ Exists(m)
                    /\ h.persona \in Named(row[m].receivers)
              THEN fetched[m] \cup {h.persona} ELSE fetched[m]]
    /\ Reply(s)
    /\ cleanups' = Returned(s)
    /\ UNCHANGED <<open, last, row, taken>>

AnswerMessages(s) ==
    /\ handler[s].step = "answer"
    /\ LET h == handler[s]
       IN  fetched' = [m \in Messages |->
              IF m \in DOMAIN h.read THEN fetched[m] \cup {h.persona}
              ELSE fetched[m]]
    /\ Reply(s)
    /\ cleanups' = Returned(s)
    /\ UNCHANGED <<open, last, row, taken>>

\* The client is gone before its answer has reached it.
AnswerLost(s) ==
    /\ MayFail
    /\ handler[s].step = "answer"
    /\ Reply(s)
    /\ cleanups' = Returned(s)
    /\ UNCHANGED <<open, last, row, taken, fetched>>

\* A list is not accepted, or a statement fails: rolled back, 500.
ConsumeFails(s) ==
    /\ handler[s].step = "consume"
    /\ \/ \E m \in DOMAIN handler[s].read :
             ~ Accepted(handler[s].read[m], handler[s].persona)
       \/ MayFail
    /\ Reply(s)
    /\ UNCHANGED <<open, last, row, taken, fetched, cleanups>>

\* What the cleanup goroutine takes for a message that waits for nobody.
\* Mutants: an empty list instead of NULL; every message.
HasEmptyList(m) == row[m].receivers = {{}}
IsInRoom(m) == TRUE

WaitsForNobody(m) == row[m].receivers = NullIds

\* The cleanup goroutine deletes the messages of a room that wait for nobody.
\* Its roomID is the string c.Params returned, valid until the handler returns:
\* after that its bytes may belong to another request.
CleanUp(g) ==
    /\ \E roomID \in IF BuffersReused /\ g.returned THEN Rooms \cup {Elsewhere}
                     ELSE {g.room} :
          row' = [m \in Messages |->
             IF Exists(m) /\ row[m].room = roomID /\ WaitsForNobody(m)
             THEN Deleted ELSE row[m]]
    /\ cleanups' = cleanups \ {g}
    /\ UNCHANGED <<open, last, taken, fetched, handler>>

\* Its statement fails; that is logged.
CleanUpFails(g) ==
    /\ MayFail
    /\ cleanups' = cleanups \ {g}
    /\ UNCHANGED <<open, last, row, taken, fetched, handler>>

-----------------------------------------------------------------------------
\* A process dies with its handler and its goroutines.  What it had not
\* committed is rolled back, what it had committed stays; nobody is answered.
Crash(s) ==
    /\ MayCrash
    /\ Reply(s)
    /\ cleanups' = {g \in cleanups : g.server # s}
    /\ UNCHANGED <<open, last, row, taken, fetched>>

\* What a server does inside a handler, once it is started.
Handle(s) ==
    \/ StoreMessage(s) \/ RefuseMessage(s) \/ TouchRoom(s) \/ TouchFails(s)
    \/ ConsumeMessages(s) \/ CommitUnreported(s) \/ ConsumeFails(s)
    \/ AnswerMessages(s) \/ AnswerLost(s)

Next ==
    \/ \E s \in Servers : \/ DeleteRoom(s)
                          \/ StartMessage(s) \/ FetchMessages(s)
                          \/ Handle(s) \/ Crash(s)
    \/ \E g \in cleanups : CleanUp(g) \/ CleanUpFails(g)

Spec == Init /\ [][Next]_vars

(***************************************************************************)
(* The Go scheduler runs every goroutine that can run, and the database    *)
(* answers every statement: a started handler and a started goroutine go   *)
(* on.  Nothing is assumed about which requests arrive.                    *)
(***************************************************************************)
Fairness ==
    /\ \A s \in Servers : WF_vars(Handle(s))
    /\ \A g \in Cleanups : WF_vars(g \in cleanups /\ CleanUp(g))

FairSpec == Spec /\ Fairness

-----------------------------------------------------------------------------
\* A persona that has been answered with a message does not find it in its
\* list again: the lists written back are those read some statements earlier
\* (chat.go:556 and 576, with other requests and a goroutine in between).
ReadOnce ==
    \A m \in Messages :
        Exists(m) => Named(row[m].receivers) \cap fetched[m] = {}

\* A message is deleted only after a fetch of its own has committed for
\* everyone it was sent to, in whatever room the cleanup goroutine looks
\* (chat.go:585-597).  Its answer may have been lost.
DeletedWhenTaken ==
    [][\A m \in Messages :
          Exists(m) /\ ~ Exists(m)' => row[m].sent \subseteq taken[m]
      ]_vars

\* A receiver leaves the list of a message only by a fetch of its own that
\* commits: no other request, no goroutine, no half-done or repeated one takes
\* it out (chat.go:421-436 and 563-585).
LeavesByOwnFetch ==
    \A m \in Messages :
        Exists(m) => row[m].sent \subseteq Named(row[m].receivers) \cup taken[m]

\* last_message_id of a room moves only to a message that is being created:
\* the second, unprotected update of chat.go:446-453 never turns it back.
LastOnlyAdvances ==
    [][\A r \in Rooms :
          last'[r] # last[r] => \A m \in last'[r] : ~ Exists(m)]_vars

\* A persona that asks for the messages of a room is taken out of their
\* lists ("Remove personaID from receiver_ids for each message",
\* chat.go:564).
ReaderRemoved ==
    [][\A s \in Servers :
          (handler[s].step = "consume" /\ handler'[s].step # "consume")
          => \A m \in DOMAIN handler[s].read :
                Exists(m)'
                => handler[s].persona \notin Named(row'[m].receivers)]_vars

\* A message everyone has read is removed in the end ("messages whose
\* receiver_ids are empty are cleaned up separately", chat.go:591).
ReadMessagesRemoved ==
    \A m \in Messages :
        (Exists(m) /\ row[m].receivers = NullIds /\ row[m].sent # {})
        ~> row[m] = Deleted

\* Whoever a fetch takes out of a list is answered with the message, if
\* nothing fails or dies: the answer follows the commit, whatever the cleanup
\* deletes in between (chat.go:585-602).
TakersServed ==
    \A m \in Messages, p \in Personas : p \in taken[m] ~> p \in fetched[m]

-----------------------------------------------------------------------------
\* The mailbox the personas see: the rows of the table, for whom a fetch has
\* committed and who has been answered.
Box == INSTANCE Mailbox WITH
    Exactly <- Cardinality(Servers) = 1,
    stored  <- {m \in Messages : Exists(m)},
    sent    <- [m \in Messages |-> IF Exists(m) THEN row[m].sent ELSE {}],
    waiting <- [m \in Messages |->
                   IF Exists(m) THEN Named(row[m].receivers) ELSE {}],
    taken   <- [m \in Messages |-> IF Exists(m) THEN taken[m] ELSE {}],
    got     <- [m \in Messages |-> IF Exists(m) THEN fetched[m] ELSE {}]

\* The lists of receivers, read in one statement and written in another, the
\* cleanup beside them and the answer after them keep the promise of a mailbox:
\* a message waits for each receiver until a fetch of its own takes it, and on
\* one server a receiver gets it at most once (chat.go:421-436 and 550-602).
MailboxSpec == Box!Spec
=============================================================================
