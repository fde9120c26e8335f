------------------------------- MODULE ChatRooms -------------------------------
(***************************************************************************)
(* The rooms of routes/chat.go and who takes part in them: the tables      *)
(* chat_room and chat_room_preference, and the handlers that write them.   *)
(*                                                                         *)
(* A server process runs one handler at a time, because the gate holds its *)
(* mutex across c.Next() (HandlersExclusive of PepperGate); several server *)
(* processes share the database.  A step is one statement against the      *)
(* database; the rows a transaction has written stay in the handler's      *)
(* record until it commits.                                                *)
(*                                                                         *)
(* Handlers that only read (listPersonaChatRooms, getChatRoom,             *)
(* getChatRoomParticipants) change nothing and are left out.               *)
(***************************************************************************)
EXTENDS Naturals, FiniteSets, Sequences

CONSTANTS
    Servers,          \* server processes that share the database
    Rooms,            \* uuids the database will give to rooms
    Personas,         \* persona ids that occur in requests
    MaxInvited        \* bound: length of persona_ids in a request

ASSUME RoomsAssumption == MaxInvited \in Nat

VARIABLES
    room,     \* what became of each id: never given, a row, or deleted
    pref,     \* rows of chat_room_preference, by room and persona
    handler   \* what each server is doing

vars == <<room, pref, handler>>

\* A participant's row holds its two settings.
Settings == [alarm : BOOLEAN, screenshot : BOOLEAN]
NoRow == [row |-> "none"]

\* The column defaults of a new participant.
\* Mutant: screenshot_approved has none.
DefaultsWithoutScreenshot == [alarm |-> TRUE]
Defaults == [alarm |-> TRUE, screenshot |-> FALSE]

Idle == [step |-> "idle"]

\* A transaction that creates a room: the personas inserted so far, those
\* still to insert, and the request it answers: a direct room whose lookup
\* failed is a "blind" one.
Creating == [step : {"insert"}, for : {"group", "direct", "blind"}, room : Rooms,
             rows : SUBSET Personas, left : Seq(Personas),
             asked : SUBSET Personas]

TypeOK ==
    /\ room \in [Rooms -> {"unborn", "open", "deleted"}]
    /\ pref \in [Rooms \X Personas -> Settings \cup {NoRow}]
    /\ handler \in [Servers -> {Idle} \cup Creating]

Init ==
    /\ room = [r \in Rooms |-> "unborn"]
    /\ pref = [rp \in Rooms \X Personas |-> NoRow]
    /\ handler = [s \in Servers |-> Idle]

-----------------------------------------------------------------------------
Members(r) == {p \in Personas : pref[<<r, p>>] # NoRow}

\* The query of getOrCreatePersonaChatRoom: rooms with both personas and
\* exactly two participants.
DirectRooms(p, q) ==
    {r \in Rooms : room[r] = "open" /\ {p, q} = Members(r)}

\* Room ids are fresh uuids.  One that a running transaction holds is taken.
Fresh(r) ==
    /\ room[r] = "unborn"
    /\ \A s \in Servers : handler[s] # Idle => handler[s].room # r

\* Ids a client can have learnt from a response.
Known(r) == room[r] # "unborn"

\* The transaction's first statement inserts the room; its participants
\* follow in the order of ids.
Begin(s, kind, r, ids) ==
    /\ Fresh(r)
    /\ handler' = [handler EXCEPT ![s] =
          [step |-> "insert", for |-> kind, room |-> r, rows |-> {},
           left |-> ids, asked |-> {ids[i] : i \in DOMAIN ids}]]
    /\ UNCHANGED <<room, pref>>

\* createChatRoom: the creator first, then those of persona_ids that are not
\* the creator.
CreateChatRoom(s) ==
    /\ handler[s] = Idle
    /\ \E r \in Rooms, creator \in Personas, n \in 0..MaxInvited :
          \E others \in [1..n -> Personas \ {creator}] :
             Begin(s, "group", r, <<creator>> \o others)

\* Mutant of GetOrCreateChatRoom: it does not look first.
CreateDirectRoom(s) ==
    /\ handler[s] = Idle
    /\ \E me, target \in Personas :
          /\ me # target
          /\ \E r \in Rooms : Begin(s, "direct", r, <<me, target>>)

\* getOrCreatePersonaChatRoom, when the lookup does not come back with a
\* room: because there is none, or because the query failed.
GetOrCreateChatRoom(s) ==
    /\ handler[s] = Idle
    /\ \E me, target \in Personas, r \in Rooms :
          /\ me # target
          /\ \/ /\ DirectRooms(me, target) = {}
                /\ Begin(s, "direct", r, <<me, target>>)
             \/ Begin(s, "blind", r, <<me, target>>)

\* tx.Create of the next participant; (chat_room_id, persona_id) is the key.
\* Mutant: the participant is inserted outside the transaction.
InsertOutside(s) ==
    /\ handler[s].step = "insert"
    /\ handler[s].left # <<>>
    /\ LET p == Head(handler[s].left)
       IN  /\ p \notin handler[s].rows
           /\ pref' = [pref EXCEPT ![<<handler[s].room, p>>] = Defaults]
           /\ handler' = [handler EXCEPT
                 ![s].rows = @ \cup {p}, ![s].left = Tail(@)]
    /\ UNCHANGED room

InsertParticipant(s) ==
    /\ handler[s].step = "insert"
    /\ handler[s].left # <<>>
    /\ LET h == handler[s]
           p == Head(h.left)
       IN  handler' = [handler EXCEPT ![s] =
              IF p \in h.rows
              THEN Idle
              ELSE [h EXCEPT !.rows = h.rows \cup {p}, !.left = Tail(h.left)]]
    /\ UNCHANGED <<room, pref>>

\* tx.Commit: the room and its participants become visible together.
CommitRoom(s) ==
    /\ handler[s].step = "insert"
    /\ handler[s].left = <<>>
    /\ LET h == handler[s]
       IN  /\ room' = [room EXCEPT ![h.room] = "open"]
           /\ pref' = [rp \in Rooms \X Personas |->
                          IF rp[1] = h.room /\ rp[2] \in h.rows
                          THEN Defaults ELSE pref[rp]]
    /\ handler' = [handler EXCEPT ![s] = Idle]

\* A statement of the transaction, or its commit, fails: tx.Rollback, 500.
RollBackRoom(s) ==
    /\ handler[s].step = "insert"
    /\ handler' = [handler EXCEPT ![s] = Idle]
    /\ UNCHANGED <<room, pref>>

\* deleteChatRoom removes the row of the room and nothing else.
DeleteChatRoom(s) ==
    /\ handler[s] = Idle
    /\ \E r \in Rooms :
          /\ room[r] = "open"
          /\ room' = [room EXCEPT ![r] = "deleted"]
    /\ UNCHANGED <<pref, handler>>

\* addChatRoomParticipant; a persona that has a row already gets a 500.
AddParticipant(s) ==
    /\ handler[s] = Idle
    /\ \E r \in Rooms, p \in Personas :
          /\ Known(r)
          /\ pref[<<r, p>>] = NoRow
          /\ pref' = [pref EXCEPT ![<<r, p>>] = Defaults]
    /\ UNCHANGED <<room, handler>>

RemoveParticipant(s) ==
    /\ handler[s] = Idle
    /\ \E r \in Rooms, p \in Personas :
          /\ pref[<<r, p>>] # NoRow
          /\ pref' = [pref EXCEPT ![<<r, p>>] = NoRow]
    /\ UNCHANGED <<room, handler>>

\* updateAlarmSetting and updateScreenshotSetting: one column of one row.
UpdateAlarmSetting(s) ==
    /\ handler[s] = Idle
    /\ \E r \in Rooms, p \in Personas, enabled \in BOOLEAN :
          /\ pref[<<r, p>>] # NoRow
          /\ pref' = [pref EXCEPT ![<<r, p>>].alarm = enabled]
    /\ UNCHANGED <<room, handler>>

UpdateScreenshotSetting(s) ==
    /\ handler[s] = Idle
    /\ \E r \in Rooms, p \in Personas, approved \in BOOLEAN :
          /\ pref[<<r, p>>] # NoRow
          /\ pref' = [pref EXCEPT ![<<r, p>>].screenshot = approved]
    /\ UNCHANGED <<room, handler>>

\* The process dies inside a handler: the database rolls its transaction back.
Crash(s) ==
    /\ handler[s] # Idle
    /\ handler' = [handler EXCEPT ![s] = Idle]
    /\ UNCHANGED <<room, pref>>

Next ==
    \E s \in Servers :
        \/ CreateChatRoom(s) \/ GetOrCreateChatRoom(s)
        \/ InsertParticipant(s) \/ CommitRoom(s) \/ RollBackRoom(s)
        \/ DeleteChatRoom(s) \/ AddParticipant(s) \/ RemoveParticipant(s)
        \/ UpdateAlarmSetting(s) \/ UpdateScreenshotSetting(s)
        \/ Crash(s)

Spec == Init /\ [][Next]_vars

-----------------------------------------------------------------------------
\* getOrCreatePersonaChatRoom, if its lookup was answered, opens a room only
\* for a pair that has none at the moment it commits, although it looked some
\* statements earlier ("look a persona's chat room up, create it if there is
\* none", chat.go:147; the lookup is outside the transaction, 160-176).
CreatesOnlyIfAbsent ==
    [][\A s \in Servers :
          (handler[s] # Idle /\ handler[s].for = "direct" /\ room' # room
             /\ handler'[s] = Idle)
          => \A p, q \in handler[s].asked :
                p # q => DirectRooms(p, q) = {}]_vars

\* A room becomes visible with exactly the participants of the request that
\* created it, or not at all, wherever the handler fails or dies
\* (the transactions of chat.go:74-116 and 176-213).
RoomsAppearWhole ==
    [][\A r \in Rooms :
          /\ room[r] = "unborn" /\ room'[r] = "open"
               => \E s \in Servers : /\ handler[s] # Idle
                                     /\ handler[s].room = r
                                     /\ Members(r)' = handler[s].asked
          /\ room'[r] = "unborn" => Members(r)' = {}]_vars
=============================================================================
