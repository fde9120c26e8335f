----------------------------- MODULE ChatRoomsProofs -----------------------------
(***************************************************************************)
(* ChatRooms for any rooms, personas and requests.  Rooms appear whole on  *)
(* any number of servers: the rows a transaction holds and the personas it *)
(* has still to insert are together those it was asked for.  On one server *)
(* what the lookup of a direct room has found stays so until the commit.   *)
(***************************************************************************)
EXTENDS ChatRooms, TLAPS

OneServer == \A r, s \in Servers : r = s

Left(h) == {h.left[i] : i \in DOMAIN h.left}

\* A transaction has inserted, or will, whomever it was asked for.
AllAsked ==
    \A s \in Servers :
        handler[s] # Idle => handler[s].asked = handler[s].rows \cup Left(handler[s])

\* Nobody takes part in a room that is not there yet.
NobodyYet == \A r \in Rooms : room[r] = "unborn" => Members(r) = {}

RoomsInv == TypeOK /\ AllAsked /\ NobodyYet

-----------------------------------------------------------------------------
LEMMA HandlerTyped ==
    ASSUME TypeOK, NEW s \in Servers
    PROVE  /\ handler[s] # Idle => handler[s] \in Creating
           /\ handler[s].step = "insert" => handler[s] \in Creating
  BY DEF TypeOK, Idle

LEMMA RowsAreRows ==
    /\ Defaults \in Settings
    /\ \A x \in Settings : x # NoRow
  BY DEF Defaults, Settings, NoRow

LEMMA Begins ==
    ASSUME TypeOK, NEW s \in Servers, NEW kind \in {"group", "direct", "blind"},
           NEW r \in Rooms, NEW ids \in Seq(Personas), Begin(s, kind, r, ids)
    PROVE  /\ handler'[s] \in Creating
           /\ handler'[s].for = kind
           /\ handler'[s].rows = {}
           /\ handler'[s].left = ids
           /\ handler'[s].asked = {ids[i] : i \in DOMAIN ids}
           /\ \A q \in Servers : q # s => handler'[q] = handler[q]
           /\ handler' \in [Servers -> {Idle} \cup Creating]
           /\ UNCHANGED <<room, pref>>
  <1> DEFINE asked == {ids[i] : i \in DOMAIN ids}
             h == [step |-> "insert", for |-> kind, room |-> r, rows |-> {},
                   left |-> ids, asked |-> asked]
  <1>1. asked \in SUBSET Personas
    OBVIOUS
  <1>2. handler' = [handler EXCEPT ![s] = h] /\ UNCHANGED <<room, pref>>
    BY DEF Begin
  <1> HIDE DEF asked
  <1>3. h \in Creating
    BY <1>1 DEF Creating
  <1>4. handler'[s] = h
    BY <1>2 DEF TypeOK
  <1>5. \A q \in Servers : q # s => handler'[q] = handler[q]
    BY <1>2 DEF TypeOK
  <1>6. handler' \in [Servers -> {Idle} \cup Creating]
    BY <1>2, <1>3 DEF TypeOK
  <1> QED
    BY <1>2, <1>3, <1>4, <1>5, <1>6 DEF asked

\* What the two handlers that create rooms begin.
LEMMA Creations ==
    ASSUME TypeOK, NEW s \in Servers, CreateChatRoom(s) \/ GetOrCreateChatRoom(s)
    PROVE  /\ UNCHANGED <<room, pref>>
           /\ handler' \in [Servers -> {Idle} \cup Creating]
           /\ \A q \in Servers : q # s => handler'[q] = handler[q]
           /\ handler'[s] \in Creating
           /\ handler'[s].asked = handler'[s].rows \cup Left(handler'[s])
           /\ handler'[s].for = "direct" =>
                 \A p, q \in handler'[s].asked : p # q => DirectRooms(p, q) = {}
  <1>1. CASE CreateChatRoom(s)
    <2>1. PICK r \in Rooms, creator \in Personas, n \in 0..MaxInvited :
              \E others \in [1..n -> Personas \ {creator}] :
                 Begin(s, "group", r, <<creator>> \o others)
      BY <1>1 DEF CreateChatRoom
    <2>2. PICK others \in [1..n -> Personas \ {creator}] :
              Begin(s, "group", r, <<creator>> \o others)
      BY <2>1
    <2>3. n \in Nat
      BY RoomsAssumption
    <2>4. others \in Seq(Personas)
      BY <2>3
    <2>5. <<creator>> \o others \in Seq(Personas)
      BY <2>4
    <2> DEFINE ids == <<creator>> \o others
    <2> HIDE DEF ids
    <2>6. Begin(s, "group", r, ids) /\ ids \in Seq(Personas)
      BY <2>2, <2>5 DEF ids
    <2> QED
      BY <2>6, Begins DEF Left
  <1>2. CASE GetOrCreateChatRoom(s)
    <2>1. PICK me \in Personas, target \in Personas, r \in Rooms :
              \/ /\ DirectRooms(me, target) = {}
                 /\ Begin(s, "direct", r, <<me, target>>)
              \/ Begin(s, "blind", r, <<me, target>>)
      BY <1>2 DEF GetOrCreateChatRoom
    <2> DEFINE ids == <<me, target>>
    <2>2. /\ ids \in Seq(Personas)
          /\ {ids[i] : i \in DOMAIN ids} = {me, target}
      OBVIOUS
    <2> HIDE DEF ids
    <2>3. \/ DirectRooms(me, target) = {} /\ Begin(s, "direct", r, ids)
          \/ Begin(s, "blind", r, ids)
      BY <2>1 DEF ids
    <2>4. DirectRooms(me, target) = DirectRooms(target, me)
      BY DEF DirectRooms
    <2>5. CASE DirectRooms(me, target) = {} /\ Begin(s, "direct", r, ids)
      <3>0. "direct" \in {"group", "direct", "blind"}
        OBVIOUS
      <3>1. /\ handler'[s].asked = {ids[i] : i \in DOMAIN ids}
            /\ handler'[s].rows = {}
            /\ handler'[s].left = ids
            /\ handler'[s] \in Creating
            /\ \A q \in Servers : q # s => handler'[q] = handler[q]
            /\ handler' \in [Servers -> {Idle} \cup Creating]
            /\ UNCHANGED <<room, pref>>
        BY <2>2, <2>5, <3>0, Begins
      <3>2. \A p, q \in {me, target} : p # q => DirectRooms(p, q) = {}
        BY <2>4, <2>5
      <3> QED
        BY <2>2, <3>1, <3>2 DEF Left
    <2>6. CASE Begin(s, "blind", r, ids)
      BY <2>2, <2>6, Begins DEF Left
    <2> QED
      BY <2>3, <2>5, <2>6
  <1> QED
    BY <1>1, <1>2

LEMMA Inserts ==
    ASSUME TypeOK, NEW s \in Servers, InsertParticipant(s)
    PROVE  /\ UNCHANGED <<room, pref>>
           /\ handler' \in [Servers -> {Idle} \cup Creating]
           /\ \A q \in Servers : q # s => handler'[q] = handler[q]
           /\ \/ handler'[s] = Idle
              \/ /\ handler'[s] \in Creating
                 /\ handler'[s].for = handler[s].for
                 /\ handler'[s].asked = handler[s].asked
                 /\ handler'[s].rows \cup Left(handler'[s])
                       = handler[s].rows \cup Left(handler[s])
  <1> DEFINE h == handler[s]
             p == Head(h.left)
             g == [h EXCEPT !.rows = h.rows \cup {p}, !.left = Tail(h.left)]
  <1>1. h \in Creating /\ h.left # <<>>
    BY HandlerTyped DEF InsertParticipant
  <1>2. h.left \in Seq(Personas) /\ h.rows \in SUBSET Personas
    BY <1>1 DEF Creating
  <1>3. p \in Personas /\ Tail(h.left) \in Seq(Personas)
    BY <1>1, <1>2
  <1>4. g \in Creating
    BY <1>1, <1>2, <1>3 DEF Creating
  <1>5. /\ g.for = h.for
        /\ g.asked = h.asked
        /\ g.rows = h.rows \cup {p}
        /\ g.left = Tail(h.left)
    BY <1>1 DEF Creating
  <1>6. Left(h) = {p} \cup Left(g)
    <2> DEFINE l == h.left
    <2>1. {l[i] : i \in DOMAIN l} = {Head(l)} \cup {Tail(l)[i] : i \in DOMAIN Tail(l)}
      <3>1. l \in Seq(Personas) /\ l # <<>>
        BY <1>1, <1>2
      <3> HIDE DEF l
      <3>2. /\ Len(l) \in Nat /\ Len(l) >= 1
            /\ DOMAIN l = 1..Len(l)
            /\ Head(l) = l[1]
            /\ DOMAIN Tail(l) = 1..(Len(l) - 1)
            /\ \A i \in 1..(Len(l) - 1) : Tail(l)[i] = l[i + 1]
        BY <3>1
      <3>3. ASSUME NEW i \in 1..Len(l)
            PROVE  l[i] \in {Head(l)} \cup {Tail(l)[j] : j \in DOMAIN Tail(l)}
        <4>1. CASE i = 1
          BY <3>2, <4>1
        <4>2. CASE i # 1
          <5>1. i - 1 \in 1..(Len(l) - 1) /\ Tail(l)[i - 1] = l[i]
            BY <3>2, <4>2
          <5> QED
            BY <3>2, <5>1
        <4> QED
          BY <4>1, <4>2
      <3>4. ASSUME NEW i \in 1..(Len(l) - 1)
            PROVE  Tail(l)[i] \in {l[j] : j \in DOMAIN l}
        <4>1. i + 1 \in 1..Len(l)
          BY <3>2
        <4> QED
          BY <3>2, <4>1
      <3>5. Head(l) \in {l[j] : j \in DOMAIN l}
        BY <3>2
      <3> QED
        BY <3>2, <3>3, <3>4, <3>5
    <2> QED
      BY <1>5, <2>1 DEF Left
  <1>7. handler' = [handler EXCEPT ![s] = IF p \in h.rows THEN Idle ELSE g]
    BY DEF InsertParticipant
  <1>8. handler'[s] = Idle \/ handler'[s] = g
    BY <1>7 DEF TypeOK
  <1>9. handler' \in [Servers -> {Idle} \cup Creating]
    BY <1>4, <1>7 DEF TypeOK
  <1>10. \A q \in Servers : q # s => handler'[q] = handler[q]
    BY <1>7 DEF TypeOK
  <1> HIDE DEF g, p
  <1>11. g.rows \cup Left(g) = h.rows \cup Left(h)
    BY <1>5, <1>6
  <1> QED
    BY <1>4, <1>5, <1>8, <1>9, <1>10, <1>11 DEF InsertParticipant

LEMMA Commits ==
    ASSUME TypeOK, NEW s \in Servers, CommitRoom(s)
    PROVE  LET h == handler[s]
           IN  /\ h \in Creating /\ Left(h) = {}
               /\ room' = [room EXCEPT ![h.room] = "open"]
               /\ \A r \in Rooms, p \in Personas :
                     pref'[<<r, p>>] = IF r = h.room /\ p \in h.rows
                                   THEN Defaults ELSE pref[<<r, p>>]
               /\ pref' \in [Rooms \X Personas -> Settings \cup {NoRow}]
               /\ handler'[s] = Idle
               /\ handler' \in [Servers -> {Idle} \cup Creating]
               /\ \A q \in Servers : q # s => handler'[q] = handler[q]
  <1>1. handler[s] \in Creating
    BY HandlerTyped DEF CommitRoom
  <1>2. Left(handler[s]) = {}
    BY DEF CommitRoom, Left
  <1>3. pref' = [rp \in Rooms \X Personas |->
                    IF rp[1] = handler[s].room /\ rp[2] \in handler[s].rows
                    THEN Defaults ELSE pref[rp]]
    BY DEF CommitRoom
  <1>4. pref' \in [Rooms \X Personas -> Settings \cup {NoRow}]
    BY <1>3, RowsAreRows DEF TypeOK
  <1>5. \A r \in Rooms, p \in Personas :
            pref'[<<r, p>>] = IF r = handler[s].room /\ p \in handler[s].rows
                          THEN Defaults ELSE pref[<<r, p>>]
    BY <1>3
  <1>6. handler' = [handler EXCEPT ![s] = Idle]
    BY DEF CommitRoom
  <1>7. /\ handler'[s] = Idle
        /\ handler' \in [Servers -> {Idle} \cup Creating]
        /\ \A q \in Servers : q # s => handler'[q] = handler[q]
    BY <1>6 DEF TypeOK
  <1> QED
    BY <1>1, <1>2, <1>4, <1>5, <1>7 DEF CommitRoom

\* The requests of one statement, which keep every handler as it is.
LEMMA Settles ==
    ASSUME TypeOK, NEW s \in Servers,
           \/ AddParticipant(s) \/ RemoveParticipant(s)
           \/ UpdateAlarmSetting(s) \/ UpdateScreenshotSetting(s)
    PROVE  /\ UNCHANGED <<room, handler>>
           /\ handler[s] = Idle
           /\ pref' \in [Rooms \X Personas -> Settings \cup {NoRow}]
           /\ \A r \in Rooms, p \in Personas :
                 (room[r] = "unborn" /\ pref[<<r, p>>] = NoRow) => pref'[<<r, p>>] = NoRow
  <1>1. PICK r, p, x : /\ r \in Rooms /\ p \in Personas
                       /\ room[r] # "unborn" \/ pref[<<r, p>>] # NoRow
                       /\ x \in Settings \cup {NoRow}
                       /\ pref' = [pref EXCEPT ![<<r, p>>] = x]
    <2>1. CASE AddParticipant(s)
      BY <2>1, RowsAreRows DEF AddParticipant, Known
    <2>2. CASE RemoveParticipant(s)
      BY <2>2 DEF RemoveParticipant
    <2>3. CASE UpdateAlarmSetting(s)
      <3>1. PICK r \in Rooms, p \in Personas, enabled \in BOOLEAN :
                /\ pref[<<r, p>>] # NoRow
                /\ pref' = [pref EXCEPT ![<<r, p>>].alarm = enabled]
        BY <2>3 DEF UpdateAlarmSetting
      <3>2. pref[<<r, p>>] \in Settings
        BY <3>1 DEF TypeOK
      <3>3. [pref[<<r, p>>] EXCEPT !.alarm = enabled] \in Settings
        BY <3>2 DEF Settings
      <3>4. pref' = [pref EXCEPT ![<<r, p>>] = [pref[<<r, p>>] EXCEPT !.alarm = enabled]]
        BY <3>1
      <3> QED
        BY <3>1, <3>3, <3>4
    <2>4. CASE UpdateScreenshotSetting(s)
      <3>1. PICK r \in Rooms, p \in Personas, approved \in BOOLEAN :
                /\ pref[<<r, p>>] # NoRow
                /\ pref' = [pref EXCEPT ![<<r, p>>].screenshot = approved]
        BY <2>4 DEF UpdateScreenshotSetting
      <3>2. pref[<<r, p>>] \in Settings
        BY <3>1 DEF TypeOK
      <3>3. [pref[<<r, p>>] EXCEPT !.screenshot = approved] \in Settings
        BY <3>2 DEF Settings
      <3>4. pref' = [pref EXCEPT ![<<r, p>>] = [pref[<<r, p>>] EXCEPT !.screenshot = approved]]
        BY <3>1
      <3> QED
        BY <3>1, <3>3, <3>4
    <2> QED
      BY <2>1, <2>2, <2>3, <2>4
  <1>2. pref' \in [Rooms \X Personas -> Settings \cup {NoRow}]
    BY <1>1 DEF TypeOK
  <1>3. ASSUME NEW q \in Rooms, NEW o \in Personas, room[q] = "unborn", pref[<<q, o>>] = NoRow
        PROVE  pref'[<<q, o>>] = NoRow
    BY <1>1, <1>3 DEF TypeOK
  <1> QED
    BY <1>2, <1>3 DEF AddParticipant, RemoveParticipant, UpdateAlarmSetting,
       UpdateScreenshotSetting

LEMMA Ends ==
    ASSUME TypeOK, NEW s \in Servers, RollBackRoom(s) \/ Crash(s)
    PROVE  /\ UNCHANGED <<room, pref>>
           /\ handler'[s] = Idle
           /\ handler' \in [Servers -> {Idle} \cup Creating]
           /\ \A q \in Servers : q # s => handler'[q] = handler[q]
  BY DEF RollBackRoom, Crash, TypeOK

-----------------------------------------------------------------------------
LEMMA RoomsStep ==
    ASSUME RoomsInv, [Next]_vars
    PROVE  RoomsInv'
  <1>0. TypeOK
    BY DEF RoomsInv
  <1>1. ASSUME UNCHANGED <<room, pref>>,
               handler' \in [Servers -> {Idle} \cup Creating],
               \A q \in Servers :
                  \/ handler'[q] = handler[q]
                  \/ handler'[q] = Idle
                  \/ handler'[q].asked = handler'[q].rows \cup Left(handler'[q])
        PROVE  RoomsInv'
    <2>1. TypeOK'
      BY <1>0, <1>1 DEF TypeOK
    <2>2. NobodyYet'
      BY <1>1 DEF RoomsInv, NobodyYet, Members
    <2>3. AllAsked'
      BY <1>1 DEF RoomsInv, AllAsked
    <2> QED
      BY <2>1, <2>2, <2>3 DEF RoomsInv
  <1>2. ASSUME NEW s \in Servers, CreateChatRoom(s) \/ GetOrCreateChatRoom(s)
        PROVE  RoomsInv'
    BY <1>0, <1>1, <1>2, Creations
  <1>3. ASSUME NEW s \in Servers, InsertParticipant(s)
        PROVE  RoomsInv'
    <2>1. ASSUME handler'[s] # Idle
          PROVE  handler'[s].asked = handler'[s].rows \cup Left(handler'[s])
      <3>1. handler[s] # Idle
        BY <1>3 DEF InsertParticipant, Idle
      <3> QED
        BY <1>0, <1>3, <2>1, <3>1, Inserts DEF RoomsInv, AllAsked
    <2> QED
      BY <1>0, <1>1, <1>3, <2>1, Inserts
  <1>4. ASSUME NEW s \in Servers, CommitRoom(s)
        PROVE  RoomsInv'
    <2> DEFINE h == handler[s]
    <2>1. /\ h.room \in Rooms
          /\ room' = [room EXCEPT ![h.room] = "open"]
          /\ \A r \in Rooms, p \in Personas :
                r # h.room => pref'[<<r, p>>] = pref[<<r, p>>]
      BY <1>0, <1>4, Commits DEF Creating
    <2> HIDE DEF h
    <2>2. TypeOK'
      BY <1>0, <1>4, <2>1, Commits DEF TypeOK
    <2>3. AllAsked'
      BY <1>0, <1>4, Commits DEF RoomsInv, AllAsked
    <2>4. NobodyYet'
      <3> SUFFICES ASSUME NEW r \in Rooms, room'[r] = "unborn"
                   PROVE  Members(r)' = {}
        BY DEF NobodyYet
      <3>1. r # h.room /\ room[r] = "unborn"
        BY <1>0, <2>1 DEF TypeOK
      <3>2. Members(r) = {}
        BY <3>1 DEF RoomsInv, NobodyYet
      <3> QED
        BY <2>1, <3>1, <3>2 DEF Members
    <2> QED
      BY <2>2, <2>3, <2>4 DEF RoomsInv
  <1>5. ASSUME NEW s \in Servers, RollBackRoom(s) \/ Crash(s)
        PROVE  RoomsInv'
    BY <1>0, <1>1, <1>5, Ends
  <1>6. ASSUME NEW s \in Servers, DeleteChatRoom(s)
        PROVE  RoomsInv'
    <2>1. PICK r \in Rooms : /\ room[r] = "open"
                             /\ room' = [room EXCEPT ![r] = "deleted"]
                             /\ UNCHANGED <<pref, handler>>
      BY <1>6 DEF DeleteChatRoom
    <2>2. \A q \in Rooms : room'[q] = "unborn" => room[q] = "unborn"
      BY <1>0, <2>1 DEF TypeOK
    <2> QED
      BY <1>0, <2>1, <2>2 DEF RoomsInv, TypeOK, AllAsked, NobodyYet, Members
  <1>7. ASSUME NEW s \in Servers,
               \/ AddParticipant(s) \/ RemoveParticipant(s)
               \/ UpdateAlarmSetting(s) \/ UpdateScreenshotSetting(s)
        PROVE  RoomsInv'
    <2>1. /\ UNCHANGED <<room, handler>>
          /\ pref' \in [Rooms \X Personas -> Settings \cup {NoRow}]
          /\ \A r \in Rooms, p \in Personas :
                (room[r] = "unborn" /\ pref[<<r, p>>] = NoRow) => pref'[<<r, p>>] = NoRow
      BY <1>0, <1>7, Settles
    <2>2. NobodyYet'
      BY <2>1 DEF RoomsInv, NobodyYet, Members
    <2> QED
      BY <1>0, <2>1, <2>2 DEF RoomsInv, TypeOK, AllAsked
  <1>8. CASE UNCHANGED vars
    BY <1>0, <1>1, <1>8 DEF vars, TypeOK
  <1> QED
    BY <1>2, <1>3, <1>4, <1>5, <1>6, <1>7, <1>8 DEF Next

LEMMA RoomsInvAlways == Spec => []RoomsInv
  <1>1. Init => RoomsInv
    BY DEF Init, RoomsInv, TypeOK, AllAsked, NobodyYet, Members
  <1> QED
    BY <1>1, RoomsStep, PTL DEF Spec

\* The rows of rooms and participants, and what a transaction holds, keep
\* their types (chat.go:74-116 and 176-213).
THEOREM TypeCorrect == Spec => []TypeOK
  <1>1. RoomsInv => TypeOK
    BY DEF RoomsInv
  <1> QED
    BY <1>1, RoomsInvAlways, PTL

\* A room becomes visible with exactly the participants it was asked for, or
\* not at all, on any number of servers (chat.go:74-116 and 176-213).
THEOREM RoomsWhole == Spec => RoomsAppearWhole
  <1> DEFINE Whole ==
        \A r \in Rooms :
          /\ room[r] = "unborn" /\ room'[r] = "open"
               => \E s \in Servers : /\ handler[s] # Idle
                                     /\ handler[s].room = r
                                     /\ Members(r)' = handler[s].asked
          /\ room'[r] = "unborn" => Members(r)' = {}
  <1>1. RoomsInv /\ RoomsInv' /\ [Next]_vars => [Whole]_vars
    <2> SUFFICES ASSUME RoomsInv, RoomsInv', [Next]_vars, NEW r \in Rooms
                 PROVE  /\ room[r] = "unborn" /\ room'[r] = "open"
                             => \E s \in Servers : /\ handler[s] # Idle
                                                   /\ handler[s].room = r
                                                   /\ Members(r)' = handler[s].asked
                        /\ room'[r] = "unborn" => Members(r)' = {}
      OBVIOUS
    <2>1. room'[r] = "unborn" => Members(r)' = {}
      BY DEF RoomsInv, NobodyYet
    <2>2. ASSUME NEW s \in Servers, CommitRoom(s),
                 room[r] = "unborn", room'[r] = "open"
          PROVE  /\ handler[s] # Idle
                 /\ handler[s].room = r
                 /\ Members(r)' = handler[s].asked
      <3> DEFINE h == handler[s]
      <3>1. h \in Creating /\ Left(h) = {}
        BY <2>2, Commits DEF RoomsInv
      <3>2. h # Idle
        BY <2>2 DEF CommitRoom, Idle
      <3>3. r = h.room
        BY <2>2, Commits DEF RoomsInv, TypeOK
      <3>4. h.asked = h.rows
        BY <3>1, <3>2 DEF RoomsInv, AllAsked
      <3>5. \A p \in Personas : pref[<<r, p>>] = NoRow
        BY <2>2 DEF RoomsInv, NobodyYet, Members
      <3>6. \A p \in Personas :
                pref'[<<r, p>>] = IF p \in h.rows THEN Defaults ELSE NoRow
        BY <2>2, <3>3, <3>5, Commits DEF RoomsInv
      <3>7. h.rows \in SUBSET Personas
        BY <3>1 DEF Creating
      <3>8. Defaults # NoRow
        BY RowsAreRows
      <3> HIDE DEF h
      <3>9. Members(r)' = h.rows
        BY <3>6, <3>7, <3>8 DEF Members
      <3> QED
        BY <3>2, <3>3, <3>4, <3>9 DEF h
    <2>3. ASSUME room[r] = "unborn", room'[r] = "open"
          PROVE  \E s \in Servers : CommitRoom(s)
      <3>1. ASSUME NEW s \in Servers, DeleteChatRoom(s) PROVE FALSE
        BY <2>3, <3>1 DEF DeleteChatRoom, RoomsInv, TypeOK
      <3> QED
        BY <2>3, <3>1, Creations, Inserts, Settles, Ends DEF Next, vars, RoomsInv
    <2> QED
      BY <2>1, <2>2, <2>3
  <1>2. RoomsAppearWhole <=> [][Whole]_vars
    BY PTL DEF RoomsAppearWhole
  <1> HIDE DEF Whole
  <1> QED
    BY <1>1, <1>2, RoomsInvAlways, PTL DEF Spec

-----------------------------------------------------------------------------
(* One server: between the lookup and the commit nothing else happens *)

DirectAbsent ==
    \A s \in Servers :
        (handler[s] # Idle /\ handler[s].for = "direct") =>
            \A p, q \in handler[s].asked : p # q => DirectRooms(p, q) = {}

LEMMA AbsentStep ==
    ASSUME OneServer, TypeOK, DirectAbsent, [Next]_vars
    PROVE  DirectAbsent'
  <1> SUFFICES ASSUME NEW s \in Servers, handler'[s] # Idle, handler'[s].for = "direct",
                      NEW p \in handler'[s].asked, NEW q \in handler'[s].asked, p # q
               PROVE  DirectRooms(p, q)' = {}
    BY DEF DirectAbsent
  <1>0. \A r \in Servers : r = s
    BY DEF OneServer
  <1>1. ASSUME UNCHANGED <<room, pref>>, DirectRooms(p, q) = {}
        PROVE  DirectRooms(p, q)' = {}
    BY <1>1 DEF DirectRooms, Members
  <1>2. CASE CreateChatRoom(s) \/ GetOrCreateChatRoom(s)
    BY <1>1, <1>2, Creations
  <1>3. CASE InsertParticipant(s)
    <2>1. handler[s] # Idle
      BY <1>3 DEF InsertParticipant, Idle
    <2> QED
      BY <1>1, <1>3, <2>1, Inserts DEF DirectAbsent
  <1>4. CASE CommitRoom(s) \/ RollBackRoom(s) \/ Crash(s)
    BY <1>4, Commits, Ends
  <1>5. CASE DeleteChatRoom(s)
    BY <1>5 DEF DeleteChatRoom
  <1>6. CASE \/ AddParticipant(s) \/ RemoveParticipant(s)
             \/ UpdateAlarmSetting(s) \/ UpdateScreenshotSetting(s)
    BY <1>6, Settles
  <1>7. CASE UNCHANGED vars
    BY <1>1, <1>7 DEF vars, DirectAbsent
  <1> QED
    BY <1>0, <1>2, <1>3, <1>4, <1>5, <1>6, <1>7 DEF Next

\* On one server a direct room whose lookup was answered is created only if
\* the pair has none at the commit (chat.go:160-213).
THEOREM LookupHolds ==
    ASSUME OneServer
    PROVE  Spec => CreatesOnlyIfAbsent
  <1> DEFINE Absent ==
        \A s \in Servers :
          (handler[s] # Idle /\ handler[s].for = "direct" /\ room' # room
             /\ handler'[s] = Idle)
          => \A p, q \in handler[s].asked :
                p # q => DirectRooms(p, q) = {}
  <1>1. Init => DirectAbsent
    BY DEF Init, DirectAbsent
  <1>2. TypeOK /\ DirectAbsent /\ [Next]_vars => DirectAbsent'
    BY AbsentStep
  <1>3. DirectAbsent => [Absent]_vars
    BY DEF DirectAbsent
  <1>4. CreatesOnlyIfAbsent <=> [][Absent]_vars
    BY PTL DEF CreatesOnlyIfAbsent
  <1> HIDE DEF Absent
  <1> QED
    BY <1>1, <1>2, <1>3, <1>4, TypeCorrect, PTL DEF Spec
=============================================================================
