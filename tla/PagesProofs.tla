------------------------------- MODULE PagesProofs -------------------------------
(***************************************************************************)
(* Pages for any requests, members and rows: types, what is deleted stays  *)
(* deleted, no change without permission, no update of what is gone.       *)
(*                                                                         *)
(* The induction for permissions keeps, for each request, what its checks  *)
(* have already established in the history of what it could have seen:     *)
(* Backed.                                                                 *)
(***************************************************************************)
EXTENDS Pages, TLAPS

\* The history of a request allows the change of a persona's pages.
Allowed(h) == AsMember(h) \/ AsOwner(h)

\* What the step a request has come to says about its history h.
Backed(q, h) ==
    /\ q.step = "role" => q.op \in TypedOps /\ "organization" \in h.types
    /\ q.step = "preload" => q.op = "update post"
    /\ q.step = "owner" =>
          q.op \in PostOps \/ (q.op \in CheckedOps /\ NotOrganization(h))
    /\ q.step = "profile" => q.op \in CheckedOps /\ Allowed(h)
    /\ q.step = "media" => q.op \in CheckedOps /\ Allowed(h)
    /\ q.step = "write" =>
          /\ q.op \in CheckedOps => Allowed(h)
          /\ q.op = "update profile" => AsMember(h) \/ NotOrganization(h)
          /\ q.op \in OwnerOps \cup PostOps => h.owned

AllBacked == \A r \in Requests : Backed(request[r], seen[r])

\* The row a request has found is one its operation is about.
Fits(step, op, row) ==
    /\ step \in {"role", "profile", "media"} => row = NoRow
    /\ step = "preload" => op = "update post" /\ row \in Posts
    /\ step = "owner" => row \in IF op \in PostOps THEN Posts ELSE {NoRow}
    /\ step = "media" => op \in {"update media", "delete media"}
    /\ step = "write" =>
          /\ op \in PostOps => row \in Posts
          /\ op = "update persona" => row \in PersonaRows
          /\ op = "delete profile" => row \in Profiles
          /\ op \in {"update media", "delete media"} => row \in Media
    /\ step = "answered" =>
          /\ op = "delete profile" => row \in Profiles \cup {NoRow}
          /\ op = "delete media" => row \in Media \cup {NoRow}
          /\ op = "delete post" => row \in Posts \cup {NoRow}

RowFits(q) == q.step # "new" => Fits(q.step, q.op, q.row)

RowsFit == \A r \in Requests : RowFits(request[r])

PagesInv ==
    /\ PagesTypeOK
    /\ RowsFit
    /\ ProfilesHavePersonas
    /\ DeletedStays
    /\ AllBacked

\* A request step or a change of a role, without the history.
Moves == ChangeRole \/ \E r \in Requests : Serve(r)

-----------------------------------------------------------------------------
\* The parts of the type invariant, but for the history.
TablesTypeOK ==
    /\ persona \in PersonaRows \cup {Gone}
    /\ role \in [Members -> Roles]
    /\ profile \in [Profiles -> {"unused", "stored", "deleted"}]
    /\ media \in [Media -> Profiles \cup {Empty, "unused", "deleted"}]
    /\ post \in [Posts -> {"owned", "orphaned", "deleted"}]

LEMMA SightsTyped ==
    ASSUME PagesTypeOK, TablesTypeOK', Watch
    PROVE  seen' \in [Requests -> Sights]
  <1> SUFFICES ASSUME NEW r \in Requests
               PROVE  seen'[r] \in Sights
    BY DEF Watch
  <1>1. seen[r] \in Sights
    BY DEF PagesTypeOK
  <1>2. CASE request'[r].step \in {"new", "answered"}
    BY <1>2 DEF Watch, Unseen, Sights
  <1>3. CASE request'[r].step \notin {"new", "answered"}
    <2> DEFINE now == Sight(request'[r], persona', role')
    <2>1. seen'[r] = [types |-> seen[r].types \cup now.types,
                      owned |-> seen[r].owned \/ now.owned,
                      held |-> seen[r].held \/ now.held]
      BY <1>3 DEF Watch
    <2>2. now.types \subseteq Types \cup {Gone.type}
      <3>1. persona'.type \in Types \cup {Gone.type}
        BY DEF TablesTypeOK, PersonaRows
      <3> QED
        BY <3>1 DEF Sight
    <2> HIDE DEF now
    <2>3. seen[r].types \subseteq Types \cup {Gone.type}
      BY <1>1 DEF Sights
    <2> QED
      BY <2>1, <2>2, <2>3 DEF Sights
  <1> QED
    BY <1>2, <1>3

\* What a typed request is.
LEMMA RunningTyped ==
    ASSUME PagesTypeOK, NEW r \in Requests,
           request[r].step \notin {"new", "answered"}
    PROVE  request[r] \in Running
  BY DEF PagesTypeOK, New, Answered

LEMMA GotoTyped ==
    ASSUME PagesTypeOK, NEW r \in Requests, NEW q, Goto(r, q),
           q \in {New} \cup Running \cup Answered
    PROVE  request' \in [Requests -> {New} \cup Running \cup Answered]
  BY DEF PagesTypeOK, Goto

LEMMA ReplyTyped ==
    ASSUME PagesTypeOK, NEW r \in Requests, NEW ok \in BOOLEAN, NEW wrote \in BOOLEAN,
           request[r] \in Running, Reply(r, ok, wrote)
    PROVE  /\ request' \in [Requests -> {New} \cup Running \cup Answered]
           /\ request'[r].step = "answered"
           /\ request'[r].op = request[r].op
           /\ request'[r].ok = ok
           /\ request'[r].wrote = wrote
           /\ request'[r].row = IF request[r].op \in Deletions
                                THEN request[r].row ELSE NoRow
           /\ \A x \in Requests \ {r} : request'[x] = request[x]
  <1> DEFINE a == [step |-> "answered", op |-> request[r].op, ok |-> ok,
                   wrote |-> wrote,
                   row |-> IF request[r].op \in Deletions
                           THEN request[r].row ELSE NoRow]
  <1>1. request' = [request EXCEPT ![r] = a]
    BY DEF Reply, Goto
  <1>2. a \in Answered
    BY DEF Running, Answered, Rows
  <1>3. request \in [Requests -> {New} \cup Running \cup Answered]
    BY DEF PagesTypeOK
  <1> HIDE DEF a
  <1>4. request'[r] = a
    BY <1>1, <1>3
  <1> QED
    BY <1>1, <1>2, <1>3, <1>4 DEF a

RequestsTypeOK == request \in [Requests -> {New} \cup Running \cup Answered]

OthersWait(r) == \A x \in Requests \ {r} : request'[x] = request[x]

\* The steps that only read.
LEMMA AskTyped ==
    ASSUME PagesTypeOK, NEW r \in Requests,
           \/ AskAsOwner(r) \/ AskOnType(r) \/ AskOnPost(r) \/ AskToDeletePersona(r)
    PROVE  RequestsTypeOK' /\ OthersWait(r)
  <1>1. request \in [Requests -> {New} \cup Running \cup Answered]
    BY DEF PagesTypeOK
  <1>2. ASSUME NEW q, Goto(r, q), q \in Running
        PROVE  RequestsTypeOK' /\ OthersWait(r)
    BY <1>1, <1>2 DEF Goto, RequestsTypeOK, OthersWait
  <1>3. ASSUME NEW step \in {"preload", "role", "owner", "profile", "media",
                             "write"},
               NEW op \in Ops, NEW caller \in Callers, NEW row \in Rows,
               Begin(r, step, op, caller, row)
        PROVE  RequestsTypeOK' /\ OthersWait(r)
    BY <1>2, <1>3 DEF Begin, Running
  <1>4. CASE AskAsOwner(r)
    <2>1. persona \in PersonaRows
      BY <1>4 DEF AskAsOwner, Exists, PagesTypeOK
    <2>2. persona.did \in Callers
      BY <2>1 DEF PersonaRows, Callers
    <2>3. PICK op \in OwnerOps, row \in {NoRow} \cup PersonaRows :
              Begin(r, "write", op, persona.did, row)
      BY <1>4 DEF AskAsOwner, OwnerOps
    <2> QED
      BY <1>3, <2>2, <2>3 DEF Ops, Rows
  <1>5. CASE AskOnType(r)
    <2>1. PICK op \in TypedOps, c \in Callers :
              Begin(r, IF persona.type = "organization" THEN "role"
                       ELSE IF op = "update profile" THEN "write" ELSE "owner",
                    op, c, NoRow)
      BY <1>5 DEF AskOnType
    <2> QED
      BY <1>3, <2>1 DEF Ops, Rows, TypedOps
  <1>6. CASE AskOnPost(r)
    <2>1. PICK op \in PostOps, c \in Callers, x \in Posts :
              Begin(r, IF op = "update post" THEN "preload" ELSE "owner", op, c, x)
      BY <1>6 DEF AskOnPost
    <2> QED
      BY <1>3, <2>1 DEF Ops, Rows
  <1>7. CASE AskToDeletePersona(r)
    BY <1>3, <1>7 DEF AskToDeletePersona, Ops, Rows, Callers
  <1> QED
    BY <1>4, <1>5, <1>6, <1>7

LEMMA ReadTyped ==
    ASSUME PagesTypeOK, NEW r \in Requests,
           PreloadOwner(r) \/ CheckRole(r) \/ CheckOwner(r) \/ FindProfile(r)
        \/ FindMedia(r)
    PROVE  RequestsTypeOK' /\ OthersWait(r)
  <1>1. request \in [Requests -> {New} \cup Running \cup Answered]
    BY DEF PagesTypeOK
  <1>2. request[r] \in Running
    BY RunningTyped DEF PreloadOwner, CheckRole, CheckOwner, FindProfile,
         FindMedia
  <1>3. ASSUME NEW q, Goto(r, q), q \in Running
        PROVE  RequestsTypeOK' /\ OthersWait(r)
    BY <1>1, <1>3 DEF Goto, RequestsTypeOK, OthersWait
  <1>4. ASSUME NEW ok \in BOOLEAN, NEW wrote \in BOOLEAN, Reply(r, ok, wrote)
        PROVE  RequestsTypeOK' /\ OthersWait(r)
    BY <1>2, <1>4, ReplyTyped DEF RequestsTypeOK, OthersWait
  <1>5. ASSUME Resume(r) PROVE RequestsTypeOK' /\ OthersWait(r)
    <2> DEFINE q == [request[r] EXCEPT !.step =
                        IF request[r].op \in CheckedOps THEN "profile" ELSE "write"]
    <2>1. q \in Running
      BY <1>2 DEF Running
    <2> QED
      BY <1>3, <1>5, <2>1 DEF Resume
  <1>6. CASE CheckRole(r)
    BY <1>4, <1>5, <1>6 DEF CheckRole
  <1>7. CASE CheckOwner(r)
    BY <1>4, <1>5, <1>7 DEF CheckOwner, Fails
  <1>8. CASE FindProfile(r)
    <2> DEFINE q == request[r]
               next == IF q.op = "create media" THEN "write" ELSE "media"
    <2>1. CASE Fails(r)
      BY <1>4, <2>1 DEF Fails
    <2>2. CASE \E i \in ProfileStored : Goto(r, [q EXCEPT !.step = "write", !.row = i])
      <3>1. PICK i \in Profiles : Goto(r, [q EXCEPT !.step = "write", !.row = i])
        BY <2>2 DEF ProfileStored
      <3>2. [q EXCEPT !.step = "write", !.row = i] \in Running
        BY <1>2 DEF Running, Rows
      <3> QED
        BY <1>3, <3>1, <3>2
    <2>3. CASE \E i \in IF ProfileStored = {} THEN {Empty} ELSE ProfileStored :
                  Goto(r, [q EXCEPT !.step = next, !.found = i])
      <3>1. PICK i \in Profiles \cup {Empty} :
                Goto(r, [q EXCEPT !.step = next, !.found = i])
        BY <2>3 DEF ProfileStored
      <3>2. [q EXCEPT !.step = next, !.found = i] \in Running
        BY <1>2 DEF Running
      <3> QED
        BY <1>3, <3>1, <3>2
    <2> QED
      BY <1>8, <2>1, <2>2, <2>3 DEF FindProfile
  <1>9. CASE FindMedia(r)
    <2> DEFINE q == request[r]
    <2>1. CASE Fails(r)
      BY <1>4, <2>1 DEF Fails
    <2>2. CASE \E b \in MediaOf(q.found) : Goto(r, [q EXCEPT !.step = "write", !.row = b])
      <3>1. PICK b \in Media : Goto(r, [q EXCEPT !.step = "write", !.row = b])
        BY <2>2 DEF MediaOf
      <3>2. [q EXCEPT !.step = "write", !.row = b] \in Running
        BY <1>2 DEF Running, Rows
      <3> QED
        BY <1>3, <3>1, <3>2
    <2> QED
      BY <1>9, <2>1, <2>2 DEF FindMedia
  <1>10. CASE PreloadOwner(r)
    <2> DEFINE q == [request[r] EXCEPT !.step = "owner", !.owner = persona]
    <2>1. q \in Running
      BY <1>2 DEF Running, PagesTypeOK
    <2> QED
      BY <1>3, <1>10, <2>1 DEF PreloadOwner
  <1> QED
    BY <1>6, <1>7, <1>8, <1>9, <1>10

\* The steps that write, each of which answers its request.
Written(r) ==
    \/ CreateProfile(r) \/ UpdateProfile(r) \/ DeleteProfile(r)
    \/ CreateMedia(r) \/ UpdateMedia(r) \/ DeleteMedia(r)
    \/ UpdatePost(r) \/ DeletePost(r) \/ UpdatePersona(r) \/ DeletePersona(r)

LEMMA WriteTyped ==
    ASSUME PagesTypeOK, RowsFit, NEW r \in Requests, Written(r)
    PROVE  /\ TablesTypeOK' /\ RequestsTypeOK' /\ OthersWait(r)
           /\ request[r].step = "write"
           /\ request'[r].step = "answered"
           /\ request'[r].op = request[r].op
           /\ request'[r].row = IF request[r].op \in Deletions
                                THEN request[r].row ELSE NoRow
  <1> DEFINE Goal == /\ RequestsTypeOK' /\ OthersWait(r)
                     /\ request'[r].step = "answered"
                     /\ request'[r].op = request[r].op
                     /\ request'[r].row = IF request[r].op \in Deletions
                                          THEN request[r].row ELSE NoRow
  <1>1. request[r].step = "write"
    BY DEF Written, Writes, CreateProfile, UpdateProfile, DeleteProfile, CreateMedia,
           UpdateMedia, DeleteMedia, UpdatePost, DeletePost, UpdatePersona, DeletePersona
  <1>2. request[r] \in Running
    BY <1>1, RunningTyped
  <1>3. ASSUME NEW ok \in BOOLEAN, NEW wrote \in BOOLEAN, Reply(r, ok, wrote)
        PROVE  Goal
    BY <1>2, <1>3, ReplyTyped DEF RequestsTypeOK, OthersWait
  <1>4. TablesTypeOK
    BY DEF PagesTypeOK, TablesTypeOK
  <1> HIDE DEF Goal
  <1>5. CASE CreateProfile(r)
    <2>1. Goal
      BY <1>3, <1>5 DEF CreateProfile, Fails
    <2>2. TablesTypeOK'
      BY <1>4, <1>5 DEF CreateProfile, TablesTypeOK
    <2> QED
      BY <1>1, <2>1, <2>2 DEF Goal
  <1>6. CASE UpdateProfile(r) \/ UpdateMedia(r)
    <2>1. Goal
      <3>1. CASE UpdateProfile(r)
        BY <1>3, <3>1 DEF UpdateProfile
      <3>2. CASE UpdateMedia(r)
        BY <1>3, <3>2 DEF UpdateMedia
      <3> QED
        BY <1>6, <3>1, <3>2
    <2>2. TablesTypeOK'
      BY <1>4, <1>6 DEF UpdateProfile, UpdateMedia, tables, TablesTypeOK
    <2> QED
      BY <1>1, <2>1, <2>2 DEF Goal
  <1>7. CASE DeleteProfile(r)
    <2>1. Goal
      BY <1>3, <1>7 DEF DeleteProfile
    <2>2. TablesTypeOK'
      BY <1>4, <1>7 DEF DeleteProfile, TablesTypeOK
    <2> QED
      BY <1>1, <2>1, <2>2 DEF Goal
  <1>8. CASE CreateMedia(r)
    <2>1. Goal
      BY <1>3, <1>8 DEF CreateMedia, Fails
    <2>2. request[r].found \in Profiles \cup {Empty}
      BY <1>2 DEF Running
    <2>3. TablesTypeOK'
      BY <1>4, <1>8, <2>2 DEF CreateMedia, TablesTypeOK
    <2> QED
      BY <1>1, <2>1, <2>3 DEF Goal
  <1>9. CASE DeleteMedia(r)
    <2>1. Goal
      BY <1>3, <1>9 DEF DeleteMedia
    <2>2. TablesTypeOK'
      BY <1>4, <1>9 DEF DeleteMedia, TablesTypeOK
    <2> QED
      BY <1>1, <2>1, <2>2 DEF Goal
  <1>10. CASE DeletePost(r)
    <2>1. Goal
      BY <1>3, <1>10 DEF DeletePost
    <2>2. TablesTypeOK'
      BY <1>4, <1>10 DEF DeletePost, TablesTypeOK
    <2> QED
      BY <1>1, <2>1, <2>2 DEF Goal
  <1>11. CASE UpdatePersona(r)
    <2>1. Goal
      BY <1>3, <1>11 DEF UpdatePersona, Exists
    <2>2. request[r].row \in PersonaRows
      BY <1>1, <1>11 DEF RowsFit, RowFits, Fits, New, UpdatePersona, Writes
    <2>3. TablesTypeOK'
      BY <1>4, <1>11, <2>2 DEF UpdatePersona, TablesTypeOK
    <2> QED
      BY <1>1, <2>1, <2>3 DEF Goal
  <1>12. CASE DeletePersona(r)
    <2>1. Goal
      BY <1>3, <1>12 DEF DeletePersona, Exists
    <2>2. TablesTypeOK'
      BY <1>4, <1>12 DEF DeletePersona, TablesTypeOK, Roles
    <2> QED
      BY <1>1, <2>1, <2>2 DEF Goal
  <1>13. CASE UpdatePost(r)
    <2>1. Goal
      BY <1>3, <1>13 DEF UpdatePost, Fails
    <2>2. request[r].owner \in PersonaRows \cup {Gone}
      BY <1>2 DEF Running
    <2>3. ASSUME UNCHANGED tables PROVE TablesTypeOK'
      BY <1>4, <2>3 DEF tables, TablesTypeOK
    <2>4. ASSUME SaveWithOwner(request[r].owner, request[r].row)
          PROVE  TablesTypeOK'
      BY <1>4, <2>2, <2>4 DEF SaveWithOwner, TablesTypeOK
    <2>5. TablesTypeOK'
      BY <1>13, <2>3, <2>4 DEF UpdatePost
    <2> QED
      BY <1>1, <2>1, <2>5 DEF Goal
  <1> QED
    BY <1>5, <1>6, <1>7, <1>8, <1>9, <1>10, <1>11, <1>12, <1>13 DEF Written

\* What every step but Done does to the types.
LEMMA MoveTyped ==
    ASSUME PagesTypeOK, RowsFit, Moves, Watch
    PROVE  PagesTypeOK'
  <1>1. TablesTypeOK /\ RequestsTypeOK
    BY DEF PagesTypeOK, TablesTypeOK, RequestsTypeOK
  <1>2. TablesTypeOK' => seen' \in [Requests -> Sights]
    BY SightsTyped
  <1>3. CASE ChangeRole
    <2>1. TablesTypeOK' /\ RequestsTypeOK'
      BY <1>1, <1>3 DEF ChangeRole, TablesTypeOK, RequestsTypeOK
    <2> QED
      BY <1>2, <2>1 DEF PagesTypeOK, TablesTypeOK, RequestsTypeOK
  <1>4. ASSUME NEW r \in Requests, Serve(r) PROVE PagesTypeOK'
    <2>1. TablesTypeOK' /\ RequestsTypeOK'
      <3>1. CASE \/ AskAsOwner(r) \/ AskOnType(r) \/ AskOnPost(r)
                 \/ AskToDeletePersona(r)
        BY <1>1, <3>1, AskTyped DEF AskAsOwner, AskOnType, AskOnPost,
           AskToDeletePersona, tables, TablesTypeOK
      <3>2. CASE PreloadOwner(r) \/ CheckRole(r) \/ CheckOwner(r) \/ FindProfile(r)
        \/ FindMedia(r)
        BY <1>1, <3>2, ReadTyped DEF PreloadOwner, CheckRole, CheckOwner, FindProfile,
           FindMedia,
           tables, TablesTypeOK
      <3>3. CASE Written(r)
        BY <3>3, WriteTyped
      <3> QED
        BY <1>4, <3>1, <3>2, <3>3 DEF Serve, Written
    <2> QED
      BY <1>2, <2>1 DEF PagesTypeOK, TablesTypeOK, RequestsTypeOK
  <1> QED
    BY <1>3, <1>4 DEF Moves

-----------------------------------------------------------------------------
LEMMA RowsKeepFitting ==
    ASSUME PagesTypeOK, RowsFit, AllBacked, Moves
    PROVE  RowsFit'
  <1>1. request \in [Requests -> {New} \cup Running \cup Answered]
    BY DEF PagesTypeOK
  <1>2. CASE ChangeRole
    BY <1>2 DEF ChangeRole, RowsFit
  <1>3. ASSUME NEW r \in Requests, Serve(r) PROVE RowsFit'
    <2>1. ASSUME OthersWait(r), RowFits(request'[r]) PROVE RowsFit'
      BY <2>1 DEF OthersWait, RowsFit
    <2>2. request[r] \in Running => Fits(request[r].step, request[r].op, request[r].row)
      BY DEF RowsFit, RowFits, Running, New
    <2>3. ASSUME NEW q, Goto(r, q) PROVE request'[r] = q
      BY <1>1, <2>3 DEF Goto
    <2>4. CASE \/ AskAsOwner(r) \/ AskOnType(r) \/ AskOnPost(r)
               \/ AskToDeletePersona(r)
      <3>1. OthersWait(r)
        BY <2>4, AskTyped
      <3> SUFFICES RowFits(request'[r])
        BY <2>1, <3>1
      <3>2. ASSUME NEW step, NEW op, NEW caller, NEW row,
                   Begin(r, step, op, caller, row), Fits(step, op, row)
            PROVE  RowFits(request'[r])
        BY <2>3, <3>2 DEF Begin, RowFits
      <3>3. CASE AskAsOwner(r)
        <4>1. CASE Begin(r, "write", "create profile", persona.did, NoRow)
          <5>1. Fits("write", "create profile", NoRow)
            BY DEF Fits, PostOps
          <5> QED
            BY <3>2, <4>1, <5>1
        <4>2. CASE \E x \in PersonaRows :
                      Begin(r, "write", "update persona", persona.did, x)
          <5>1. PICK x \in PersonaRows :
                    Begin(r, "write", "update persona", persona.did, x)
            BY <4>2
          <5>2. Fits("write", "update persona", x)
            BY DEF Fits, PostOps
          <5> QED
            BY <3>2, <5>1, <5>2
        <4> QED
          BY <3>3, <4>1, <4>2 DEF AskAsOwner
      <3>4. CASE AskOnType(r)
        <4>1. PICK op \in TypedOps, c \in Callers :
                  Begin(r, IF persona.type = "organization" THEN "role"
                           ELSE IF op = "update profile" THEN "write" ELSE "owner",
                        op, c, NoRow)
          BY <3>4 DEF AskOnType
        <4>2. PICK step : /\ Begin(r, step, op, c, NoRow)
                          /\ \/ step \in {"role", "owner"}
                             \/ step = "write" /\ op = "update profile"
          BY <4>1
        <4>3. op \notin PostOps
          BY DEF TypedOps, ProfileOps, MediaOps, PostOps
        <4>4. Fits(step, op, NoRow)
          BY <4>2, <4>3 DEF Fits
        <4> QED
          BY <3>2, <4>2, <4>4
      <3>5. CASE AskOnPost(r)
        <4>1. PICK op \in PostOps, c \in Callers, x \in Posts :
                  Begin(r, IF op = "update post" THEN "preload" ELSE "owner", op, c, x)
          BY <3>5 DEF AskOnPost
        <4>2. Fits(IF op = "update post" THEN "preload" ELSE "owner", op, x)
          BY <4>1 DEF Fits
        <4> QED
          BY <3>2, <4>1, <4>2
      <3>6. CASE AskToDeletePersona(r)
        <4>1. Fits("write", "delete persona", NoRow)
          BY DEF Fits, PostOps
        <4> QED
          BY <3>2, <3>6, <4>1 DEF AskToDeletePersona
      <3> QED
        BY <2>4, <3>3, <3>4, <3>5, <3>6
    <2>5. CASE PreloadOwner(r) \/ CheckRole(r) \/ CheckOwner(r) \/ FindProfile(r)
        \/ FindMedia(r)
      <3> DEFINE q == request[r]
      <3>1. OthersWait(r)
        BY <2>5, ReadTyped
      <3> SUFFICES RowFits(request'[r])
        BY <2>1, <3>1
      <3>2. q \in Running
        BY <2>5, RunningTyped DEF PreloadOwner, CheckRole, CheckOwner, FindProfile,
         FindMedia
      <3>3. Fits(q.step, q.op, q.row)
        BY <2>2, <3>2
      <3>4. ASSUME NEW ok \in BOOLEAN, NEW wrote \in BOOLEAN, Reply(r, ok, wrote),
                   q.row \in {NoRow} \cup Posts,
                   q.op \notin PostOps => q.row = NoRow
            PROVE  RowFits(request'[r])
        <4>1. /\ request'[r].step = "answered"
              /\ request'[r].op = q.op
              /\ request'[r].row = IF q.op \in Deletions THEN q.row ELSE NoRow
          BY <3>2, <3>4, ReplyTyped
        <4>2. Fits("answered", q.op, IF q.op \in Deletions THEN q.row ELSE NoRow)
          BY <3>4 DEF Fits, PostOps
        <4> QED
          BY <4>1, <4>2 DEF RowFits
      <3>5. Backed(q, seen[r])
        BY DEF AllBacked
      <3>7. ASSUME Resume(r), q.step \in {"role", "owner"}
            PROVE  RowFits(request'[r])
        <4> DEFINE step == IF q.op \in CheckedOps THEN "profile" ELSE "write"
        <4>1. request'[r] = [q EXCEPT !.step = step]
          BY <2>3, <3>7 DEF Resume
        <4>2. request'[r].step = step /\ request'[r].op = q.op /\ request'[r].row = q.row
          BY <3>2, <4>1 DEF Running
        <4>3. q.step = "role" => q.op \in TypedOps
          BY <3>5 DEF Backed
        <4>4. q.step = "owner" => q.op \in PostOps \cup CheckedOps
          BY <3>5 DEF Backed
        <4>5. /\ q.op \in TypedOps => q.op = "update profile" \/ q.op \in CheckedOps
              /\ q.op \in PostOps => q.op \notin TypedOps
              /\ q.op \in CheckedOps => q.op \in TypedOps
          BY DEF TypedOps, CheckedOps, PostOps, ProfileOps, MediaOps
        <4>6. CASE q.op \in CheckedOps
          <5>1. q.row = NoRow
            BY <3>3, <3>7, <4>5, <4>6 DEF Fits
          <5>2. Fits("profile", q.op, q.row)
            BY <5>1 DEF Fits
          <5> QED
            BY <4>2, <4>6, <5>2 DEF RowFits
        <4>7. CASE q.op \in PostOps
          <5>1. q.row \in Posts
            BY <3>3, <3>7, <4>3, <4>5, <4>7 DEF Fits
          <5>2. Fits("write", q.op, q.row)
            BY <4>7, <5>1 DEF Fits, PostOps
          <5> QED
            BY <4>2, <4>5, <4>7, <5>2 DEF RowFits
        <4>8. CASE q.op = "update profile"
          <5>1. Fits("write", q.op, q.row) /\ q.op \notin CheckedOps
            BY <4>8 DEF Fits, PostOps, CheckedOps
          <5> QED
            BY <4>2, <5>1 DEF RowFits
        <4> QED
          BY <3>7, <4>3, <4>4, <4>5, <4>6, <4>7, <4>8
      <3>8. CASE CheckRole(r)
        <4>1. q.step = "role" /\ q.row = NoRow
          BY <3>3, <3>8 DEF CheckRole, Fits
        <4>2. CASE Resume(r)
          BY <3>7, <4>1, <4>2
        <4>3. CASE Reply(r, q.op = "delete profile", FALSE)
          BY <3>4, <4>1, <4>3
        <4> QED
          BY <3>8, <4>2, <4>3 DEF CheckRole
      <3>9. CASE CheckOwner(r)
        <4>1. /\ q.step = "owner"
              /\ q.row \in {NoRow} \cup Posts
              /\ q.op \notin PostOps => q.row = NoRow
          BY <3>3, <3>9 DEF CheckOwner, Fits
        <4>2. CASE Resume(r)
          BY <3>7, <4>1, <4>2
        <4>3. CASE Reply(r, FALSE, FALSE)
          BY <3>4, <4>1, <4>3
        <4> QED
          BY <3>9, <4>2, <4>3 DEF CheckOwner, Fails
      <3>10. CASE FindProfile(r)
        <4> DEFINE next == IF q.op = "create media" THEN "write" ELSE "media"
        <4>1. q.row = NoRow /\ q.op \in CheckedOps
          BY <3>3, <3>5, <3>10 DEF FindProfile, Fits, Backed
        <4>2. CASE Reply(r, FALSE, FALSE)
          BY <3>4, <4>1, <4>2
        <4>3. CASE /\ q.op = "delete profile"
                   /\ \E i \in ProfileStored :
                         Goto(r, [q EXCEPT !.step = "write", !.row = i])
          <5>1. PICK i \in Profiles : Goto(r, [q EXCEPT !.step = "write", !.row = i])
            BY <4>3 DEF ProfileStored
          <5>2. request'[r] = [q EXCEPT !.step = "write", !.row = i]
            BY <2>3, <5>1
          <5>3. /\ request'[r].step = "write" /\ request'[r].op = "delete profile"
                /\ request'[r].row = i
            BY <3>2, <4>3, <5>2 DEF Running
          <5>4. Fits("write", "delete profile", i)
            BY DEF Fits, PostOps
          <5> QED
            BY <5>3, <5>4 DEF RowFits
        <4>4. CASE /\ q.op # "delete profile"
                   /\ \E i \in IF ProfileStored = {} THEN {Empty} ELSE ProfileStored :
                         Goto(r, [q EXCEPT !.step = next, !.found = i])
          <5>1. PICK i : Goto(r, [q EXCEPT !.step = next, !.found = i])
            BY <4>4
          <5>2. request'[r] = [q EXCEPT !.step = next, !.found = i]
            BY <2>3, <5>1
          <5>3. /\ request'[r].step = next /\ request'[r].op = q.op
                /\ request'[r].row = NoRow
            BY <3>2, <4>1, <5>2 DEF Running
          <5>4. q.op \in MediaOps
            BY <4>1, <4>4 DEF CheckedOps, TypedOps, ProfileOps
          <5>5. Fits(next, q.op, NoRow)
            BY <5>4 DEF Fits, MediaOps, PostOps
          <5> QED
            BY <5>3, <5>5 DEF RowFits
        <4> QED
          BY <3>10, <4>2, <4>3, <4>4 DEF FindProfile, Fails
      <3>11. CASE FindMedia(r)
        <4>1. q.row = NoRow /\ q.op \in {"update media", "delete media"}
          BY <3>3, <3>11 DEF FindMedia, Fits
        <4>2. CASE Reply(r, FALSE, FALSE)
          BY <3>4, <4>1, <4>2
        <4>3. CASE \E b \in MediaOf(q.found) :
                     Goto(r, [q EXCEPT !.step = "write", !.row = b])
          <5>1. PICK b \in Media : Goto(r, [q EXCEPT !.step = "write", !.row = b])
            BY <4>3 DEF MediaOf
          <5>2. request'[r] = [q EXCEPT !.step = "write", !.row = b]
            BY <2>3, <5>1
          <5>3. /\ request'[r].step = "write" /\ request'[r].op = q.op
                /\ request'[r].row = b
            BY <3>2, <5>2 DEF Running
          <5>4. Fits("write", q.op, b)
            BY <4>1 DEF Fits, PostOps
          <5> QED
            BY <5>3, <5>4 DEF RowFits
        <4> QED
          BY <3>11, <4>2, <4>3 DEF FindMedia, Fails
      <3>12. CASE PreloadOwner(r)
        <4>1. request'[r] = [q EXCEPT !.step = "owner", !.owner = persona]
          BY <2>3, <3>12 DEF PreloadOwner
        <4>2. request'[r].step = "owner" /\ request'[r].op = q.op /\ request'[r].row = q.row
          BY <3>2, <4>1 DEF Running
        <4>3. q.op = "update post" /\ q.row \in Posts
          BY <3>3, <3>12 DEF PreloadOwner, Fits
        <4>4. Fits("owner", q.op, q.row)
          BY <4>3 DEF Fits, PostOps
        <4> QED
          BY <4>2, <4>4 DEF RowFits
      <3> QED
        BY <2>5, <3>8, <3>9, <3>10, <3>11, <3>12
    <2>6. CASE Written(r)
      <3>1. /\ OthersWait(r)
            /\ request[r].step = "write"
            /\ request'[r].step = "answered"
            /\ request'[r].op = request[r].op
            /\ request'[r].row = IF request[r].op \in Deletions
                                 THEN request[r].row ELSE NoRow
        BY <2>6, WriteTyped
      <3>2. Fits("write", request[r].op, request[r].row)
        BY <2>2, <3>1, RunningTyped
      <3>3. Fits("answered", request[r].op, IF request[r].op \in Deletions
                                            THEN request[r].row ELSE NoRow)
        BY <3>2 DEF Fits, Deletions, PostOps
      <3> QED
        BY <2>1, <3>1, <3>3 DEF RowFits
    <2> QED
      BY <1>3, <2>4, <2>5, <2>6 DEF Serve, Written
  <1> QED
    BY <1>2, <1>3 DEF Moves

LEMMA ActsAlone ==
    ASSUME PagesTypeOK, RowsFit, NEW r \in Requests, Serve(r)
    PROVE  OthersWait(r)
  BY AskTyped, ReadTyped, WriteTyped DEF Serve, Written

-----------------------------------------------------------------------------
\* What the steps do to what is gone, and to the profiles.
LEMMA GoneForGood ==
    ASSUME PagesTypeOK, Moves
    PROVE  /\ \A i \in Profiles : profile[i] = "deleted" => profile'[i] = "deleted"
           /\ \A b \in Media : media[b] = "deleted" => media'[b] = "deleted"
           /\ \A x \in Posts : post[x] = "deleted" => post'[x] = "deleted"
  <1> DEFINE Goal ==
          /\ \A i \in Profiles : profile[i] = "deleted" => profile'[i] = "deleted"
          /\ \A b \in Media : media[b] = "deleted" => media'[b] = "deleted"
          /\ \A x \in Posts : post[x] = "deleted" => post'[x] = "deleted"
  <1>1. TablesTypeOK
    BY DEF PagesTypeOK, TablesTypeOK
  <1>2. CASE UNCHANGED tables
    BY <1>2 DEF tables
  <1>3. CASE ChangeRole
    BY <1>3 DEF ChangeRole
  <1>4. ASSUME NEW r \in Requests, Serve(r) PROVE Goal
    <2>1. CASE CreateProfile(r)
      <3>1. ASSUME NEW i \in Profiles, profile[i] = "deleted"
            PROVE  profile'[i] = "deleted"
        BY <1>1, <2>1, <3>1 DEF CreateProfile, TablesTypeOK
      <3> QED
        BY <2>1, <3>1 DEF CreateProfile
    <2>2. CASE DeleteProfile(r)
      BY <1>1, <2>2 DEF DeleteProfile, TablesTypeOK
    <2>3. CASE CreateMedia(r)
      <3>1. ASSUME NEW b \in Media, media[b] = "deleted"
            PROVE  media'[b] = "deleted"
        BY <1>1, <2>3, <3>1 DEF CreateMedia, TablesTypeOK
      <3> QED
        BY <2>3, <3>1 DEF CreateMedia
    <2>4. CASE DeleteMedia(r)
      BY <1>1, <2>4 DEF DeleteMedia, TablesTypeOK
    <2>5. CASE DeletePost(r)
      BY <1>1, <2>5 DEF DeletePost, TablesTypeOK
    <2>6. CASE UpdatePersona(r)
      BY <2>6 DEF UpdatePersona
    <2>7. CASE DeletePersona(r)
      BY <1>1, <2>7 DEF DeletePersona, TablesTypeOK
    <2>8. CASE UpdatePost(r)
      <3>1. CASE /\ post[request[r].row] # "deleted"
                 /\ SaveWithOwner(request[r].owner, request[r].row)
        BY <1>1, <3>1 DEF SaveWithOwner, TablesTypeOK
      <3> QED
        BY <1>2, <2>8, <3>1 DEF UpdatePost
    <2> QED
      BY <1>2, <1>4, <2>1, <2>2, <2>3, <2>4, <2>5, <2>6, <2>7, <2>8
         DEF Serve, AskAsOwner, AskOnType, AskOnPost, AskToDeletePersona, PreloadOwner,
             CheckRole, CheckOwner, FindProfile, FindMedia, UpdateProfile, UpdateMedia
  <1> QED
    BY <1>3, <1>4 DEF Moves

LEMMA ProfilesStayOwned ==
    ASSUME PagesTypeOK, RowsFit, ProfilesHavePersonas, Moves
    PROVE  ProfilesHavePersonas'
  <1>1. TablesTypeOK
    BY DEF PagesTypeOK, TablesTypeOK
  <1>2. CASE persona' = persona /\ profile' = profile
    BY <1>2 DEF ProfilesHavePersonas, ProfileStored, Exists
  <1>3. ASSUME NEW r \in Requests, Serve(r) PROVE ProfilesHavePersonas'
    <2>1. CASE CreateProfile(r)
      BY <1>2, <2>1 DEF CreateProfile, ProfilesHavePersonas, Exists
    <2>2. CASE DeleteProfile(r)
      BY <1>1, <2>2 DEF DeleteProfile, ProfilesHavePersonas, ProfileStored, Exists,
         TablesTypeOK
    <2>3. CASE UpdatePersona(r)
      <3>1. request[r].row \in PersonaRows
        BY <2>3 DEF RowsFit, RowFits, Fits, UpdatePersona, Writes
      <3>2. Gone \notin PersonaRows
        BY DEF Gone, PersonaRows, Types
      <3> QED
        BY <2>3, <3>1, <3>2 DEF UpdatePersona, ProfilesHavePersonas, ProfileStored, Exists
    <2>4. CASE DeletePersona(r)
      BY <1>1, <2>4 DEF DeletePersona, ProfilesHavePersonas, ProfileStored, TablesTypeOK
    <2>5. CASE UpdatePost(r)
      BY <1>2, <2>5 DEF UpdatePost, SaveWithOwner, tables, ProfilesHavePersonas,
         ProfileStored, Exists
    <2> QED
      BY <1>2, <1>3, <2>1, <2>2, <2>3, <2>4, <2>5
         DEF Serve, tables, AskAsOwner, AskOnType, AskOnPost, AskToDeletePersona,
             PreloadOwner, CheckRole, CheckOwner, FindProfile, FindMedia,
             UpdateProfile, CreateMedia,
             UpdateMedia, DeleteMedia, DeletePost
  <1> QED
    BY <1>2, <1>3 DEF Moves, ChangeRole

\* What a request does that ends: it has been refused or has found nothing, or
\* it writes.
LEMMA Ends ==
    ASSUME PagesTypeOK, RowsFit, NEW r \in Requests, Serve(r),
           request'[r].step = "answered"
    PROVE  \/ Written(r)
           \/ /\ request'[r].wrote = FALSE
              /\ request'[r].ok => request'[r].row = NoRow
              /\ request'[r].ok => request[r].op = "delete profile"
  <1>1. request \in [Requests -> {New} \cup Running \cup Answered]
    BY DEF PagesTypeOK
  <1>2. ASSUME NEW q, Goto(r, q) PROVE request'[r] = q
    BY <1>1, <1>2 DEF Goto
  <1>3. ASSUME NEW step, NEW op, NEW caller, NEW row, step # "answered",
               Begin(r, step, op, caller, row)
        PROVE  FALSE
    BY <1>2, <1>3 DEF Begin
  <1>4. CASE \/ AskAsOwner(r) \/ AskOnType(r) \/ AskOnPost(r) \/ AskToDeletePersona(r)
    <2>1. PICK step, op, caller, row :
              step # "answered" /\ Begin(r, step, op, caller, row)
      BY <1>4 DEF AskAsOwner, AskOnType, AskOnPost, AskToDeletePersona
    <2> QED
      BY <1>3, <2>1
  <1>5. CASE PreloadOwner(r) \/ CheckRole(r) \/ CheckOwner(r) \/ FindProfile(r)
        \/ FindMedia(r)
    <2>1. request[r] \in Running
      BY <1>5, RunningTyped DEF PreloadOwner, CheckRole, CheckOwner, FindProfile,
         FindMedia
    <2>2. ASSUME NEW q \in Running, Goto(r, q) PROVE FALSE
      <3>1. q.step # "answered"
        BY DEF Running
      <3> QED
        BY <1>2, <2>2, <3>1
    <2>3. ~ Resume(r)
      <3> DEFINE q == [request[r] EXCEPT !.step =
                          IF request[r].op \in CheckedOps THEN "profile" ELSE "write"]
      <3>1. q \in Running
        BY <2>1 DEF Running
      <3> QED
        BY <2>2, <3>1 DEF Resume
    <2>4. ASSUME NEW ok \in BOOLEAN, Reply(r, ok, FALSE)
          PROVE  /\ request'[r].wrote = FALSE
                 /\ request'[r].ok = ok
                 /\ request'[r].row = IF request[r].op \in Deletions
                                      THEN request[r].row ELSE NoRow
      BY <2>1, <2>4, ReplyTyped
    <2>5. CASE CheckRole(r)
      <3>1. Reply(r, request[r].op = "delete profile", FALSE)
        BY <2>3, <2>5 DEF CheckRole
      <3>2. request[r].row = NoRow
        BY <2>5 DEF CheckRole, RowsFit, RowFits, Fits
      <3> QED
        BY <2>4, <3>1, <3>2
    <2>6. CASE Fails(r)
      BY <2>4, <2>6 DEF Fails
    <2>7. CASE CheckOwner(r)
      BY <2>3, <2>6, <2>7 DEF CheckOwner
    <2>8. CASE FindProfile(r)
      <3> DEFINE q == request[r]
                 next == IF q.op = "create media" THEN "write" ELSE "media"
      <3>1. ASSUME NEW i \in Profiles
            PROVE  ~ Goto(r, [q EXCEPT !.step = "write", !.row = i])
        <4>1. [q EXCEPT !.step = "write", !.row = i] \in Running
          BY <2>1 DEF Running, Rows
        <4> QED
          BY <2>2, <4>1
      <3>2. ASSUME NEW i \in Profiles \cup {Empty}
            PROVE  ~ Goto(r, [q EXCEPT !.step = next, !.found = i])
        <4>1. [q EXCEPT !.step = next, !.found = i] \in Running
          BY <2>1 DEF Running
        <4> QED
          BY <2>2, <4>1
      <3> QED
        BY <2>6, <2>8, <3>1, <3>2 DEF FindProfile, ProfileStored
    <2>9. CASE FindMedia(r)
      <3>1. ASSUME NEW b \in Media
            PROVE  ~ Goto(r, [request[r] EXCEPT !.step = "write", !.row = b])
        <4>1. [request[r] EXCEPT !.step = "write", !.row = b] \in Running
          BY <2>1 DEF Running, Rows
        <4> QED
          BY <2>2, <4>1
      <3> QED
        BY <2>6, <2>9, <3>1 DEF FindMedia, MediaOf
    <2>10. CASE PreloadOwner(r)
      <3>1. [request[r] EXCEPT !.step = "owner", !.owner = persona] \in Running
        BY <2>1 DEF Running, PagesTypeOK
      <3> QED
        BY <2>2, <2>10, <3>1 DEF PreloadOwner
    <2> QED
      BY <1>5, <2>5, <2>7, <2>8, <2>9, <2>10
  <1> QED
    BY <1>4, <1>5 DEF Serve, Written

\* A deletion has taken its row.
LEMMA DeletionDone ==
    ASSUME PagesTypeOK, RowsFit, NEW r \in Requests, Written(r),
           request'[r].row # NoRow
    PROVE  /\ request'[r].op = "delete profile" => profile'[request'[r].row] = "deleted"
           /\ request'[r].op = "delete media" => media'[request'[r].row] = "deleted"
           /\ request'[r].op = "delete post" => post'[request'[r].row] = "deleted"
  <1> DEFINE q == request[r]
  <1>1. /\ q.step = "write"
        /\ request'[r].op = q.op
        /\ request'[r].row = IF q.op \in Deletions THEN q.row ELSE NoRow
    BY WriteTyped
  <1>2. q.op \in Deletions /\ request'[r].row = q.row
    BY <1>1
  <1>3. Fits("write", q.op, q.row)
    BY <1>1 DEF RowsFit, RowFits
  <1>4. CASE q.op = "delete profile"
    <2>1. DeleteProfile(r) /\ q.row \in Profiles
      BY <1>3, <1>4 DEF Fits, Written, Writes, CreateProfile, UpdateProfile, DeleteProfile,
         CreateMedia, UpdateMedia, DeleteMedia, UpdatePost, DeletePost, UpdatePersona,
         DeletePersona
    <2>2. profile'[q.row] = "deleted"
      BY <2>1 DEF DeleteProfile, PagesTypeOK
    <2> QED
      BY <1>1, <1>2, <1>4, <2>2
  <1>5. CASE q.op = "delete media"
    <2>1. DeleteMedia(r) /\ q.row \in Media
      BY <1>3, <1>5 DEF Fits, Written, Writes, CreateProfile, UpdateProfile, DeleteProfile,
         CreateMedia, UpdateMedia, DeleteMedia, UpdatePost, DeletePost, UpdatePersona,
         DeletePersona
    <2>2. media'[q.row] = "deleted"
      BY <2>1 DEF DeleteMedia, PagesTypeOK
    <2> QED
      BY <1>1, <1>2, <1>5, <2>2
  <1>6. CASE q.op = "delete post"
    <2>1. DeletePost(r) /\ q.row \in Posts
      BY <1>3, <1>6 DEF Fits, PostOps, Written, Writes, CreateProfile, UpdateProfile,
         DeleteProfile, CreateMedia, UpdateMedia, DeleteMedia, UpdatePost, DeletePost,
         UpdatePersona, DeletePersona
    <2>2. post'[q.row] = "deleted"
      BY <2>1 DEF DeletePost, PagesTypeOK
    <2> QED
      BY <1>1, <1>2, <1>6, <2>2
  <1> QED
    BY <1>2, <1>4, <1>5, <1>6 DEF Deletions

\* The rows of a deletion that was answered before stay deleted.
LEMMA DeletionsLast ==
    ASSUME PagesTypeOK, RowsFit, DeletedStays, Moves
    PROVE  DeletedStays'
  <1> DEFINE a(r) == request'[r]
             Gives(r) ==
                /\ a(r).op = "delete profile" => profile'[a(r).row] = "deleted"
                /\ a(r).op = "delete media" => media'[a(r).row] = "deleted"
                /\ a(r).op = "delete post" => post'[a(r).row] = "deleted"
  <1> SUFFICES ASSUME NEW r \in Requests,
                      a(r).step = "answered", a(r).ok, a(r).row # NoRow
               PROVE  Gives(r)
    BY DEF DeletedStays
  <1>1. CASE a(r) = request[r]
    <2>1. Fits("answered", request[r].op, request[r].row)
      BY <1>1 DEF RowsFit, RowFits
    <2>2. /\ request[r].op = "delete profile" =>
                profile[request[r].row] = "deleted" /\ request[r].row \in Profiles
          /\ request[r].op = "delete media" =>
                media[request[r].row] = "deleted" /\ request[r].row \in Media
          /\ request[r].op = "delete post" =>
                post[request[r].row] = "deleted" /\ request[r].row \in Posts
      BY <1>1, <2>1 DEF DeletedStays, Fits
    <2> QED
      BY <1>1, <2>2, GoneForGood
  <1>2. CASE a(r) # request[r]
    <2>1. Serve(r)
      BY <1>2, ActsAlone DEF Moves, ChangeRole, OthersWait
    <2>2. Written(r)
      BY <2>1, Ends
    <2> QED
      BY <2>2, DeletionDone
  <1> QED
    BY <1>1, <1>2

-----------------------------------------------------------------------------
\* The history of a request that is running only grows, and holds what could
\* be seen after the step.
LEMMA HistoryGrows ==
    ASSUME PagesTypeOK, Watch, NEW r \in Requests,
           request'[r].step \notin {"new", "answered"}
    PROVE  /\ seen[r].types \subseteq seen'[r].types
           /\ Sight(request'[r], persona', role').types \subseteq seen'[r].types
           /\ seen[r].owned => seen'[r].owned
           /\ Sight(request'[r], persona', role').owned => seen'[r].owned
           /\ seen[r].held => seen'[r].held
           /\ Sight(request'[r], persona', role').held => seen'[r].held
  <1> DEFINE now == Sight(request'[r], persona', role')
  <1>1. seen'[r] = [types |-> seen[r].types \cup now.types,
                    owned |-> seen[r].owned \/ now.owned,
                    held |-> seen[r].held \/ now.held]
    BY DEF Watch
  <1> HIDE DEF now
  <1>2. /\ seen'[r].types = seen[r].types \cup now.types
        /\ seen'[r].owned = (seen[r].owned \/ now.owned)
        /\ seen'[r].held = (seen[r].held \/ now.held)
    BY <1>1
  <1> QED
    BY <1>2 DEF now

\* A request is backed after each step of its own.
LEMMA OwnStepBacked ==
    ASSUME PagesTypeOK, RowsFit, AllBacked, Watch, NEW r \in Requests, Serve(r)
    PROVE  Backed(request'[r], seen'[r])
  <1> DEFINE q == request[r]
             a == request'[r]
             h == seen[r]
             g == seen'[r]
             now == Sight(a, persona', role')
             Goal == Backed(a, g)
  <1> SUFFICES Goal
    OBVIOUS
  <1>1. request \in [Requests -> {New} \cup Running \cup Answered]
    BY DEF PagesTypeOK
  <1>2. ASSUME NEW x, Goto(r, x) PROVE a = x
    BY <1>1, <1>2 DEF Goto
  <1>3. CASE a.step \in {"new", "answered"}
    BY <1>3 DEF Backed
  <1>4. CASE a.step \notin {"new", "answered"}
    <2>1. /\ h.types \subseteq g.types
          /\ now.types \subseteq g.types
          /\ h.owned => g.owned
          /\ now.owned => g.owned
          /\ h.held => g.held
          /\ now.held => g.held
      BY <1>4, HistoryGrows
    <2>2. /\ Allowed(h) => Allowed(g)
          /\ NotOrganization(h) => NotOrganization(g)
      BY <2>1 DEF Allowed, AsMember, AsOwner, NotOrganization
    <2>3. /\ now.types = IF a.op \in TypedOps THEN {persona'.type} ELSE {}
          /\ now.owned = (persona' # Gone /\ persona'.did = a.caller)
          /\ now.held = (/\ a.op \in TypedOps
                         /\ \/ a.caller = Self
                            \/ a.caller \in Members
                               /\ Rank[role'[a.caller]] >= Rank[LevelOf(a.op)])
      BY DEF Sight
    <2> HIDE DEF now, h, g, a
    <2>4. /\ TypedOps \cap PostOps = {} /\ TypedOps \cap OwnerOps = {}
          /\ CheckedOps \cap PostOps = {} /\ CheckedOps \cap OwnerOps = {}
          /\ OwnerOps \cap PostOps = {}
          /\ CheckedOps \subseteq TypedOps
          /\ \A op \in TypedOps \ CheckedOps : op = "update profile"
          /\ "update profile" \notin CheckedOps \cup OwnerOps \cup PostOps
          /\ "delete persona" \notin CheckedOps \cup OwnerOps \cup PostOps
      BY DEF TypedOps, CheckedOps, PostOps, OwnerOps, ProfileOps, MediaOps
    <2>5. Backed(q, h)
      BY DEF AllBacked, h
    <2>6. ASSUME NEW step, NEW op, NEW caller, NEW row,
                 Begin(r, step, op, caller, row)
          PROVE  a.step = step /\ a.op = op /\ a.caller = caller
      <3>1. a = [step |-> step, op |-> op, caller |-> caller, found |-> Empty,
                 owner |-> Gone, row |-> row]
        BY <1>2, <2>6 DEF Begin, a
      <3> QED
        BY <3>1
    <2>7. CASE AskAsOwner(r)
      <3>1. PICK op, did, row :
                /\ op \in OwnerOps /\ did = persona.did
                /\ Begin(r, "write", op, did, row)
        BY <2>7 DEF AskAsOwner, OwnerOps
      <3>2. now.owned
        BY <2>3, <2>6, <2>7, <3>1 DEF AskAsOwner, tables, Exists
      <3>3. a.step = "write" /\ a.op \in OwnerOps
        BY <2>6, <3>1
      <3> QED
        BY <2>1, <2>4, <3>2, <3>3 DEF Backed
    <2>8. CASE AskOnType(r)
      <3>1. PICK op \in TypedOps, c \in Callers :
                Begin(r, IF persona.type = "organization" THEN "role"
                         ELSE IF op = "update profile" THEN "write" ELSE "owner",
                      op, c, NoRow)
        BY <2>8 DEF AskOnType
      <3>2. PICK step : /\ Begin(r, step, op, c, NoRow)
                        /\ step = IF persona.type = "organization" THEN "role"
                                  ELSE IF op = "update profile" THEN "write" ELSE "owner"
        BY <3>1
      <3>3. a.step = step /\ a.op = op
        BY <2>6, <3>2
      <3>4. persona' = persona
        BY <2>8 DEF AskOnType, tables
      <3>5. persona.type \in Types \cup {Gone.type} /\ persona.type \in g.types
        <4>1. persona.type \in Types \cup {Gone.type}
          BY DEF PagesTypeOK, PersonaRows
        <4> QED
          BY <2>1, <2>3, <3>3, <3>4, <4>1
      <3>7. CASE persona.type = "organization"
        BY <2>4, <3>2, <3>3, <3>5, <3>7 DEF Backed
      <3>8. CASE persona.type # "organization"
        <4>1. NotOrganization(g)
          BY <3>5, <3>8 DEF Types, NotOrganization
        <4>2. CASE op = "update profile"
          BY <2>4, <3>2, <3>3, <3>8, <4>1, <4>2 DEF Backed
        <4>3. CASE op # "update profile"
          <5>1. op \in CheckedOps
            BY <2>4, <4>3
          <5> QED
            BY <2>4, <3>2, <3>3, <3>8, <4>1, <4>3, <5>1 DEF Backed
        <4> QED
          BY <4>2, <4>3
      <3> QED
        BY <3>7, <3>8
    <2>9. CASE AskOnPost(r)
      <3>1. PICK op \in PostOps, c \in Callers, x \in Posts :
                Begin(r, IF op = "update post" THEN "preload" ELSE "owner", op, c, x)
        BY <2>9 DEF AskOnPost
      <3>2. /\ a.step = IF a.op = "update post" THEN "preload" ELSE "owner"
            /\ a.op \in PostOps
        BY <2>6, <3>1
      <3> QED
        BY <3>2 DEF Backed
    <2>10. CASE AskToDeletePersona(r)
      <3>1. a.step = "write" /\ a.op = "delete persona"
        BY <2>6, <2>10 DEF AskToDeletePersona
      <3> QED
        BY <2>4, <3>1 DEF Backed
    <2>11. CASE PreloadOwner(r) \/ CheckRole(r) \/ CheckOwner(r) \/ FindProfile(r)
        \/ FindMedia(r)
      <3>1. q \in Running
        BY <2>11, RunningTyped DEF PreloadOwner, CheckRole, CheckOwner, FindProfile,
         FindMedia
      <3>2. persona' = persona /\ role' = role
        BY <2>11 DEF PreloadOwner, CheckRole, CheckOwner, FindProfile, FindMedia,
           tables
      <3>3. ASSUME NEW ok, NEW wrote, Reply(r, ok, wrote) PROVE FALSE
        <4>1. a = [step |-> "answered", op |-> q.op, ok |-> ok, wrote |-> wrote,
                   row |-> IF q.op \in Deletions THEN q.row ELSE NoRow]
          BY <1>2, <3>3 DEF Reply, a
        <4> QED
          BY <1>4, <4>1 DEF a
      <3>4. ASSUME Resume(r)
            PROVE  /\ a.step = IF q.op \in CheckedOps THEN "profile" ELSE "write"
                   /\ a.op = q.op /\ a.caller = q.caller
        <4>1. a = [q EXCEPT !.step = IF q.op \in CheckedOps THEN "profile"
                                     ELSE "write"]
          BY <1>2, <3>4 DEF Resume, a
        <4> QED
          BY <3>1, <4>1 DEF Running
      <3>5. CASE CheckRole(r)
        <4>1. /\ q.step = "role" /\ Resume(r)
              /\ ValidateMember(q.caller, LevelOf(q.op))
          BY <3>3, <3>5 DEF CheckRole
        <4>2. q.op \in TypedOps /\ "organization" \in h.types
          BY <2>5, <4>1 DEF Backed
        <4>3. now.held
          BY <2>3, <3>2, <3>4, <4>1, <4>2 DEF ValidateMember
        <4>4. AsMember(g) /\ Allowed(g)
          BY <2>1, <4>2, <4>3 DEF AsMember, Allowed
        <4>5. a.op = q.op /\ a.step = IF q.op \in CheckedOps THEN "profile" ELSE "write"
          BY <3>4, <4>1
        <4>6. a.op \notin OwnerOps \cup PostOps
          BY <2>4, <4>2, <4>5
        <4> QED
          BY <4>4, <4>5, <4>6 DEF Backed
      <3>6. CASE CheckOwner(r)
        <4>1. /\ q.step = "owner" /\ Resume(r)
              /\ persona # Gone /\ persona.did = q.caller
          BY <3>3, <3>6 DEF CheckOwner, Fails, Exists
        <4>2. q.op \in PostOps \/ (q.op \in CheckedOps /\ NotOrganization(h))
          BY <2>5, <4>1 DEF Backed
        <4>3. g.owned
          BY <2>1, <2>3, <3>2, <3>4, <4>1
        <4>4. a.op = q.op /\ a.step = IF q.op \in CheckedOps THEN "profile" ELSE "write"
          BY <3>4, <4>1
        <4>5. CASE q.op \in PostOps
          BY <2>4, <4>3, <4>4, <4>5 DEF Backed
        <4>6. CASE q.op \in CheckedOps /\ NotOrganization(h)
          <5>1. Allowed(g)
            BY <2>2, <4>3, <4>6 DEF Allowed, AsOwner
          <5> QED
            BY <4>4, <4>6, <5>1 DEF Backed
        <4> QED
          BY <4>2, <4>5, <4>6
      <3>7. ASSUME q.op \in CheckedOps, Allowed(h), a.op = q.op,
                   a.step \in {"media", "write"}
            PROVE  Goal
        <4>1. a.op \notin OwnerOps \cup PostOps /\ a.op # "update profile"
          BY <2>4, <3>7
        <4> QED
          BY <2>2, <3>7, <4>1 DEF Backed
      <3>8. CASE FindProfile(r)
        <4>1. q.op \in CheckedOps /\ Allowed(h)
          BY <2>5, <3>8 DEF FindProfile, Backed
        <4>2. PICK x : /\ Goto(r, x)
                       /\ \/ \E i : x = [q EXCEPT !.step = "write", !.row = i]
                          \/ \E i : x = [q EXCEPT !.step = "media", !.found = i]
                          \/ \E i : x = [q EXCEPT !.step = "write", !.found = i]
          BY <3>3, <3>8 DEF FindProfile, Fails
        <4>3. x.op = q.op /\ x.step \in {"media", "write"}
          BY <3>1, <4>2 DEF Running
        <4> QED
          BY <1>2, <3>7, <4>1, <4>2, <4>3 DEF a
      <3>9. CASE FindMedia(r)
        <4>1. q.op \in CheckedOps /\ Allowed(h)
          BY <2>5, <3>9 DEF FindMedia, Backed
        <4>2. PICK b : Goto(r, [q EXCEPT !.step = "write", !.row = b])
          BY <3>3, <3>9 DEF FindMedia, Fails
        <4>3. a = [q EXCEPT !.step = "write", !.row = b]
          BY <1>2, <4>2 DEF a
        <4>4. a.op = q.op /\ a.step = "write"
          BY <3>1, <4>3 DEF Running
        <4> QED
          BY <3>7, <4>1, <4>4
      <3>10. CASE PreloadOwner(r)
        <4>1. a = [q EXCEPT !.step = "owner", !.owner = persona]
          BY <1>2, <3>10 DEF PreloadOwner, a
        <4>2. a.op = q.op /\ a.step = "owner"
          BY <3>1, <4>1 DEF Running
        <4>3. a.op \in PostOps
          BY <2>5, <3>10, <4>2 DEF PreloadOwner, Backed, PostOps
        <4> QED
          BY <4>2, <4>3 DEF Backed
      <3> QED
        BY <2>11, <3>5, <3>6, <3>8, <3>9, <3>10
    <2>12. ~ Written(r)
      BY <1>4, WriteTyped DEF a
    <2> QED
      BY <2>7, <2>8, <2>9, <2>10, <2>11, <2>12 DEF Serve, Written, a, g
  <1> QED
    BY <1>3, <1>4

\* Every request is backed after each step.
LEMMA AllStayBacked ==
    ASSUME PagesTypeOK, RowsFit, AllBacked, Watch, Moves
    PROVE  AllBacked'
  <1> SUFFICES ASSUME NEW r \in Requests
               PROVE  Backed(request'[r], seen'[r])
    BY DEF AllBacked
  <1>1. CASE Serve(r)
    BY <1>1, OwnStepBacked
  <1>2. CASE request'[r] = request[r]
    <2>1. CASE request'[r].step \in {"new", "answered"}
      BY <2>1 DEF Backed
    <2>2. CASE request'[r].step \notin {"new", "answered"}
      <3>1. Backed(request[r], seen[r])
        BY DEF AllBacked
      <3>2. /\ seen[r].types \subseteq seen'[r].types
            /\ seen[r].owned => seen'[r].owned
            /\ seen[r].held => seen'[r].held
        BY <2>2, HistoryGrows
      <3>4. Backed(request[r], seen'[r])
        BY <3>1, <3>2 DEF Backed, Allowed, AsMember, AsOwner, NotOrganization
      <3> QED
        BY <1>2, <3>4
    <2> QED
      BY <2>1, <2>2
  <1> QED
    BY <1>1, <1>2, ActsAlone DEF Moves, ChangeRole, OthersWait

-----------------------------------------------------------------------------
LEMMA InitPages == Init => PagesInv
  <1> SUFFICES ASSUME Init PROVE PagesInv
    OBVIOUS
  <1>1. PICK P \in SUBSET Profiles :
            /\ profile = [i \in Profiles |-> IF i \in P THEN "stored" ELSE "unused"]
            /\ media \in [Media -> P \cup {"unused"}]
    BY DEF Init
  <1>2. \A r \in Requests : request[r] = New /\ New.step = "new"
    BY DEF Init, New
  <1>3. PagesTypeOK
    <2>1. /\ persona \in PersonaRows \cup {Gone}
          /\ role \in [Members -> Roles]
          /\ post \in [Posts -> {"owned", "orphaned", "deleted"}]
      BY DEF Init
    <2>2. /\ profile \in [Profiles -> {"unused", "stored", "deleted"}]
          /\ media \in [Media -> Profiles \cup {Empty, "unused", "deleted"}]
      BY <1>1
    <2>3. request \in [Requests -> {New} \cup Running \cup Answered]
      BY DEF Init
    <2>4. seen \in [Requests -> Sights]
      BY DEF Init, Unseen, Sights
    <2> QED
      BY <2>1, <2>2, <2>3, <2>4 DEF PagesTypeOK
  <1>4. RowsFit
    BY <1>2 DEF RowsFit, RowFits
  <1>5. ProfilesHavePersonas
    BY DEF Init, ProfilesHavePersonas, Exists, PersonaRows, Gone, Types
  <1>6. DeletedStays
    BY <1>2 DEF DeletedStays
  <1>7. AllBacked
    BY <1>2 DEF AllBacked, Backed
  <1> QED
    BY <1>3, <1>4, <1>5, <1>6, <1>7 DEF PagesInv

LEMMA StepPages == PagesInv /\ [Next]_vars => PagesInv'
  <1> SUFFICES ASSUME PagesInv, [Next]_vars PROVE PagesInv'
    OBVIOUS
  <1>1. CASE Moves /\ Watch
    <2>1. PagesTypeOK /\ RowsFit /\ ProfilesHavePersonas /\ DeletedStays /\ AllBacked
      BY DEF PagesInv
    <2>2. PagesTypeOK'
      BY <1>1, <2>1, MoveTyped
    <2>3. RowsFit'
      BY <1>1, <2>1, RowsKeepFitting
    <2>4. ProfilesHavePersonas'
      BY <1>1, <2>1, ProfilesStayOwned
    <2>5. DeletedStays'
      BY <1>1, <2>1, DeletionsLast
    <2>6. AllBacked'
      BY <1>1, <2>1, AllStayBacked
    <2> QED
      BY <2>2, <2>3, <2>4, <2>5, <2>6 DEF PagesInv
  <1>2. CASE UNCHANGED vars
    BY <1>2 DEF vars, PagesInv, PagesTypeOK, RowsFit, ProfilesHavePersonas, ProfileStored,
       Exists, DeletedStays, AllBacked
  <1> QED
    BY <1>1, <1>2 DEF Next, Moves, Done

LEMMA PagesInductive == Spec => []PagesInv
  BY InitPages, StepPages, PTL DEF Spec

\* Every row, every request and its history keep their form, whatever the
\* handlers find between their statements.
THEOREM PagesTypeCorrect == Spec => []PagesTypeOK
  <1>1. PagesInv => PagesTypeOK
    BY DEF PagesInv
  <1> QED
    BY <1>1, PagesInductive, PTL

\* No profile outlives its persona, though a profile is created some statements
\* after its owner was checked (persona_profile.go:108-131,
\* persona.go:202-209).
THEOREM ProfilesBelong == Spec => []ProfilesHavePersonas
  <1>1. PagesInv => ProfilesHavePersonas
    BY DEF PagesInv
  <1> QED
    BY <1>1, PagesInductive, PTL

\* The profile, media or post a request was told to have deleted no other request
\* brings back, those that read it before the deletion among them
\* (persona_profile.go:272-283, persona_background_media.go:171 and 223-231,
\* post.go:110 and 168-185).
THEOREM DeletedForGood == Spec => []DeletedStays
  <1>1. PagesInv => DeletedStays
    BY DEF PagesInv
  <1> QED
    BY <1>1, PagesInductive, PTL

\* Nobody changes what a persona shows without having had, at some moment since
\* the request began, the role or the persona it takes
\* (persona.auth.go:13-80, persona_profile.go:159-176 and 232-269,
\* persona_background_media.go:252-291, post.go:96 and 177).
THEOREM ChangesArePermitted == Spec => ChangesPermitted
  <1> DEFINE Grants(r) ==
          LET op == request[r].op
              h == seen[r]
          IN  (Finishes(r) /\ request'[r].wrote) =>
                 /\ op \in CheckedOps => AsMember(h) \/ AsOwner(h)
                 /\ op = "update profile" => AsMember(h) \/ NotOrganization(h)
                 /\ op \in OwnerOps \cup PostOps => h.owned
  <1>1. PagesInv /\ [Next]_vars => [\A r \in Requests : Grants(r)]_vars
    <2> SUFFICES ASSUME PagesInv, Next, NEW r \in Requests,
                        Finishes(r), request'[r].wrote
                 PROVE  Grants(r)
      BY DEF Finishes
    <2> HIDE DEF Grants
    <2>1. /\ PagesTypeOK /\ RowsFit /\ AllBacked /\ ProfilesHavePersonas
          /\ request[r].step # "answered" /\ request'[r].step = "answered"
      BY DEF PagesInv, Finishes
    <2>2. Serve(r)
      <3>1. Moves
        BY <2>1 DEF Next, Moves, Done, vars
      <3> QED
        BY <2>1, <3>1, ActsAlone DEF Moves, ChangeRole, OthersWait
    <2>3. Written(r)
      BY <2>1, <2>2, Ends
    <2>4. request[r].step = "write"
      BY <2>1, <2>3, WriteTyped
    <2>5. Backed(request[r], seen[r])
      BY <2>1 DEF AllBacked
    <2> QED
      BY <2>4, <2>5 DEF Backed, Allowed, Grants
  <1> QED
    BY <1>1, PagesInductive, PTL DEF Spec, ChangesPermitted
-----------------------------------------------------------------------------
(* Updates *)

\* What a row of media that has been found can have become since.
FormerMedia == Profiles \cup {Empty, "deleted"}

\* The media that is to be updated was found.
MediaFound ==
    \A r \in Requests :
        (request[r].step = "write" /\ request[r].op = "update media")
        => media[request[r].row] \in FormerMedia

LEMMA MediaStays ==
    ASSUME PagesTypeOK, Moves, NEW b \in Media, media[b] \in FormerMedia
    PROVE  media'[b] \in FormerMedia
  <1>1. media \in [Media -> Profiles \cup {Empty, "unused", "deleted"}]
    BY DEF PagesTypeOK
  <1>2. CASE UNCHANGED media
    BY <1>2
  <1>3. ASSUME NEW r \in Requests, CreateMedia(r)
        PROVE  media'[b] \in FormerMedia
    <2>1. request[r] \in Running
      BY <1>3, RunningTyped DEF CreateMedia, Writes
    <2>2. request[r].found \in Profiles \cup {Empty}
      BY <2>1 DEF Running
    <2> QED
      BY <1>1, <1>3, <2>2 DEF CreateMedia, FormerMedia
  <1>4. ASSUME NEW r \in Requests, DeleteMedia(r)
        PROVE  media'[b] \in FormerMedia
    BY <1>1, <1>4 DEF DeleteMedia, FormerMedia
  <1>5. ASSUME NEW r \in Requests, Serve(r), ~ CreateMedia(r), ~ DeleteMedia(r)
        PROVE  UNCHANGED media
    BY <1>5 DEF Serve, tables, AskAsOwner, AskOnType, AskOnPost, AskToDeletePersona,
       PreloadOwner, CheckRole, CheckOwner, FindProfile, FindMedia,
       CreateProfile, UpdateProfile, SaveWithOwner,
       DeleteProfile, UpdateMedia, UpdatePost, DeletePost, UpdatePersona, DeletePersona
  <1> QED
    BY <1>2, <1>3, <1>4, <1>5 DEF Moves, ChangeRole

\* It is found by FindMedia, the only step to its write.
LEMMA FoundFirst ==
    ASSUME PagesTypeOK, RowsFit, NEW r \in Requests, Serve(r),
           request'[r].step = "write", request'[r].op = "update media"
    PROVE  FindMedia(r) /\ media[request'[r].row] \in FormerMedia
  <1>1. request \in [Requests -> {New} \cup Running \cup Answered]
    BY DEF PagesTypeOK
  <1>2. ASSUME NEW q, Goto(r, q) PROVE request'[r] = q
    BY <1>1, <1>2 DEF Goto
  <1>3. ASSUME NEW step, NEW op, NEW caller, NEW row, Begin(r, step, op, caller, row)
        PROVE  step = "write" /\ op = "update media"
    <2> DEFINE q == [step |-> step, op |-> op, caller |-> caller,
                     found |-> Empty, owner |-> Gone, row |-> row]
    <2>1. request'[r] = q
      BY <1>2, <1>3 DEF Begin
    <2>2. q.step = step /\ q.op = op
      OBVIOUS
    <2> HIDE DEF q
    <2> QED
      BY <2>1, <2>2
  <1>4. ~ Written(r)
    BY WriteTyped
  <1>5. ~ (AskAsOwner(r) \/ AskToDeletePersona(r) \/ AskOnPost(r))
    <2>1. ~ AskAsOwner(r)
      <3>1. "create profile" # "update media" /\ "update persona" # "update media"
        OBVIOUS
      <3>2. ASSUME NEW op, NEW c, NEW x, op # "update media",
                   Begin(r, "write", op, c, x)
            PROVE  FALSE
        BY <1>3, <3>2
      <3> QED
        BY <3>1, <3>2 DEF AskAsOwner
    <2>2. ~ Begin(r, "write", "delete persona", Self, NoRow)
      <3>1. "delete persona" # "update media"
        OBVIOUS
      <3> QED
        BY <1>3, <3>1
    <2>3. ~ AskToDeletePersona(r)
      BY <2>2 DEF AskToDeletePersona
    <2>4. ~ AskOnPost(r)
      <3>2. ASSUME NEW op, NEW c, NEW x,
                   Begin(r, IF op = "update post" THEN "preload" ELSE "owner", op, c, x)
            PROVE  FALSE
        BY <1>3, <3>2
      <3> QED
        BY <3>2 DEF AskOnPost
    <2> QED
      BY <2>1, <2>3, <2>4
  <1>6. ~ AskOnType(r)
    <2> SUFFICES ASSUME AskOnType(r) PROVE FALSE
      OBVIOUS
    <2>1. PICK op \in TypedOps, c \in Callers :
              Begin(r, IF persona.type = "organization" THEN "role"
                       ELSE IF op = "update profile" THEN "write" ELSE "owner",
                    op, c, NoRow)
      BY DEF AskOnType
    <2> QED
      BY <1>3, <2>1
  <1>7. CASE PreloadOwner(r) \/ CheckRole(r) \/ CheckOwner(r) \/ FindProfile(r)
        \/ FindMedia(r)
    <2> DEFINE q == request[r]
    <2>1. q \in Running
      BY <1>7, RunningTyped DEF PreloadOwner, CheckRole, CheckOwner, FindProfile,
         FindMedia
    <2>2. ~ Fails(r) /\ ~ Reply(r, q.op = "delete profile", FALSE)
      BY <2>1, ReplyTyped DEF Fails
    <2>3. ~ Resume(r)
      <3> SUFFICES ASSUME Resume(r) PROVE FALSE
        OBVIOUS
      <3>1. request'[r] = [q EXCEPT !.step =
                              IF q.op \in CheckedOps THEN "profile" ELSE "write"]
        BY <1>2 DEF Resume
      <3>2. q.op \notin CheckedOps /\ q.op = "update media"
        BY <2>1, <3>1 DEF Running
      <3> QED
        BY <3>2 DEF CheckedOps, TypedOps, MediaOps
    <2>4. ~ CheckRole(r) /\ ~ CheckOwner(r) /\ ~ PreloadOwner(r)
      <3>1. ASSUME PreloadOwner(r) PROVE FALSE
        <4>1. request'[r] = [q EXCEPT !.step = "owner", !.owner = persona]
          BY <1>2, <3>1 DEF PreloadOwner
        <4> QED
          BY <2>1, <4>1 DEF Running
      <3> QED
        BY <2>2, <2>3, <3>1 DEF CheckRole, CheckOwner
    <2>5. ~ FindProfile(r)
      <3> DEFINE next == IF q.op = "create media" THEN "write" ELSE "media"
      <3>1. ASSUME q.op = "delete profile", NEW i,
                   Goto(r, [q EXCEPT !.step = "write", !.row = i])
            PROVE  FALSE
        <4>1. request'[r] = [q EXCEPT !.step = "write", !.row = i]
          BY <1>2, <3>1
        <4> QED
          BY <2>1, <3>1, <4>1 DEF Running
      <3>2. ASSUME NEW i, Goto(r, [q EXCEPT !.step = next, !.found = i])
            PROVE  FALSE
        <4>1. request'[r] = [q EXCEPT !.step = next, !.found = i]
          BY <1>2, <3>2
        <4>2. request'[r].step = next /\ request'[r].op = q.op
          BY <2>1, <4>1 DEF Running
        <4> QED
          BY <4>2
      <3> QED
        BY <2>2, <3>1, <3>2 DEF FindProfile
    <2>6. FindMedia(r)
      BY <1>7, <2>4, <2>5
    <2>7. PICK b \in MediaOf(q.found) : Goto(r, [q EXCEPT !.step = "write", !.row = b])
      BY <2>2, <2>6 DEF FindMedia
    <2>8. request'[r] = [q EXCEPT !.step = "write", !.row = b]
      BY <1>2, <2>7
    <2>9. request'[r].row = b /\ media[b] = q.found
      BY <2>1, <2>8 DEF Running, MediaOf
    <2> QED
      BY <2>1, <2>6, <2>9 DEF Running, FormerMedia
  <1> QED
    BY <1>4, <1>5, <1>6, <1>7 DEF Serve, Written

LEMMA MediaFoundStep ==
    ASSUME PagesInv, MediaFound, [Next]_vars
    PROVE  MediaFound'
  <1>1. CASE UNCHANGED vars
    BY <1>1 DEF vars, MediaFound, FormerMedia
  <1>2. CASE Moves
    <2>1. PagesTypeOK /\ RowsFit
      BY DEF PagesInv
    <2> SUFFICES ASSUME NEW r \in Requests, request'[r].step = "write",
                        request'[r].op = "update media"
                 PROVE  media'[request'[r].row] \in FormerMedia
      BY DEF MediaFound, FormerMedia
    <2>2. CASE Serve(r)
      <3>1. FindMedia(r) /\ media[request'[r].row] \in FormerMedia
        BY <2>1, <2>2, FoundFirst
      <3> QED
        BY <3>1 DEF FindMedia, tables
    <2>3. CASE request'[r] = request[r]
      <3>1. media[request[r].row] \in FormerMedia
        BY <2>3 DEF MediaFound
      <3>2. request[r].row \in Media
        BY <2>1, <2>3 DEF RowsFit, RowFits, Fits
      <3> QED
        BY <1>2, <2>1, <2>3, <3>1, <3>2, MediaStays
    <2> QED
      BY <1>2, <2>1, <2>2, <2>3, ActsAlone DEF Moves, ChangeRole, OthersWait
  <1> QED
    BY <1>1, <1>2 DEF Next, Moves, Done

\* An answer of success to an update of media or a post is about a row that is
\* there when it is given, whatever was deleted since it was found
\* (persona_background_media.go:175-178, post.go:115-121).
THEOREM UpdatesHappen == Spec => UpdatesAreReal
  <1> DEFINE Real(r) ==
          LET q == request[r]
          IN  (Finishes(r) /\ request'[r].ok) =>
                 /\ q.op = "update media" => media'[q.row] \in Profiles \cup {Empty}
                 /\ q.op = "update post" => post'[q.row] # "deleted"
  <1>1. PagesInv /\ MediaFound /\ [Next]_vars => [\A r \in Requests : Real(r)]_vars
    <2> SUFFICES ASSUME PagesInv, MediaFound, Next, NEW r \in Requests,
                        Finishes(r), request'[r].ok,
                        request[r].op \in {"update media", "update post"}
                 PROVE  Real(r)
      BY DEF Finishes
    <2>1. /\ PagesTypeOK /\ RowsFit
          /\ request[r].step # "answered" /\ request'[r].step = "answered"
      BY DEF PagesInv, Finishes
    <2>2. Serve(r)
      <3>1. Moves
        BY <2>1 DEF Next, Moves, Done, vars
      <3> QED
        BY <2>1, <3>1, ActsAlone DEF Moves, ChangeRole, OthersWait
    <2>3. Written(r)
      BY <2>1, <2>2, Ends
    <2>4. request[r].step = "write" /\ request[r] \in Running
      BY <2>1, <2>3, WriteTyped, RunningTyped
    <2>5. UpdateMedia(r) \/ UpdatePost(r)
      BY <2>3 DEF Written, Writes, CreateProfile, UpdateProfile, DeleteProfile,
         CreateMedia, UpdateMedia, DeleteMedia, UpdatePost, DeletePost, UpdatePersona,
         DeletePersona
    <2>6. CASE UpdateMedia(r)
      <3>1. request[r].op = "update media"
        BY <2>6 DEF UpdateMedia, Writes
      <3>2. media[request[r].row] # "deleted"
        BY <2>1, <2>4, <2>6, ReplyTyped DEF UpdateMedia
      <3>3. media[request[r].row] \in Profiles \cup {Empty}
        BY <2>4, <3>1, <3>2 DEF MediaFound, FormerMedia
      <3> QED
        BY <2>6, <3>1, <3>3 DEF UpdateMedia, tables
    <2>7. CASE UpdatePost(r)
      <3>1. request[r].op = "update post"
        BY <2>7 DEF UpdatePost, Writes
      <3>2. post[request[r].row] # "deleted"
        BY <2>1, <2>4, <2>7, ReplyTyped DEF UpdatePost, Fails
      <3>3. SaveWithOwner(request[r].owner, request[r].row) \/ UNCHANGED tables
        BY <2>7 DEF UpdatePost
      <3>4. post'[request[r].row] # "deleted"
        BY <2>1, <3>2, <3>3 DEF SaveWithOwner, tables, PagesTypeOK
      <3> QED
        BY <3>1, <3>4
    <2> QED
      BY <2>5, <2>6, <2>7
  <1>2. Init => MediaFound
    <2> SUFFICES ASSUME Init, NEW r \in Requests
                 PROVE  request[r].step # "write"
      BY DEF MediaFound
    <2>1. request[r] = New
      BY DEF Init
    <2> QED
      BY <2>1 DEF New
  <1>3. Spec => []MediaFound
    BY <1>2, MediaFoundStep, PagesInductive, PTL DEF Spec
  <1>4. UpdatesAreReal <=> [][\A r \in Requests : Real(r)]_vars
    BY DEF UpdatesAreReal
  <1> QED
    BY <1>1, <1>3, PagesInductive, PTL DEF Spec, UpdatesAreReal
=============================================================================
