--------------------------------- MODULE Pages ---------------------------------
(***************************************************************************)
(* What a persona shows of itself, its profile, background media and       *)
(* posts, and who may change it: routes/persona_profile.go,                *)
(* routes/persona_background_media.go, routes/post.go and the checks of    *)
(* middleware/authority/persona.auth.go.                                   *)
(*                                                                         *)
(* A handler reads the type of the persona, then a role or the did, then   *)
(* the rows, and writes last: each is a statement of its own, some of them *)
(* on another connection, and the tables may change between any two.       *)
(* Requests run on servers of their own, so that all their statements      *)
(* interleave; those of one server are a special case.  There is one       *)
(* persona: nothing here relates two of them but membership.  Contents are *)
(* left out: an answer tells whether a row was written.                    *)
(***************************************************************************)
EXTENDS Naturals, FiniteSets

CONSTANTS
    Requests,  \* requests that will be made
    Dids,      \* dids a wallet can have
    Members,   \* personas that may be members of the persona
    Self,      \* the id of the persona itself
    Profiles,  \* uuids of rows of persona_profile
    Media,     \* uuids of rows of persona_background_media
    Posts,     \* uuids of rows of post
    Empty      \* the empty string

ASSUME PagesAssumption ==
    /\ Self \notin Members \cup Dids
    /\ Members \cap Dids = {}
    /\ Empty \notin Profiles

VARIABLES
    persona,  \* the row of the persona, or Gone
    role,     \* the role of each member, or "none"
    profile,  \* persona_profile
    media,    \* persona_background_media: the profile id a row names
    post,     \* post
    request,  \* how far each request is
    seen      \* what has held since it began: history, read by no action

tables == <<persona, role, profile, media, post>>
vars == <<persona, role, profile, media, post, request, seen>>

Types == {"personal", "organization"}
PersonaRows == [type : Types, did : Dids]
Gone == [type |-> "gone"]

Roles == {"none", "member", "manager", "admin"}
Rank == [none |-> 0, member |-> 1, manager |-> 2, admin |-> 3]

\* What the Authorization header carries: a did, or the id of a persona.
Callers == Dids \cup Members \cup {Self}

ProfileOps == {"update profile", "delete profile"}
MediaOps == {"create media", "update media", "delete media"}
PostOps == {"update post", "delete post"}
OwnerOps == {"create profile", "update persona"}
Ops == ProfileOps \cup MediaOps \cup PostOps \cup OwnerOps \cup {"delete persona"}

\* Those that read the type, and of them those that no persona may skip.
TypedOps == ProfileOps \cup MediaOps
CheckedOps == TypedOps \ {"update profile"}
Deletions == {"delete profile", "delete media", "delete post"}

\* The row of a request that has found none, and of one that looks for none.
NoRow == [type |-> "none"]
Rows == Media \cup Posts \cup Profiles \cup PersonaRows \cup {NoRow}

New == [step |-> "new"]

\* "found" is the profile id that was read, "owner" the copy of the persona that
\* updatePost keeps, "row" the row to be written.
Running == [step : {"preload", "role", "owner", "profile", "media", "write"},
            op : Ops, caller : Callers, found : Profiles \cup {Empty},
            owner : PersonaRows \cup {Gone}, row : Rows]

\* "ok" is an answer of 2xx, "wrote" whether a row was affected, "row" what was
\* to be deleted.
Answered == [step : {"answered"}, op : Ops, row : Rows,
             ok : BOOLEAN, wrote : BOOLEAN]

Sights == [types : SUBSET (Types \cup {Gone.type}),
           owned : BOOLEAN, held : BOOLEAN]

\* Nothing has been seen.
Unseen == [types |-> {}, owned |-> FALSE, held |-> FALSE]

PagesTypeOK ==
    /\ persona \in PersonaRows \cup {Gone}
    /\ role \in [Members -> Roles]
    /\ profile \in [Profiles -> {"unused", "stored", "deleted"}]
    /\ media \in [Media -> Profiles \cup {Empty, "unused", "deleted"}]
    /\ post \in [Posts -> {"owned", "orphaned", "deleted"}]
    /\ request \in [Requests -> {New} \cup Running \cup Answered]
    /\ seen \in [Requests -> Sights]

-----------------------------------------------------------------------------
Exists == persona # Gone
ProfileStored == {i \in Profiles : profile[i] = "stored"}
MediaOf(i) == {b \in Media : media[b] = i}

\* A persona with a profile or without, with media or without; its posts were
\* created by another service.
Init ==
    /\ persona \in PersonaRows
    /\ role \in [Members -> Roles]
    /\ \E P \in SUBSET Profiles :
          /\ Cardinality(P) <= 1
          /\ profile = [i \in Profiles |->
                           IF i \in P THEN "stored" ELSE "unused"]
          /\ media \in [Media -> P \cup {"unused"}]
    /\ post = [x \in Posts |-> "owned"]
    /\ request = [r \in Requests |-> New]
    /\ seen = [r \in Requests |-> Unseen]

Goto(r, q) == request' = [request EXCEPT ![r] = q]

Begin(r, step, op, caller, row) ==
    Goto(r, [step |-> step, op |-> op, caller |-> caller,
             found |-> Empty, owner |-> Gone, row |-> row])

Reply(r, ok, wrote) ==
    LET q == request[r]
    IN  Goto(r, [step |-> "answered", op |-> q.op, ok |-> ok, wrote |-> wrote,
                 row |-> IF q.op \in Deletions THEN q.row ELSE NoRow])

Fails(r) == Reply(r, FALSE, FALSE)

-----------------------------------------------------------------------------
(* The first statement of each handler, when it does not end the request *)

\* ValidateOwnerByDid before createPersonaProfile and updatePersona.
AskAsOwner(r) ==
    /\ request[r] = New
    /\ Exists
    /\ \/ Begin(r, "write", "create profile", persona.did, NoRow)
       \/ \E x \in PersonaRows :
             Begin(r, "write", "update persona", persona.did, x)
    /\ UNCHANGED tables

\* The type decides which check is made; a personal persona's profile is
\* updated without one, and so is that of a persona that is not there.
AskOnType(r) ==
    /\ request[r] = New
    /\ \E op \in TypedOps, c \in Callers :
          Begin(r, IF persona.type = "organization" THEN "role"
                   ELSE IF op = "update profile" THEN "write" ELSE "owner",
                op, c, NoRow)
    /\ UNCHANGED tables

\* updatePost and deletePost have found the post; one without an owner is
\* nobody's.
AskOnPost(r) ==
    /\ request[r] = New
    /\ \E op \in PostOps, c \in Callers, x \in Posts :
          /\ post[x] = "owned"
          /\ Begin(r, IF op = "update post" THEN "preload" ELSE "owner", op, c, x)
    /\ UNCHANGED tables

\* Preload reads the owner in a statement of its own; deletePost never uses what
\* it reads.
PreloadOwner(r) ==
    /\ request[r].step = "preload"
    /\ Goto(r, [request[r] EXCEPT !.step = "owner", !.owner = persona])
    /\ UNCHANGED tables

\* deletePersona has found the persona, and asks for no header: its caller here
\* is anyone.
AskToDeletePersona(r) ==
    /\ request[r] = New
    /\ Exists
    /\ Begin(r, "write", "delete persona", Self, NoRow)
    /\ UNCHANGED tables

-----------------------------------------------------------------------------
(* The checks *)

LevelOf(op) == IF op = "delete profile" THEN "admin" ELSE "manager"

\* ValidateMember.
\* Mutant: any role will do.
AnyMember(c, level) ==
    c = Self \/ (c \in Members /\ role[c] # "none")

ValidateMember(c, level) ==
    \/ c = Self
    \/ c \in Members /\ role[c] # "none" /\ Rank[role[c]] >= Rank[level]

\* What comes after the check.
Resume(r) ==
    LET op == request[r].op
    IN  Goto(r, [request[r] EXCEPT !.step =
            IF op \in CheckedOps THEN "profile" ELSE "write"])

\* Of an organization.  deletePersonaProfile takes what c.JSON returns for its
\* transaction's error: a refusal ends as 200, and nothing is written.
CheckRole(r) ==
    /\ request[r].step = "role"
    /\ LET q == request[r]
       IN  IF ValidateMember(q.caller, LevelOf(q.op)) THEN Resume(r)
           ELSE Reply(r, q.op = "delete profile", FALSE)
    /\ UNCHANGED tables

\* The persona with this id and the caller's did is counted; for a post it is
\* the owner's did that is read.
\* Mutant: a refusal is not answered.
CheckOwnerUnanswered(r) ==
    /\ request[r].step = "owner"
    /\ IF Exists /\ persona.did = request[r].caller THEN Resume(r)
       ELSE Goto(r, [request[r] EXCEPT !.step = "refused"])
    /\ UNCHANGED tables

CheckOwner(r) ==
    /\ request[r].step = "owner"
    /\ IF Exists /\ persona.did = request[r].caller THEN Resume(r) ELSE Fails(r)
    /\ UNCHANGED tables

-----------------------------------------------------------------------------
(* The rows *)

\* deletePersonaProfile needs the profile; the media handlers scan its id into
\* a string, which stays empty when there is none.
FindProfile(r) ==
    /\ request[r].step = "profile"
    /\ LET q == request[r]
           next == IF q.op = "create media" THEN "write" ELSE "media"
       IN  IF q.op = "delete profile"
           THEN \/ \E i \in ProfileStored :
                      Goto(r, [q EXCEPT !.step = "write", !.row = i])
                \/ ProfileStored = {} /\ Fails(r)
           ELSE \E i \in IF ProfileStored = {} THEN {Empty} ELSE ProfileStored :
                   Goto(r, [q EXCEPT !.step = next, !.found = i])
    /\ UNCHANGED tables

\* First takes any of the rows that name it: nothing makes them unique.
FindMedia(r) ==
    /\ request[r].step = "media"
    /\ LET q == request[r]
       IN  \/ \E b \in MediaOf(q.found) :
                 Goto(r, [q EXCEPT !.step = "write", !.row = b])
           \/ MediaOf(q.found) = {} /\ Fails(r)
    /\ UNCHANGED tables

-----------------------------------------------------------------------------
(* The writes, which name the row by its id *)

Writes(r, op) == request[r].step = "write" /\ request[r].op = op

\* createPersonaProfile: the schema wants the persona, and no other profile.
\* Mutant: the persona was checked, and is not looked at again.
CreateProfileUnchecked(r) ==
    /\ Writes(r, "create profile")
    /\ ProfileStored = {}
    /\ \E i \in Profiles :
          /\ profile[i] = "unused"
          /\ profile' = [profile EXCEPT ![i] = "stored"]
    /\ Reply(r, TRUE, TRUE)
    /\ UNCHANGED <<persona, role, media, post>>

CreateProfile(r) ==
    /\ Writes(r, "create profile")
    /\ \/ /\ Exists /\ ProfileStored = {}
          /\ \E i \in Profiles :
                /\ profile[i] = "unused"
                /\ profile' = [profile EXCEPT ![i] = "stored"]
          /\ Reply(r, TRUE, TRUE)
       \/ /\ \/ ~ Exists \/ ProfileStored # {}
             \/ \A i \in Profiles : profile[i] # "unused"   \* bound
          /\ Fails(r)
          /\ UNCHANGED profile
    /\ UNCHANGED <<persona, role, media, post>>

\* updatePersonaProfile writes by persona_id: to no row, when there is none.
UpdateProfile(r) ==
    /\ Writes(r, "update profile")
    /\ Reply(r, TRUE, ProfileStored # {})
    /\ UNCHANGED tables

\* To delete a row that is gone is no error.
DeleteProfile(r) ==
    /\ Writes(r, "delete profile")
    /\ LET i == request[r].row
       IN  /\ Reply(r, TRUE, profile[i] = "stored")
           /\ profile' = [profile EXCEPT ![i] = "deleted"]
    /\ UNCHANGED <<persona, role, media, post>>

\* No foreign key: the profile may be gone, or never have been there.
CreateMedia(r) ==
    /\ Writes(r, "create media")
    /\ \/ /\ \E b \in Media :
                /\ media[b] = "unused"
                /\ media' = [media EXCEPT ![b] = request[r].found]
          /\ Reply(r, TRUE, TRUE)
       \/ /\ \A b \in Media : media[b] # "unused"   \* bound
          /\ Fails(r)
          /\ UNCHANGED media
    /\ UNCHANGED <<persona, role, profile, post>>

\* The updated row is read again, and the update undone when it is gone.
UpdateMedia(r) ==
    /\ Writes(r, "update media")
    /\ LET there == media[request[r].row] # "deleted"
       IN  Reply(r, there, there)
    /\ UNCHANGED tables

DeleteMedia(r) ==
    /\ Writes(r, "delete media")
    /\ LET b == request[r].row
       IN  /\ Reply(r, TRUE, media[b] # "deleted")
           /\ media' = [media EXCEPT ![b] = "deleted"]
    /\ UNCHANGED <<persona, role, profile, post>>

\* gorm saves what it has preloaded before what it updates: the owner's copy is
\* inserted where the persona is gone, does nothing where it is there, and its id
\* is written to the post with the columns of the body.  The post is then read
\* again, and all of it undone when it is gone, or when a deletion between the
\* two statements leaves the id with no persona.
SaveWithOwner(copy, x) ==
    /\ persona' = IF Exists THEN persona ELSE copy
    /\ post' = [post EXCEPT ![x] = IF copy = Gone THEN @ ELSE "owned"]
    /\ UNCHANGED <<role, profile, media>>

\* Mutants: the post is saved whole, which inserts it when it is gone; it is not
\* read again.
SavePost(r) ==
    /\ Writes(r, "update post")
    /\ Reply(r, TRUE, TRUE)
    /\ SaveWithOwner(request[r].owner, request[r].row)

UpdatePostBlindly(r) ==
    /\ Writes(r, "update post")
    /\ LET q == request[r]
           there == post[q.row] # "deleted"
       IN  /\ Reply(r, TRUE, there)
           /\ IF there THEN SaveWithOwner(q.owner, q.row) ELSE UNCHANGED tables

UpdatePost(r) ==
    /\ Writes(r, "update post")
    /\ LET q == request[r]
           there == post[q.row] # "deleted"
       IN  \/ there /\ Reply(r, TRUE, TRUE) /\ SaveWithOwner(q.owner, q.row)
           \/ /\ ~ there \/ (~ Exists /\ q.owner # Gone)
              /\ Fails(r)
              /\ UNCHANGED tables

DeletePost(r) ==
    /\ Writes(r, "delete post")
    /\ LET x == request[r].row
       IN  /\ Reply(r, TRUE, post[x] # "deleted")
           /\ post' = [post EXCEPT ![x] = "deleted"]
    /\ UNCHANGED <<persona, role, profile, media>>

\* updatePersona: the columns its body names, type and did among them.
UpdatePersona(r) ==
    /\ Writes(r, "update persona")
    /\ persona' = IF Exists THEN request[r].row ELSE persona
    /\ Reply(r, TRUE, Exists)
    /\ UNCHANGED <<role, profile, media, post>>

\* The schema deletes the profile and the memberships with the persona, and
\* takes it off its posts; media it does not know.  (What it restricts is in
\* Accounts.)
DeletePersona(r) ==
    /\ Writes(r, "delete persona")
    /\ persona' = Gone
    /\ role' = [c \in Members |-> "none"]
    /\ profile' = [i \in Profiles |->
                      IF profile[i] = "stored" THEN "deleted" ELSE profile[i]]
    /\ post' = [x \in Posts |-> IF post[x] = "owned" THEN "orphaned" ELSE post[x]]
    /\ Reply(r, TRUE, Exists)
    /\ UNCHANGED media

\* Memberships are written by nothing in this repository.
ChangeRole ==
    /\ Exists
    /\ \E c \in Members, x \in Roles : role' = [role EXCEPT ![c] = x]
    /\ UNCHANGED <<persona, profile, media, post, request>>

-----------------------------------------------------------------------------
\* What a request could have been allowed by, were it checked now.
Sight(q, p, roles) ==
    [types |-> IF q.op \in TypedOps THEN {p.type} ELSE {},
     owned |-> p # Gone /\ p.did = q.caller,
     held |-> /\ q.op \in TypedOps
              /\ \/ q.caller = Self
                 \/ q.caller \in Members
                       /\ Rank[roles[q.caller]] >= Rank[LevelOf(q.op)]]

\* The history of a request: all it could have seen since it began.
Watch ==
    seen' = [r \in Requests |->
        IF request'[r].step \in {"new", "answered"} THEN Unseen
        ELSE LET now == Sight(request'[r], persona', role')
             IN  [types |-> seen[r].types \cup now.types,
                  owned |-> seen[r].owned \/ now.owned,
                  held |-> seen[r].held \/ now.held]]

Serve(r) ==
    \/ AskAsOwner(r) \/ AskOnType(r) \/ AskOnPost(r) \/ AskToDeletePersona(r)
    \/ PreloadOwner(r) \/ CheckRole(r) \/ CheckOwner(r)
    \/ FindProfile(r) \/ FindMedia(r)
    \/ CreateProfile(r) \/ UpdateProfile(r) \/ DeleteProfile(r)
    \/ CreateMedia(r) \/ UpdateMedia(r) \/ DeleteMedia(r)
    \/ UpdatePost(r) \/ DeletePost(r)
    \/ UpdatePersona(r) \/ DeletePersona(r)

\* Every request has been answered.
Done ==
    /\ \A r \in Requests : request[r].step = "answered"
    /\ UNCHANGED vars

Next ==
    \/ /\ ChangeRole \/ \E r \in Requests : Serve(r)
       /\ Watch
    \/ Done

Spec == Init /\ [][Next]_vars

-----------------------------------------------------------------------------
Finishes(r) == request[r].step # "answered" /\ request'[r].step = "answered"

\* What the history of a request allows: the change of an organization's pages, or
\* what an owner may do, of a persona that is not known for an organization, as a
\* personal one is not, and one that is gone, which updatePost may bring back.
AsMember(h) == "organization" \in h.types /\ h.held
NotOrganization(h) == {"personal", Gone.type} \cap h.types # {}
AsOwner(h) == NotOrganization(h) /\ h.owned

\* A change of an organization's pages is made by a member that had the role it
\* takes, and one of a personal persona's by its owner, at some moment since the
\* request began, however types, dids and roles change between the statements of
\* the handler: what an earlier request was allowed counts for nothing.  A
\* persona that was gone when its type was read passes for a personal one
\* (persona.auth.go:13-80, persona_profile.go:159-176 and 232-269,
\* persona_background_media.go:252-291, post.go:96 and 177).
ChangesPermitted ==
    [][\A r \in Requests :
        LET op == request[r].op
            h == seen[r]
        IN  (Finishes(r) /\ request'[r].wrote) =>
               /\ op \in CheckedOps => AsMember(h) \/ AsOwner(h)
               /\ op = "update profile" => AsMember(h) \/ NotOrganization(h)
               /\ op \in OwnerOps \cup PostOps => h.owned]_vars

\* A profile, media or post whose deletion was answered with success is gone and
\* stays gone: a request that read it before does not bring it back
\* (persona_profile.go:272-283, persona_background_media.go:171 and 223-231,
\* post.go:110 and 168-185).  Of the persona itself see DeletedPersonaStays.
DeletedStays ==
    \A r \in Requests :
        LET q == request[r]
        IN  (q.step = "answered" /\ q.ok /\ q.row # NoRow) =>
               /\ q.op = "delete profile" => profile[q.row] = "deleted"
               /\ q.op = "delete media" => media[q.row] = "deleted"
               /\ q.op = "delete post" => post[q.row] = "deleted"

\* What updatePost says it writes is the fields of its body and no more
\* (post.go:100), so that a persona whose deletion was answered with success
\* (persona.go:188-224) would stay gone.
DeletedPersonaStays ==
    \A r \in Requests :
        LET q == request[r]
        IN  (q.step = "answered" /\ q.op = "delete persona" /\ q.ok)
            => persona = Gone

\* A client that is told that media or a post is updated has changed a row that
\* is there, also when the row was deleted after it had been found
\* (persona_background_media.go:175-178, post.go:115-121).
UpdatesAreReal ==
    [][\A r \in Requests :
        LET q == request[r]
        IN  (Finishes(r) /\ request'[r].ok) =>
               /\ q.op = "update media" => media'[q.row] \in Profiles \cup {Empty}
               /\ q.op = "update post" => post'[q.row] # "deleted"]_vars

\* No profile outlives its persona, though a profile is created some statements
\* after its owner was checked, and the persona may be deleted in between
\* (persona_profile.go:108-131, persona.go:202-209).
ProfilesHavePersonas == ProfileStored # {} => Exists
=============================================================================
