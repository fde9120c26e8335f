----------------------------- MODULE Notifications -----------------------------
(***************************************************************************)
(* How a persona is notified: SendPersonaNotification of                   *)
(* utils/notification.go with its two callers, the goroutine createMessage *)
(* leaves behind (routes/chat.go) and the handler sendNotification         *)
(* (routes/notification.go), and the push goroutines of utils/firebase.go. *)
(*                                                                         *)
(* The decision whether and where to push is read from the preferences in  *)
(* several statements, while the handlers of Accounts go on changing them: *)
(* a notice of createMessage runs beside every handler, one of             *)
(* sendNotification inside its handler.  A step is one statement.          *)
(*                                                                         *)
(* The steps of createMessage itself are one step here: it writes none of  *)
(* these tables, and no other handler of its server runs meanwhile         *)
(* (ChatMessages has them).  Wallets and personas are there from the start *)
(* and stay: a call reads neither of their tables, and the only handler    *)
(* that asks for them and writes a link is a transfer.                     *)
(***************************************************************************)
EXTENDS Accounts

CONSTANTS
    Notices,       \* calls of the two functions; each is made once
    MaxReceivers   \* how many receivers a message can name

ASSUME ReceiversAssumption == MaxReceivers \in Nat \ {0}

VARIABLES
    notice,    \* where each call is
    stored,    \* the table persona_notification: notices, with the receiver
    pushes,    \* push goroutines that are to run
    pushed,    \* history: the receivers whose push was sent, of each notice
    missed,    \* history: the receivers an error or a crash left out
    led        \* history: where a wanted push could go since the notice began

noticeVars == <<notice, stored, pushes, pushed, missed, led>>
allVars == <<vars, noticeVars>>

\* A call that was not made, and one that has returned.
NotMade == [step |-> "none"]
Returned == [step |-> "returned"]

\* An entry of the list of receivers: receiver_ids comes from the request body,
\* and nothing keeps it from naming a persona twice.
Entries == 1 .. MaxReceivers
Receivers == [persona : Personas, entry : Entries]

\* The link that was read for a receiver.
Found == [to : Receivers, link : LinkRows]

\* A call under way.  "todo" are the receivers still to be notified, "read" is
\* the link that was read last and "token" the token, sets of at most one.
\* "stores" tells the types that are kept in the table from the transient one.
Calls == [step : {"profile", "find", "preference", "store"}, stores : BOOLEAN,
          server : Servers, todo : SUBSET Receivers,
          read : {{}} \cup {{x} : x \in Found},
          token : {{}} \cup {{t} : t \in Tokens \cup {NoToken}}]

Pushes == [notice : Notices, server : Servers, to : Receivers, token : Tokens]

\* sendNotification is running.
Notifying(n) == [step |-> "notify", notice |-> n]

NoticesTypeOK ==
    /\ handler \in [Servers -> {Idle} \cup Working
                             \cup {Notifying(n) : n \in Notices}]
    /\ notice \in [Notices -> Calls \cup {NotMade, Returned}]
    /\ stored \subseteq Notices \X Receivers
    /\ pushes \subseteq Pushes
    /\ pushed \in [Notices -> SUBSET Receivers]
    /\ missed \in [Notices -> SUBSET Receivers]
    /\ led \in [Notices -> SUBSET (Personas \X Prefs)]

NoticesInit ==
    /\ wallets = Dids
    /\ owner \in [Personas -> Owned]
    /\ regional = {}
    /\ pref = [i \in Prefs |-> NoRow]
    /\ link = [l \in Links |-> NoRow]
    /\ handler = [s \in Servers |-> Idle]
    /\ notice = [n \in Notices |-> NotMade]
    /\ stored = {}
    /\ pushes = {}
    /\ pushed = [n \in Notices |-> {}]
    /\ missed = [n \in Notices |-> {}]
    /\ led = [n \in Notices |-> {}]

-----------------------------------------------------------------------------
Running(n) == notice[n] \notin {NotMade, Returned}

\* The preferences of the personas that want to be pushed.
Wanted == {<<link[l].persona, link[l].pref>> : l \in
              {k \in Links : link[k] # NoRow /\ link[k].on}}

\* The history: what has been wanted at some moment of the call.
Remember ==
    led' = [n \in Notices |-> IF Running(n)' THEN led[n] \cup Wanted' ELSE led[n]]

\* Mutant: nobody is ticked off.
GoOnWithAll(n, r) ==
    /\ notice' = [notice EXCEPT ![n].step = "find", ![n].read = {}, ![n].token = {}]
    /\ UNCHANGED handler

\* The call goes on with what is left, or returns; a handler answers then.
GoOn(n, r) ==
    LET h == notice[n]
        rest == h.todo \ {r}
    IN  /\ notice' = [notice EXCEPT ![n] =
              IF rest = {} THEN Returned
              ELSE [h EXCEPT !.step = "find", !.todo = rest,
                             !.read = {}, !.token = {}]]
        /\ IF rest = {} /\ handler[h.server] = Notifying(n)
           THEN Reply(h.server) ELSE UNCHANGED handler

Miss(n, R) == missed' = [missed EXCEPT ![n] = @ \cup R]

\* The rows the call only reads.
tables == <<wallets, owner, regional, pref, link>>

-----------------------------------------------------------------------------
(* The two callers *)

\* The receivers a list names, entry by entry.
ReceiversOf(list) == {[persona |-> list[i], entry |-> i] : i \in DOMAIN list}

\* A message was stored: its goroutine notifies the receivers, here those that
\* are left when the sender is passed over.
CreateMessage(s) ==
    /\ handler[s] = Idle
    /\ \E n \in Notices, k \in Entries : \E list \in [1 .. k -> Personas] :
          /\ notice[n] = NotMade
          /\ notice' = [notice EXCEPT ![n] =
                [step |-> "profile", stores |-> FALSE, server |-> s,
                 todo |-> ReceiversOf(list), read |-> {}, token |-> {}]]
    /\ UNCHANGED <<tables, handler, stored, pushes, pushed, missed>>

\* The goroutine reads the sender's name and picture.
LoadProfile(n) ==
    /\ notice[n].step = "profile"
    /\ notice' = [notice EXCEPT ![n].step = "find"]
    /\ UNCHANGED <<tables, handler, stored, pushes, pushed, missed>>

\* The sender has no profile, or the query fails: nobody is notified.
NoProfile(n) ==
    /\ notice[n].step = "profile"
    /\ notice' = [notice EXCEPT ![n] = Returned]
    /\ Miss(n, notice[n].todo)
    /\ UNCHANGED <<tables, handler, stored, pushes, pushed>>

\* A client asks for a notification of one persona, of any type.
SendNotification(s) ==
    /\ handler[s] = Idle
    /\ \E n \in Notices, p \in Personas, b \in BOOLEAN :
          /\ notice[n] = NotMade
          /\ notice' = [notice EXCEPT ![n] =
                [step |-> "find", stores |-> b, server |-> s,
                 todo |-> ReceiversOf(<<p>>), read |-> {}, token |-> {}]]
          /\ Goto(s, Notifying(n))
    /\ UNCHANGED <<tables, stored, pushes, pushed, missed>>

-----------------------------------------------------------------------------
(* SendPersonaNotification, for the first of the receivers that are left *)

Turn(n) == {r \in notice[n].todo : \A q \in notice[n].todo : r.entry <= q.entry}

FindLink(n) ==
    /\ notice[n].step = "find"
    /\ \E r \in Turn(n) : \E l \in LinksOf(r.persona) :
          notice' = [notice EXCEPT ![n].step = "preference",
                                   ![n].read = {[to |-> r, link |-> link[l]]}]
    /\ UNCHANGED <<tables, handler, stored, pushes, pushed, missed>>

\* The persona has no link: it is passed over without a word.
\* Mutant: the call returns instead.
FindNoLinkAndReturn(n) ==
    /\ notice[n].step = "find"
    /\ \E r \in Turn(n) : LinksOf(r.persona) = {}
    /\ notice' = [notice EXCEPT ![n] = Returned]
    /\ IF handler[notice[n].server] = Notifying(n)
       THEN Reply(notice[n].server) ELSE UNCHANGED handler
    /\ UNCHANGED <<tables, stored, pushes, pushed, missed>>

FindNoLink(n) ==
    /\ notice[n].step = "find"
    /\ \E r \in Turn(n) : LinksOf(r.persona) = {} /\ GoOn(n, r)
    /\ UNCHANGED <<tables, stored, pushes, pushed, missed>>

FindFails(n) ==
    /\ MayFail
    /\ notice[n].step = "find"
    /\ \E r \in Turn(n) : GoOn(n, r) /\ Miss(n, {r})
    /\ UNCHANGED <<tables, stored, pushes, pushed>>

\* SendMessageAsync: a goroutine of its own sends the push, if there is a token
\* to send it to.
\* Mutant: nobody looks whether there is one.
SpawnAnyway(n, r, t) ==
    pushes' = pushes \cup {[notice |-> n, server |-> notice[n].server,
                            to |-> r, token |-> t]}

Spawn(n, r, t) ==
    pushes' = IF t = NoToken THEN pushes
              ELSE pushes \cup {[notice |-> n, server |-> notice[n].server,
                                 to |-> r, token |-> t]}

\* is_enabled, the quiet hours and the settings of the type, as one switch:
\* PersonaWants of QuietHours.
\* Mutant: they are not looked at.
Everything(x) == TRUE

Wants(x) == x.link.on

\* The preference the link names is read.  The persona may want no push; a
\* transient type is pushed at once, the others are stored first.
ReadPreference(n) ==
    /\ notice[n].step = "preference"
    /\ \E x \in notice[n].read :
          LET t == pref[x.link.pref].token
          IN  \/ /\ ~ Wants(x)
                 /\ GoOn(n, x.to)
                 /\ UNCHANGED pushes
              \/ /\ Wants(x)
                 /\ ~ notice[n].stores
                 /\ Spawn(n, x.to, t)
                 /\ GoOn(n, x.to)
              \/ /\ Wants(x)
                 /\ notice[n].stores
                 /\ notice' = [notice EXCEPT ![n].step = "store", ![n].token = {t}]
                 /\ UNCHANGED <<handler, pushes>>
    /\ UNCHANGED <<tables, stored, pushed, missed>>

\* A failing query is taken for a missing row.
ReadPreferenceFails(n) ==
    /\ MayFail
    /\ notice[n].step = "preference"
    /\ \E x \in notice[n].read : GoOn(n, x.to) /\ Miss(n, {x.to})
    /\ UNCHANGED <<tables, stored, pushes, pushed>>

StoreNotification(n) ==
    /\ notice[n].step = "store"
    /\ \E x \in notice[n].read, t \in notice[n].token :
          /\ stored' = stored \cup {<<n, x.to>>}
          /\ Spawn(n, x.to, t)
          /\ GoOn(n, x.to)
    /\ UNCHANGED <<tables, pushed, missed>>

\* The insert fails: the caller gets the error, nothing is pushed.
\* Mutant: the push goes out all the same.
StoreFailsPushing(n) ==
    /\ MayFail
    /\ notice[n].step = "store"
    /\ \E x \in notice[n].read, t \in notice[n].token :
          Spawn(n, x.to, t) /\ GoOn(n, x.to)
    /\ UNCHANGED <<tables, stored, pushed, missed>>

StoreFails(n) ==
    /\ MayFail
    /\ notice[n].step = "store"
    /\ \E x \in notice[n].read : GoOn(n, x.to) /\ Miss(n, {x.to})
    /\ UNCHANGED <<tables, stored, pushes, pushed>>

-----------------------------------------------------------------------------
(* The push goroutines *)

\* Firebase takes the push.
Send(x) ==
    /\ pushes' = pushes \ {x}
    /\ pushed' = [pushed EXCEPT ![x.notice] = @ \cup {x.to}]
    /\ UNCHANGED <<tables, handler, notice, stored, missed>>

\* It does not: that is logged, and there is no second attempt.
SendFails(x) ==
    /\ MayFail
    /\ pushes' = pushes \ {x}
    /\ Miss(x.notice, {x.to})
    /\ UNCHANGED <<tables, handler, notice, stored, pushed>>

-----------------------------------------------------------------------------
\* The process dies with its handler and all its goroutines.
CrashServer(s) ==
    /\ MayFail
    /\ LET lost(n) == {x \in pushes : x.notice = n /\ x.server = s}
           broken(n) == Running(n) /\ notice[n].server = s
       IN  /\ notice' = [n \in Notices |-> IF broken(n) THEN Returned ELSE notice[n]]
           /\ missed' = [n \in Notices |->
                 missed[n] \cup {x.to : x \in lost(n)}
                   \cup IF broken(n) THEN notice[n].todo ELSE {}]
           /\ pushes' = {x \in pushes : x.server # s}
    /\ Reply(s)
    /\ UNCHANGED <<tables, stored, pushed>>

\* What a call does once it is made.
Notify(n) ==
    \/ LoadProfile(n) \/ NoProfile(n)
    \/ FindLink(n) \/ FindNoLink(n) \/ FindFails(n)
    \/ ReadPreference(n) \/ ReadPreferenceFails(n)
    \/ StoreNotification(n) \/ StoreFails(n)

NoticesNext ==
    /\ \/ \E s \in Servers :
             \/ /\ ServePreferences(s)
                /\ UNCHANGED <<notice, stored, pushes, pushed, missed>>
             \/ CreateMessage(s) \/ SendNotification(s) \/ CrashServer(s)
       \/ \E n \in Notices : Notify(n)
       \/ \E x \in pushes : Send(x) \/ SendFails(x)
    /\ Remember

NoticesSpec == NoticesInit /\ [][NoticesNext]_allVars

(***************************************************************************)
(* The Go scheduler runs every goroutine that can run, and the database    *)
(* and Firebase answer, if only with an error.                             *)
(***************************************************************************)
FairNoticesSpec ==
    /\ NoticesSpec
    /\ \A n \in Notices : WF_allVars(Notify(n) /\ Remember)
    /\ \A x \in Pushes :
          WF_allVars(x \in pushes /\ (Send(x) \/ SendFails(x)) /\ Remember)

-----------------------------------------------------------------------------
\* The handlers as Accounts sees them: it knows nothing of sendNotification.
Serving == [s \in Servers |->
               IF \E n \in Notices : handler[s] = Notifying(n) THEN Idle ELSE handler[s]]

Undisturbed == INSTANCE Accounts WITH handler <- Serving

\* Whatever notices run beside them, in goroutines that wait for no handler and
\* answer only their own, wallets, personas and preferences change as by the
\* handlers of Accounts alone: no goroutine writes between the statements of
\* one (chat.go:456, utils/notification.go:178-287, firebase.go:37-45).
AccountsUndisturbed == [][Undisturbed!Next]_(Undisturbed!vars)

\* A push goes to the device that is registered in a preference, to which the
\* persona's link led, switched on, at some moment since the notice began,
\* whatever handlers have changed between the queries
\* (utils/notification.go:178-246).
PushWasWanted ==
    [][\A x \in pushes' \ pushes :
          \E i \in Prefs : /\ <<x.to.persona, i>> \in led[x.notice]
                           /\ pref[i] # NoRow
                           /\ pref[i].token = x.token]_allVars

\* Whatever is pushed of a type that is kept can be found in the table by
\* the client it wakes: an insert that fails stops the push
\* (utils/notification.go:240-246).
PushedIsStored ==
    [][\A x \in pushes' \ pushes :
          notice[x.notice].stores => <<x.notice, x.to>> \in stored']_allVars

\* No entry of the list of receivers is pushed twice, one goroutine per push and
\* nobody to tell whether it was sent (chat.go:471-506, firebase.go:37-45).  A
\* persona the list names twice does get two.
OnePushEach ==
    [][\A x \in pushes' \ pushes :
          /\ x.to \notin pushed[x.notice]
          /\ \A y \in pushes : y.notice = x.notice => y.to # x.to]_allVars

\* Every receiver a notice is for gets its push, unless at some moment before
\* it is its turn the persona wants none, or has no device where its link leads or has
\* led since the notice began, or an error or a crash comes between:
\* one receiver that cannot be notified does not cost the others theirs
\* (chat.go:469-506).
EveryReceiverPushed ==
    \A n \in Notices, r \in Receivers :
        (/\ Running(n)
         /\ r \in notice[n].todo
         /\ \A x \in notice[n].read : x.to # r)
        ~> \/ r \in pushed[n] \cup missed[n]
           \/ \A i \in Prefs : <<r.persona, i>> \notin Wanted
           \/ \E i \in Prefs : <<r.persona, i>> \in led[n] /\ pref[i].token = NoToken
=============================================================================
