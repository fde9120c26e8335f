-------------------------- MODULE NotificationsProofs --------------------------
(***************************************************************************)
(* Proofs about Notifications, for any number of calls, receivers and      *)
(* servers, beside the handlers of Accounts, and about QuietHours, which   *)
(* decides for every time of day what a preference wants.                  *)
(***************************************************************************)
EXTENDS Notifications, AccountsProofs, QuietHours

-----------------------------------------------------------------------------
(* The invariant *)

\* A preference that a link or a handler names has been found, and none is
\* ever deleted.
LinksLead == \A l \in Links : link[l] # NoRow => pref[link[l].pref] # NoRow

Leads(s) ==
    LET h == handler[s]
    IN  /\ h.step = "token" => pref[h.pref] # NoRow
        /\ h.step = "link" => pref[h.row.pref] # NoRow
        /\ h.step = "transfer" => \A x \in h.copies : pref[x.row.pref] # NoRow

HandlersLead == \A s \in Servers : Leads(s)

\* The link a call has read last is that of a receiver it has not done with,
\* and where it leads is remembered if it is switched on.
ReadsCount(n) ==
    /\ \A x \in notice[n].read :
          /\ x.to \in notice[n].todo
          /\ x.link.persona = x.to.persona
          /\ pref[x.link.pref] # NoRow
          /\ x.link.on => <<x.to.persona, x.link.pref>> \in led[n]
    /\ notice[n].step = "store" =>
          notice[n].stores /\ \A x \in notice[n].read : x.link.on

CallsCount == \A n \in Notices : Running(n) => ReadsCount(n)

\* A receiver is to be notified, or is being pushed, or has been.
Once(n) ==
    /\ notice[n] = NotMade => pushed[n] = {}
    /\ Running(n) => notice[n].todo \cap pushed[n] = {}
    /\ \A x \in pushes : x.notice = n =>
          /\ notice[n] # NotMade
          /\ Running(n) => x.to \notin notice[n].todo
          /\ x.to \notin pushed[n]

PushesOnce ==
    /\ \A n \in Notices : Once(n)
    /\ \A x, y \in pushes : x.notice = y.notice /\ x.to = y.to => x = y

NoticesInv ==
    /\ NoticesTypeOK
    /\ TablesTyped
    /\ LinksLead
    /\ HandlersLead
    /\ CallsCount
    /\ PushesOnce

-----------------------------------------------------------------------------
(* What a call does in one step *)

LEMMA CallTyped ==
    ASSUME NoticesTypeOK, NEW n \in Notices
    PROVE  /\ Running(n) <=> notice[n] \in Calls
           /\ notice[n].step \in {"profile", "find", "preference", "store"}
                 => notice[n] \in Calls
  BY DEF NoticesTypeOK, Calls, NotMade, Returned, Running

\* The call goes on with the receivers that are left, or returns.
GoesOn(n, p) ==
    \/ notice'[n] = Returned
    \/ /\ notice'[n] \in Calls
       /\ notice'[n].step = "find"
       /\ notice'[n].todo = notice[n].todo \ {p}
       /\ notice'[n].read = {}
       /\ notice'[n].server = notice[n].server
       /\ notice'[n].stores = notice[n].stores

\* Only the handler that waits for the call is answered.
Answers(n) ==
    \/ handler' = handler
    \/ /\ handler[notice[n].server] = Notifying(n)
       /\ notice'[n] = Returned
       /\ Reply(notice[n].server)

LEMMA GoOnMoves ==
    ASSUME NoticesTypeOK, NEW n \in Notices, notice[n] \in Calls, NEW p, GoOn(n, p)
    PROVE  /\ notice' = [notice EXCEPT ![n] = notice'[n]]
           /\ GoesOn(n, p)
           /\ Answers(n)
  <1> DEFINE h == notice[n]
             rest == h.todo \ {p}
             next == [h EXCEPT !.step = "find", !.todo = rest, !.read = {}, !.token = {}]
  <1>1. notice' = [notice EXCEPT ![n] = IF rest = {} THEN Returned ELSE next]
    BY DEF GoOn
  <1>2. notice'[n] = IF rest = {} THEN Returned ELSE next
    BY <1>1 DEF NoticesTypeOK
  <1>3. /\ next \in Calls /\ next.step = "find" /\ next.todo = rest /\ next.read = {}
        /\ next.server = h.server /\ next.stores = h.stores
    BY DEF Calls
  <1>4. GoesOn(n, p)
    BY <1>2, <1>3 DEF GoesOn
  <1>5. Answers(n)
    BY <1>2 DEF GoOn, Answers
  <1> QED
    BY <1>1, <1>2, <1>4, <1>5

\* The call is where it was but for its step, or has done with a receiver.  What
\* it reads is a link of a receiver that is left.
Advances(n) ==
    \/ notice'[n] = Returned
    \/ /\ notice'[n] \in Calls
       /\ notice'[n].server = notice[n].server
       /\ notice'[n].stores = notice[n].stores
       /\ notice'[n].todo \subseteq notice[n].todo
       /\ \A x \in notice'[n].read :
             \/ /\ x \in notice[n].read
                /\ notice'[n].todo = notice[n].todo
             \/ /\ x.to \in notice'[n].todo
                /\ x.link.persona = x.to.persona
                /\ \E l \in Links : link[l] # NoRow /\ link[l] = x.link
       /\ notice'[n].step = "store" =>
             /\ notice[n].stores
             /\ notice'[n].read = notice[n].read
             /\ \A x \in notice[n].read :
                   x.link.on /\ notice'[n].token = {pref[x.link.pref].token}

\* A push is for the receiver whose link was read, which the call has done with.
Spawns(n) ==
    \/ pushes' = pushes
    \/ \E x \in notice[n].read, t \in Tokens :
          /\ pushes' = pushes \cup {[notice |-> n, server |-> notice[n].server,
                                     to |-> x.to, token |-> t]}
          /\ x.link.on
          /\ GoesOn(n, x.to)
          /\ notice[n].stores =>
                /\ notice[n].step = "store" /\ t \in notice[n].token
                /\ <<n, x.to>> \in stored'
          /\ ~ notice[n].stores => t = pref[x.link.pref].token

Moves(n) ==
    /\ notice' = [notice EXCEPT ![n] = notice'[n]]
    /\ Advances(n)
    /\ Answers(n)
    /\ Spawns(n)
    /\ stored' \subseteq Notices \X Receivers
    /\ missed' \in [Notices -> SUBSET Receivers]
    /\ UNCHANGED <<tables, pushed>>

LEMMA ContinuesAdvances ==
    ASSUME NEW n \in Notices, NEW p, GoesOn(n, p)
    PROVE  Advances(n)
  BY DEF GoesOn, Advances

LEMMA FoundTyped ==
    ASSUME NEW x \in Found
    PROVE  /\ x.to \in Receivers /\ x.to.persona \in Personas
           /\ x.link \in LinkRows /\ x.link.pref \in Prefs
  BY DEF Found, Receivers, LinkRows

LEMMA MissTyped ==
    ASSUME NoticesTypeOK, NEW n \in Notices, NEW P \in SUBSET Receivers, Miss(n, P)
    PROVE  missed' \in [Notices -> SUBSET Receivers]
  BY DEF NoticesTypeOK, Miss

LEMMA SpawnMoves ==
    ASSUME NEW n, NEW p, NEW t \in Tokens \cup {NoToken}, Spawn(n, p, t)
    PROVE  \/ pushes' = pushes
           \/ /\ t \in Tokens
              /\ pushes' = pushes \cup {[notice |-> n, server |-> notice[n].server,
                                         to |-> p, token |-> t]}
  BY DEF Spawn

LEMMA NotifyMoves ==
    ASSUME NoticesTypeOK, TablesTyped, CallsCount, NEW n \in Notices, Notify(n)
    PROVE  notice[n] \in Calls /\ Moves(n)
  <1> DEFINE h == notice[n]
  <1>0. h \in Calls /\ Running(n)
    BY CallTyped DEF Notify, LoadProfile, NoProfile, FindLink, FindNoLink, FindFails,
       ReadPreference, ReadPreferenceFails, StoreNotification, StoreFails
  <1>t. /\ stored \subseteq Notices \X Receivers
        /\ missed \in [Notices -> SUBSET Receivers]
        /\ h.todo \in SUBSET Receivers
    BY <1>0 DEF NoticesTypeOK, Calls
  <1>r. \A x \in h.read : x \in Found /\ h.read = {x}
    BY <1>0 DEF Calls
  <1>c. \A x \in h.read : pref[x.link.pref] # NoRow /\ x.to \in h.todo
    BY <1>0 DEF CallsCount, ReadsCount
  <1>p. \A x \in h.read : pref[x.link.pref].token \in Tokens \cup {NoToken}
    <2> SUFFICES ASSUME NEW x \in h.read PROVE pref[x.link.pref].token \in Tokens \cup {NoToken}
      OBVIOUS
    <2>1. x.link.pref \in Prefs
      BY <1>r, FoundTyped
    <2>2. pref[x.link.pref] \in PrefRows
      BY <2>1, <1>c DEF TablesTyped
    <2> QED
      BY <2>2 DEF PrefRows
  <1>1. CASE LoadProfile(n)
    <2> DEFINE next == [h EXCEPT !.step = "find"]
    <2>1. notice' = [notice EXCEPT ![n] = next] /\ notice'[n] = next
      BY <1>1 DEF LoadProfile, NoticesTypeOK
    <2>2. /\ next \in Calls /\ next.server = h.server /\ next.stores = h.stores
          /\ next.todo = h.todo /\ next.read = h.read /\ next.step = "find"
      BY <1>0 DEF Calls
    <2>3. Advances(n)
      BY <2>1, <2>2 DEF Advances
    <2>4. UNCHANGED <<tables, handler, stored, pushes, pushed, missed>>
      BY <1>1 DEF LoadProfile
    <2> HIDE DEF next
    <2> QED
      BY <1>0, <1>t, <2>1, <2>3, <2>4 DEF Moves, Answers, Spawns
  <1>2. CASE NoProfile(n)
    <2>1. notice' = [notice EXCEPT ![n] = Returned] /\ notice'[n] = Returned
      BY <1>2 DEF NoProfile, NoticesTypeOK
    <2>2. missed' \in [Notices -> SUBSET Receivers]
      BY <1>2, <1>t, MissTyped DEF NoProfile
    <2>3. UNCHANGED <<tables, handler, stored, pushes, pushed>>
      BY <1>2 DEF NoProfile
    <2> QED
      BY <1>0, <1>t, <2>1, <2>2, <2>3 DEF Moves, Advances, Answers, Spawns
  <1>3. CASE FindLink(n)
    <2>0. PICK r \in Turn(n) :
              \E l \in LinksOf(r.persona) :
                 notice' = [notice EXCEPT ![n].step = "preference",
                                          ![n].read = {[to |-> r, link |-> link[l]]}]
      BY <1>3 DEF FindLink
    <2>1. PICK l \in LinksOf(r.persona) :
              notice' = [notice EXCEPT ![n].step = "preference",
                                       ![n].read = {[to |-> r, link |-> link[l]]}]
      BY <2>0
    <2> DEFINE found == [to |-> r, link |-> link[l]]
               next == [h EXCEPT !.step = "preference", !.read = {found}]
    <2>2. notice' = [notice EXCEPT ![n] = next] /\ notice'[n] = next
      BY <2>1 DEF NoticesTypeOK
    <2>3. /\ l \in Links /\ link[l] # NoRow
          /\ link[l].persona = r.persona /\ link[l] \in LinkRows
      BY DEF LinksOf, TablesTyped
    <2>7. r \in h.todo
      BY DEF Turn
    <2>8. found \in Found /\ found.to = r /\ found.link = link[l]
      BY <1>t, <2>3, <2>7 DEF Found
    <2> HIDE DEF found
    <2>4. /\ next \in Calls /\ next.server = h.server /\ next.stores = h.stores
          /\ next.todo = h.todo /\ next.read = {found} /\ next.step = "preference"
      BY <1>0, <2>8 DEF Calls
    <2>9. notice'[n].read = {found} /\ notice'[n].todo = h.todo
      BY <2>2, <2>4
    <2>5. Advances(n)
      BY <2>2, <2>3, <2>4, <2>7, <2>8, <2>9 DEF Advances
    <2>6. UNCHANGED <<tables, handler, stored, pushes, pushed, missed>>
      BY <1>3 DEF FindLink
    <2> HIDE DEF next
    <2> QED
      BY <1>0, <1>t, <2>2, <2>5, <2>6 DEF Moves, Answers, Spawns
  <1>4. ASSUME NEW p \in h.todo, GoOn(n, p),
               missed' \in [Notices -> SUBSET Receivers],
               UNCHANGED <<tables, stored, pushes, pushed>>
        PROVE  Moves(n)
    BY <1>0, <1>t, <1>4, GoOnMoves, ContinuesAdvances DEF Moves, Spawns
  <1>5. CASE FindNoLink(n)
    BY <1>0, <1>t, <1>4, <1>5 DEF FindNoLink, Turn
  <1>6. CASE FindFails(n)
    BY <1>0, <1>t, <1>4, <1>6, MissTyped DEF FindFails, Turn
  <1>7. CASE ReadPreferenceFails(n) \/ StoreFails(n)
    <2>1. PICK x \in h.read : GoOn(n, x.to) /\ Miss(n, {x.to})
      BY <1>7 DEF ReadPreferenceFails, StoreFails
    <2>2. UNCHANGED <<tables, stored, pushes, pushed>>
      BY <1>7 DEF ReadPreferenceFails, StoreFails
    <2>3. {x.to} \in SUBSET Receivers
      BY <1>t, <1>c
    <2> QED
      BY <1>0, <1>4, <1>c, <2>1, <2>2, <2>3, MissTyped
  <1>8. CASE ReadPreference(n)
    <2> DEFINE t(x) == pref[x.link.pref].token
    <2>0. /\ h.step = "preference"
          /\ UNCHANGED <<tables, stored, pushed, missed>>
      BY <1>8 DEF ReadPreference
    <2>1. PICK x \in h.read :
             \/ ~ Wants(x) /\ GoOn(n, x.to) /\ UNCHANGED pushes
             \/ Wants(x) /\ ~ h.stores /\ Spawn(n, x.to, t(x)) /\ GoOn(n, x.to)
             \/ /\ Wants(x) /\ h.stores /\ UNCHANGED <<handler, pushes>>
                /\ notice' = [notice EXCEPT ![n].step = "store", ![n].token = {t(x)}]
      BY <1>8 DEF ReadPreference
    <2>2. CASE ~ Wants(x) /\ GoOn(n, x.to) /\ UNCHANGED pushes
      BY <1>0, <1>t, <1>c, <1>4, <2>0, <2>2
    <2>3. CASE Wants(x) /\ ~ h.stores /\ Spawn(n, x.to, t(x)) /\ GoOn(n, x.to)
      <3>1. GoesOn(n, x.to) /\ Answers(n)
            /\ notice' = [notice EXCEPT ![n] = notice'[n]]
        BY <1>0, <2>3, GoOnMoves
      <3>2. Spawns(n)
        BY <1>p, <2>3, <3>1, SpawnMoves DEF Spawns, Wants
      <3> QED
        BY <1>0, <1>t, <2>0, <3>1, <3>2, ContinuesAdvances DEF Moves
    <2>4. CASE /\ Wants(x) /\ h.stores /\ UNCHANGED <<handler, pushes>>
               /\ notice' = [notice EXCEPT ![n].step = "store", ![n].token = {t(x)}]
      <3> DEFINE next == [h EXCEPT !.step = "store", !.token = {t(x)}]
      <3>1. notice' = [notice EXCEPT ![n] = next] /\ notice'[n] = next
        BY <2>4 DEF NoticesTypeOK
      <3>2. t(x) \in Tokens \cup {NoToken}
        BY <1>p
      <3> HIDE DEF t
      <3>3. /\ next \in Calls /\ next.server = h.server /\ next.stores = h.stores
            /\ next.todo = h.todo /\ next.read = h.read /\ next.step = "store"
            /\ next.token = {t(x)}
        BY <1>0, <3>2 DEF Calls
      <3>4. \A y \in h.read : y.link.on /\ next.token = {t(y)}
        BY <1>r, <2>4, <3>3 DEF Wants
      <3>5. Advances(n)
        BY <1>c, <2>4, <3>1, <3>3, <3>4 DEF Advances, t
      <3> HIDE DEF next
      <3> QED
        BY <1>0, <1>t, <2>0, <2>4, <3>1, <3>5 DEF Moves, Answers, Spawns
    <2> QED
      BY <2>1, <2>2, <2>3, <2>4
  <1>9. CASE StoreNotification(n)
    <2>1. PICK x \in h.read, t \in h.token :
             /\ stored' = stored \cup {<<n, x.to>>}
             /\ Spawn(n, x.to, t)
             /\ GoOn(n, x.to)
      BY <1>9 DEF StoreNotification
    <2>2. h.step = "store" /\ UNCHANGED <<tables, pushed, missed>>
      BY <1>9 DEF StoreNotification
    <2>3. /\ GoesOn(n, x.to) /\ Answers(n)
          /\ notice' = [notice EXCEPT ![n] = notice'[n]]
      BY <1>0, <2>1, GoOnMoves
    <2>4. t \in Tokens \cup {NoToken}
      BY <1>0 DEF Calls
    <2>5. h.stores /\ x.link.on
      BY <1>0, <2>2 DEF CallsCount, ReadsCount
    <2>6. Spawns(n)
      BY <2>1, <2>2, <2>3, <2>4, <2>5, SpawnMoves DEF Spawns
    <2>7. stored' \subseteq Notices \X Receivers
      BY <1>t, <1>c, <2>1
    <2> QED
      BY <1>0, <1>t, <2>2, <2>3, <2>6, <2>7, ContinuesAdvances DEF Moves
  <1> QED
    BY <1>0, <1>1, <1>2, <1>3, <1>5, <1>6, <1>7, <1>8, <1>9 DEF Notify

-----------------------------------------------------------------------------
(* Types *)

HandlersTyped ==
    handler \in [Servers -> {Idle} \cup Working \cup {Notifying(n) : n \in Notices}]

\* A handler that serves a preference is one of Accounts.
LEMMA ServesAlone ==
    ASSUME HandlersTyped, NEW s \in Servers, ServePreferences(s)
    PROVE  handler[s] \in {Idle} \cup Working
  <1>1. \A n : Notifying(n).step = "notify"
    BY DEF Notifying
  <1>2. handler[s] = Idle
        \/ handler[s].step \in {"create", "token", "link", "transfer"}
    BY DEF ServePreferences, GetPreferences, CreatePreference, UpdateToken,
       UpdatePreferences, GetPersonaPreferences, CreateLink, PreferenceFails,
       UpdatePersonaPreferences, TransferPersona, CommitTransfer, TransferFails
  <1> QED
    BY <1>1, <1>2 DEF HandlersTyped

LEMMA ServeTyped ==
    ASSUME HandlersTyped, TablesTyped, HandlersLead,
           NEW s \in Servers, ServePreferences(s)
    PROVE  HandlersTyped' /\ TablesTyped'
  <1>1. handler[s] \in {Idle} \cup Working
    BY ServesAlone
  <1>2. handler[s].step = "token" => pref[handler[s].pref] # NoRow
    BY DEF HandlersLead, Leads
  <1>3. /\ TablesTyped'
        /\ handler' = handler \/ \E h \in {Idle} \cup Working : Goto(s, h)
    BY <1>1, <1>2, PreferencesMove
  <1>4. HandlersTyped'
    BY <1>3 DEF HandlersTyped, Goto
  <1> QED
    BY <1>3, <1>4

LEMMA ReplyKeeps ==
    ASSUME HandlersTyped, NEW s \in Servers, Reply(s)
    PROVE  HandlersTyped'
  BY DEF HandlersTyped, Reply, Goto

LEMMA LedTyped ==
    ASSUME NoticesTypeOK, TablesTyped', Remember
    PROVE  /\ led' \in [Notices -> SUBSET (Personas \X Prefs)]
           /\ \A n \in Notices : led[n] \subseteq led'[n]
           /\ \A n \in Notices : Running(n)' => Wanted' \subseteq led'[n]
  <1>1. Wanted' \subseteq Personas \X Prefs
    BY DEF Wanted, TablesTyped, LinkRows
  <1>2. led' = [n \in Notices |-> IF Running(n)' THEN led[n] \cup Wanted' ELSE led[n]]
    BY DEF Remember
  <1>3. led \in [Notices -> SUBSET (Personas \X Prefs)]
    BY DEF NoticesTypeOK
  <1> HIDE DEF Wanted, Running
  <1> QED
    BY <1>1, <1>2, <1>3

\* A new call, of one of the two kinds.
Begun(n, s) ==
    /\ notice[n] = NotMade
    /\ notice' = [notice EXCEPT ![n] = notice'[n]]
    /\ notice'[n] \in Calls
    /\ notice'[n].read = {}
    /\ notice'[n].server = s
    /\ notice'[n].step # "store"
    /\ \/ handler' = handler /\ ~ notice'[n].stores
       \/ handler[s] = Idle /\ Goto(s, Notifying(n))
    /\ UNCHANGED <<tables, stored, pushes, pushed, missed>>

\* The receivers of a list, whomever it names and how often.
LEMMA ListTyped ==
    ASSUME NEW k \in Entries, NEW list \in [1 .. k -> Personas]
    PROVE  ReceiversOf(list) \in SUBSET Receivers
  <1>1. k \in Nat /\ k <= MaxReceivers
    BY ReceiversAssumption DEF Entries
  <1>2. ASSUME NEW i \in 1 .. k
        PROVE  [persona |-> list[i], entry |-> i] \in Receivers
    BY <1>1, ReceiversAssumption DEF Receivers, Entries
  <1>3. DOMAIN list = 1 .. k
    OBVIOUS
  <1> QED
    BY <1>2, <1>3 DEF ReceiversOf

LEMMA CallersBegin ==
    ASSUME NoticesTypeOK, NEW s \in Servers, CreateMessage(s) \/ SendNotification(s)
    PROVE  \E n \in Notices : Begun(n, s)
  <1>1. CASE CreateMessage(s)
    <2>1. PICK n \in Notices, k \in Entries :
             \E list \in [1 .. k -> Personas] :
                /\ notice[n] = NotMade
                /\ notice' = [notice EXCEPT ![n] =
                      [step |-> "profile", stores |-> FALSE, server |-> s,
                       todo |-> ReceiversOf(list), read |-> {}, token |-> {}]]
      BY <1>1 DEF CreateMessage
    <2>2. PICK list \in [1 .. k -> Personas] :
             /\ notice[n] = NotMade
             /\ notice' = [notice EXCEPT ![n] =
                   [step |-> "profile", stores |-> FALSE, server |-> s,
                    todo |-> ReceiversOf(list), read |-> {}, token |-> {}]]
      BY <2>1
    <2>7. ReceiversOf(list) \in SUBSET Receivers
      BY ListTyped
    <2>3. notice'[n] = [step |-> "profile", stores |-> FALSE, server |-> s,
                        todo |-> ReceiversOf(list), read |-> {}, token |-> {}]
      BY <2>2 DEF NoticesTypeOK
    <2>4. UNCHANGED <<tables, handler, stored, pushes, pushed, missed>>
      BY <1>1 DEF CreateMessage
    <2>5. /\ notice'[n] \in Calls /\ notice'[n].read = {} /\ notice'[n].server = s
          /\ notice'[n].step = "profile" /\ notice'[n].stores = FALSE
      BY <2>3, <2>7 DEF Calls
    <2>6. notice' = [notice EXCEPT ![n] = notice'[n]]
      BY <2>2, <2>3
    <2> QED
      BY <2>2, <2>4, <2>5, <2>6 DEF Begun
  <1>2. CASE SendNotification(s)
    <2>1. PICK n \in Notices :
             \E p \in Personas, b \in BOOLEAN :
                /\ notice[n] = NotMade
                /\ notice' = [notice EXCEPT ![n] =
                      [step |-> "find", stores |-> b, server |-> s, todo |-> ReceiversOf(<<p>>),
                       read |-> {}, token |-> {}]]
                /\ Goto(s, Notifying(n))
      BY <1>2 DEF SendNotification
    <2>2. PICK p \in Personas, b \in BOOLEAN :
             /\ notice[n] = NotMade
             /\ notice' = [notice EXCEPT ![n] =
                   [step |-> "find", stores |-> b, server |-> s, todo |-> ReceiversOf(<<p>>),
                    read |-> {}, token |-> {}]]
             /\ Goto(s, Notifying(n))
      BY <2>1
    <2>7. ReceiversOf(<<p>>) \in SUBSET Receivers
      <3>1. 1 \in Entries /\ <<p>> \in [1 .. 1 -> Personas]
        BY ReceiversAssumption DEF Entries
      <3> QED
        BY <3>1, ListTyped
    <2>3. notice'[n] = [step |-> "find", stores |-> b, server |-> s, todo |-> ReceiversOf(<<p>>),
                        read |-> {}, token |-> {}]
      BY <2>2 DEF NoticesTypeOK
    <2>4. handler[s] = Idle /\ UNCHANGED <<tables, stored, pushes, pushed, missed>>
      BY <1>2 DEF SendNotification
    <2>5. /\ notice'[n] \in Calls /\ notice'[n].read = {} /\ notice'[n].server = s
          /\ notice'[n].step = "find"
      BY <2>3, <2>7 DEF Calls
    <2>6. notice' = [notice EXCEPT ![n] = notice'[n]]
      BY <2>2, <2>3
    <2> QED
      BY <2>2, <2>4, <2>5, <2>6 DEF Begun
  <1> QED
    BY <1>1, <1>2

\* A server that dies: its calls return, its pushes are lost.
LEMMA CrashMoves ==
    ASSUME NoticesTypeOK, NEW s \in Servers, CrashServer(s)
    PROVE  /\ \A n \in Notices :
                 \/ notice'[n] = notice[n] /\ ~ (Running(n) /\ notice[n].server = s)
                 \/ Running(n) /\ notice'[n] = Returned
           /\ notice' \in [Notices -> Calls \cup {NotMade, Returned}]
           /\ missed' \in [Notices -> SUBSET Receivers]
           /\ pushes' \subseteq pushes
           /\ Reply(s)
           /\ UNCHANGED <<tables, stored, pushed>>
  <1> DEFINE lost(n) == {x \in pushes : x.notice = n /\ x.server = s}
             broken(n) == Running(n) /\ notice[n].server = s
             all(n) == missed[n] \cup {x.to : x \in lost(n)}
                          \cup IF broken(n) THEN notice[n].todo ELSE {}
  <1>1. /\ notice' = [n \in Notices |-> IF broken(n) THEN Returned ELSE notice[n]]
        /\ missed' = [n \in Notices |-> all(n)]
        /\ pushes' = {x \in pushes : x.server # s}
        /\ Reply(s)
        /\ UNCHANGED <<tables, stored, pushed>>
    BY DEF CrashServer
  <1>2. ASSUME NEW n \in Notices PROVE all(n) \in SUBSET Receivers
    <2>1. missed[n] \subseteq Receivers /\ pushes \subseteq Pushes
      BY DEF NoticesTypeOK
    <2>2. broken(n) => notice[n].todo \subseteq Receivers
      BY CallTyped DEF Calls
    <2>3. \A x \in lost(n) : x.to \in Receivers
      BY <2>1 DEF Pushes
    <2> QED
      BY <2>1, <2>2, <2>3
  <1>3. missed' \in [Notices -> SUBSET Receivers]
    <2> HIDE DEF all
    <2> QED
      BY <1>1, <1>2
  <1>4. notice' \in [Notices -> Calls \cup {NotMade, Returned}]
    <2> HIDE DEF broken
    <2> QED
      BY <1>1 DEF NoticesTypeOK
  <1>5. \A n \in Notices :
           \/ notice'[n] = notice[n] /\ ~ (Running(n) /\ notice[n].server = s)
           \/ Running(n) /\ notice'[n] = Returned
    <2> HIDE DEF Running
    <2> QED
      BY <1>1
  <1> QED
    BY <1>1, <1>3, <1>4, <1>5

LEMMA NoticesTypeStep ==
    ASSUME NoticesInv, [NoticesNext]_allVars
    PROVE  NoticesTypeOK' /\ TablesTyped'
  <1> USE DEF NoticesInv
  <1>0. HandlersTyped
    BY DEF NoticesTypeOK, HandlersTyped
  <1>u. UNCHANGED tables => TablesTyped'
    BY DEF tables, TablesTyped
  <1>l. TablesTyped' /\ Remember => led' \in [Notices -> SUBSET (Personas \X Prefs)]
    BY LedTyped
  <1>1. CASE UNCHANGED allVars
    BY <1>1 DEF allVars, noticeVars, vars, NoticesTypeOK, TablesTyped
  <1>2. ASSUME NEW s \in Servers, ServePreferences(s), Remember,
               UNCHANGED <<notice, stored, pushes, pushed, missed>>
        PROVE  NoticesTypeOK' /\ TablesTyped'
    BY <1>0, <1>2, <1>l, ServeTyped DEF NoticesTypeOK, HandlersTyped
  <1>3. ASSUME NEW s \in Servers, CreateMessage(s) \/ SendNotification(s), Remember
        PROVE  NoticesTypeOK' /\ TablesTyped'
    <2>1. PICK n \in Notices : Begun(n, s)
      BY <1>3, CallersBegin
    <2>2. handler' \in [Servers -> {Idle} \cup Working \cup {Notifying(m) : m \in Notices}]
      BY <1>0, <2>1 DEF Begun, Goto, HandlersTyped
    <2>3. notice' \in [Notices -> Calls \cup {NotMade, Returned}]
      BY <2>1 DEF Begun, NoticesTypeOK
    <2>4. UNCHANGED <<tables, stored, pushes, pushed, missed>>
      BY <2>1 DEF Begun
    <2> QED
      BY <1>3, <1>u, <1>l, <2>2, <2>3, <2>4 DEF NoticesTypeOK
  <1>4. ASSUME NEW s \in Servers, CrashServer(s), Remember
        PROVE  NoticesTypeOK' /\ TablesTyped'
    <2>1. HandlersTyped'
      BY <1>0, <1>4, CrashMoves, ReplyKeeps
    <2> QED
      BY <1>4, <1>u, <1>l, <2>1, CrashMoves DEF NoticesTypeOK, HandlersTyped
  <1>5. ASSUME NEW n \in Notices, Notify(n), Remember
        PROVE  NoticesTypeOK' /\ TablesTyped'
    <2>1. notice[n] \in Calls /\ Moves(n)
      BY <1>5, NotifyMoves
    <2>2. HandlersTyped'
      <3>1. notice[n].server \in Servers
        BY <2>1 DEF Calls
      <3> QED
        BY <1>0, <2>1, <3>1, ReplyKeeps DEF Moves, Answers, HandlersTyped
    <2>3. notice' \in [Notices -> Calls \cup {NotMade, Returned}]
      BY <2>1 DEF Moves, Advances, NoticesTypeOK
    <2>4. pushes' \subseteq Pushes
      <3>1. ASSUME NEW x \in notice[n].read, NEW t \in Tokens
            PROVE  [notice |-> n, server |-> notice[n].server,
                    to |-> x.to, token |-> t] \in Pushes
        BY <2>1 DEF Calls, Found, Pushes
      <3>2. \/ pushes' = pushes
            \/ \E x \in notice[n].read, t \in Tokens :
                  pushes' = pushes \cup {[notice |-> n, server |-> notice[n].server,
                                           to |-> x.to, token |-> t]}
        BY <2>1 DEF Moves, Spawns
      <3>3. pushes \subseteq Pushes
        BY DEF NoticesTypeOK
      <3> QED
        BY <3>1, <3>2, <3>3
    <2>5. /\ UNCHANGED tables /\ pushed' = pushed /\ stored' \subseteq Notices \X Receivers
          /\ missed' \in [Notices -> SUBSET Receivers]
      BY <2>1 DEF Moves
    <2> QED
      BY <1>5, <1>u, <1>l, <2>2, <2>3, <2>4, <2>5 DEF NoticesTypeOK, HandlersTyped
  <1>6. ASSUME NEW x \in pushes, Send(x) \/ SendFails(x), Remember
        PROVE  NoticesTypeOK' /\ TablesTyped'
    <2>1. x.to \in Receivers /\ x.notice \in Notices
      BY DEF NoticesTypeOK, Pushes
    <2>2. UNCHANGED <<tables, handler, notice, stored>> /\ pushes' \subseteq pushes
      BY <1>6 DEF Send, SendFails
    <2>3. pushed' \in [Notices -> SUBSET Receivers]
      BY <1>6, <2>1 DEF Send, SendFails, NoticesTypeOK
    <2>4. missed' \in [Notices -> SUBSET Receivers]
      BY <1>6, <2>1, MissTyped DEF Send, SendFails, NoticesTypeOK
    <2> QED
      BY <1>6, <1>u, <1>l, <2>2, <2>3, <2>4 DEF NoticesTypeOK
  <1> QED
    BY <1>1, <1>2, <1>3, <1>4, <1>5, <1>6 DEF NoticesNext

-----------------------------------------------------------------------------
(* The preferences that links, handlers and calls name *)

LEMMA LeadsStay ==
    ASSUME HandlersTyped, NEW s \in Servers, Leads(s), handler'[s] = handler[s],
           \A i \in Prefs : pref[i] # NoRow => pref'[i] # NoRow
    PROVE  Leads(s)'
  <1> DEFINE h == handler[s]
  <1>1. CASE h \in {Idle} \cup Working
    <2>1. h.step = "token" => h.pref \in Prefs
      BY <1>1, WorkTyped
    <2>2. h.step = "link" => h.row.pref \in Prefs
      BY <1>1, WorkTyped DEF Linking, LinkRows
    <2>3. h.step = "transfer" => \A x \in h.copies : x.row.pref \in Prefs
      BY <1>1, WorkTyped DEF Transferring, LinkRows
    <2> QED
      BY <2>1, <2>2, <2>3 DEF Leads
  <1>2. CASE h \in {Notifying(n) : n \in Notices}
    BY <1>2 DEF Notifying, Leads
  <1> QED
    BY <1>1, <1>2 DEF HandlersTyped

LEMMA IdleLeads ==
    ASSUME NEW s \in Servers, handler'[s].step \in {"idle", "notify", "create"}
    PROVE  Leads(s)'
  BY DEF Leads

LEMMA ServeLeads ==
    ASSUME HandlersTyped, TablesTyped, LinksLead, HandlersLead,
           NEW s \in Servers, ServePreferences(s)
    PROVE  LinksLead' /\ HandlersLead'
  <1>h. handler[s] \in {Idle} \cup Working
    BY ServesAlone
  <1>p. \A i \in Prefs : pref[i] # NoRow => pref'[i] # NoRow
    BY <1>h, PrefsRemain
  <1>g. ASSUME NEW h, Goto(s, h)
        PROVE  handler'[s] = h /\ \A r \in Servers \ {s} : handler'[r] = handler[r]
    BY <1>g DEF Goto, HandlersTyped
  <1>i. Reply(s) => handler'[s].step = "idle"
    BY <1>g DEF Reply, Idle
  <1>1. LinksLead'
    <2> SUFFICES ASSUME NEW l \in Links, link'[l] # NoRow
                 PROVE  \E i \in Prefs : pref[i] # NoRow /\ link'[l].pref = i
      BY <1>p DEF LinksLead
    <2>0. ASSUME link[l] # NoRow
          PROVE  \E i \in Prefs : pref[i] # NoRow /\ link[l].pref = i
      BY <2>0 DEF LinksLead, TablesTyped, LinkRows
    <2>1. CASE link'[l] = link[l]
      BY <2>0, <2>1
    <2>2. CASE CreateLink(s)
      <3>1. handler[s].row \in LinkRows /\ pref[handler[s].row.pref] # NoRow
        BY <1>h, <2>2, WorkTyped DEF CreateLink, Linking, HandlersLead, Leads
      <3>2. handler[s].row.pref \in Prefs
        BY <3>1 DEF LinkRows
      <3>3. link'[l] = link[l] \/ link'[l] = handler[s].row
        BY <2>2 DEF CreateLink, TablesTyped
      <3> QED
        BY <2>1, <3>1, <3>2, <3>3
    <2>3. CASE UpdatePersonaPreferences(s)
      <3>1. PICK k \in Links, on \in BOOLEAN :
               link[k] # NoRow /\ link' = [link EXCEPT ![k].on = on]
        BY <2>3 DEF UpdatePersonaPreferences
      <3>2. link[k] \in LinkRows
        BY <3>1 DEF TablesTyped
      <3>3. [link[k] EXCEPT !.on = on].pref = link[k].pref
        BY <3>2 DEF LinkRows
      <3>4. CASE l = k
        BY <2>0, <3>1, <3>3, <3>4 DEF TablesTyped
      <3>5. CASE l # k
        BY <2>1, <3>1, <3>5 DEF TablesTyped
      <3> QED
        BY <3>4, <3>5
    <2>4. CASE CommitTransfer(s)
      <3> DEFINE h == handler[s]
      <3>1. h \in Transferring /\ \A x \in h.copies : pref[x.row.pref] # NoRow
        BY <1>h, <2>4, WorkTyped DEF CommitTransfer, HandlersLead, Leads
      <3>2. link'[l] = IF \E x \in h.copies : x.id = l
                       THEN (CHOOSE x \in h.copies : x.id = l).row ELSE link[l]
        BY <2>4 DEF CommitTransfer
      <3>3. CASE \E x \in h.copies : x.id = l
        <4>1. (CHOOSE x \in h.copies : x.id = l) \in h.copies
          BY <3>3
        <4>2. PICK x \in h.copies : link'[l] = x.row
          BY <3>2, <3>3, <4>1
        <4>3. x.row.pref \in Prefs
          BY <3>1 DEF Transferring, LinkRows
        <4> QED
          BY <3>1, <4>2, <4>3
      <3> QED
        BY <2>1, <3>2, <3>3
    <2>5. CASE link' = link
      BY <2>1, <2>5
    <2> QED
      BY <2>2, <2>3, <2>4, <2>5 DEF ServePreferences, GetPreferences,
         CreatePreference, UpdateToken, UpdatePreferences, GetPersonaPreferences,
         PreferenceFails, TransferPersona, TransferFails
  <1>2. HandlersLead'
    <2>1. (\A r \in Servers : handler'[r] = handler[r] \/ Leads(r)') => HandlersLead'
      BY <1>p, LeadsStay DEF HandlersLead
    <2>2. ASSUME NEW h, Goto(s, h), Leads(s)' PROVE HandlersLead'
      BY <1>g, <2>1, <2>2
    <2>3. Reply(s) => HandlersLead'
      BY <1>i, <2>2, IdleLeads DEF Reply
    <2>4. CASE GetPreferences(s)
      <3>1. PICK h : /\ Goto(s, h)
                     /\ \/ h.step = "create"
                        \/ h.step = "token" /\ h.pref \in Prefs /\ pref[h.pref] # NoRow
        <4>1. PICK d \in Dids, t \in Tokens :
                \/ Goto(s, [step |-> "create", row |-> [did |-> d, token |-> t]])
                \/ \E i \in PrefsOf(d) :
                      Goto(s, [step |-> "token", pref |-> i, token |-> t])
          BY <2>4 DEF GetPreferences
        <4>2. CASE Goto(s, [step |-> "create", row |-> [did |-> d, token |-> t]])
          BY <4>2
        <4>3. ASSUME NEW i \in PrefsOf(d),
                     Goto(s, [step |-> "token", pref |-> i, token |-> t])
              PROVE  \E h : /\ Goto(s, h)
                            /\ h.step = "token" /\ h.pref \in Prefs /\ pref[h.pref] # NoRow
          <5>1. i \in Prefs /\ pref[i] # NoRow
            BY DEF PrefsOf
          <5> WITNESS [step |-> "token", pref |-> i, token |-> t]
          <5> QED
            BY <4>3, <5>1
        <4> QED
          BY <4>1, <4>2, <4>3
      <3>2. handler'[s] = h
        BY <1>g, <3>1
      <3>3. Leads(s)'
        BY <1>p, <3>1, <3>2 DEF Leads
      <3> QED
        BY <2>2, <3>1, <3>3
    <2>5. CASE GetPersonaPreferences(s)
      <3>1. PICK p \in Personas, d \in Dids :
               \E i \in PrefsOf(d) :
                  Goto(s, [step |-> "link", row |-> [persona |-> p, pref |-> i, on |-> TRUE]])
        BY <2>5 DEF GetPersonaPreferences
      <3>2. PICK i \in PrefsOf(d) :
               Goto(s, [step |-> "link", row |-> [persona |-> p, pref |-> i, on |-> TRUE]])
        BY <3>1
      <3>3. handler'[s] = [step |-> "link", row |-> [persona |-> p, pref |-> i, on |-> TRUE]]
        BY <1>g, <3>2
      <3>4. i \in Prefs /\ pref[i] # NoRow
        BY DEF PrefsOf
      <3>5. Leads(s)'
        BY <1>p, <3>3, <3>4 DEF Leads
      <3> QED
        BY <2>2, <3>2, <3>5
    <2>6. CASE TransferPersona(s)
      <3>1. PICK p \in Personas, target \in wallets :
               \E copies \in IF Relinked(p, target) = {} THEN {{}}
                             ELSE {{x} : x \in Relinked(p, target)} :
                  Goto(s, [step |-> "transfer", persona |-> p,
                           target |-> target, copies |-> copies])
        BY <2>6 DEF TransferPersona
      <3>2. PICK copies : /\ copies \subseteq Relinked(p, target)
                          /\ Goto(s, [step |-> "transfer", persona |-> p,
                                      target |-> target, copies |-> copies])
        BY <3>1
      <3>3. handler'[s] = [step |-> "transfer", persona |-> p,
                           target |-> target, copies |-> copies]
        BY <1>g, <3>2
      <3>4. ASSUME NEW x \in copies PROVE pref'[x.row.pref] # NoRow
        <4>1. PICK l \in LinksOf(p), i \in PrefsOf(target) :
                 x = [id |-> l, row |-> [link[l] EXCEPT !.pref = i]]
          BY <3>2 DEF Relinked
        <4>2. link[l] \in LinkRows
          BY DEF LinksOf, TablesTyped
        <4>3. x.row.pref = i
          BY <4>1, <4>2 DEF LinkRows
        <4> QED
          BY <1>p, <4>3 DEF PrefsOf
      <3>5. Leads(s)'
        BY <3>3, <3>4 DEF Leads
      <3> QED
        BY <2>2, <3>2, <3>5
    <2>7. CASE handler' = handler
      BY <2>1, <2>7
    <2> QED
      BY <2>3, <2>4, <2>5, <2>6, <2>7 DEF ServePreferences, CreatePreference,
         UpdateToken, UpdatePreferences, CreateLink, PreferenceFails,
         UpdatePersonaPreferences, CommitTransfer, TransferFails
  <1> QED
    BY <1>1, <1>2

\* The steps that leave the tables alone.
LEMMA TablesStand ==
    ASSUME NoticesInv, UNCHANGED tables,
           \A s \in Servers : \/ handler'[s] = handler[s]
                              \/ handler'[s].step \in {"idle", "notify"}
    PROVE  LinksLead' /\ HandlersLead'
  <1>1. LinksLead'
    BY DEF NoticesInv, LinksLead, tables
  <1>2. \A i \in Prefs : pref[i] # NoRow => pref'[i] # NoRow
    BY DEF tables
  <1>3. HandlersTyped
    BY DEF NoticesInv, NoticesTypeOK, HandlersTyped
  <1>4. HandlersLead'
    BY <1>2, <1>3, LeadsStay, IdleLeads DEF NoticesInv, HandlersLead
  <1> QED
    BY <1>1, <1>4

\* What any step is, as far as the invariant is concerned.
Stands ==
    /\ UNCHANGED tables
    /\ \A s \in Servers : \/ handler'[s] = handler[s]
                          \/ handler'[s].step \in {"idle", "notify"}

LEMMA GotoStands ==
    ASSUME HandlersTyped, NEW s \in Servers, NEW h, Goto(s, h),
           h.step \in {"idle", "notify"}, UNCHANGED tables
    PROVE  Stands
  BY DEF Stands, Goto, HandlersTyped

LEMMA LeadStep ==
    ASSUME NoticesInv, [NoticesNext]_allVars
    PROVE  /\ LinksLead' /\ HandlersLead'
           /\ \A i \in Prefs : pref[i] # NoRow => pref'[i] # NoRow
  <1>0. HandlersTyped /\ TablesTyped /\ NoticesTypeOK
    BY DEF NoticesInv, NoticesTypeOK, HandlersTyped
  <1>1. ASSUME NEW s \in Servers, ServePreferences(s)
        PROVE  /\ LinksLead' /\ HandlersLead'
               /\ \A i \in Prefs : pref[i] # NoRow => pref'[i] # NoRow
    BY <1>0, <1>1, ServeLeads, ServesAlone, PrefsRemain DEF NoticesInv
  <1>2. CASE Stands
    BY <1>2, TablesStand DEF Stands, tables
  <1>r. ASSUME NEW s \in Servers, Reply(s), UNCHANGED tables PROVE Stands
    <2>1. Goto(s, Idle) /\ Idle.step = "idle"
      BY <1>r DEF Reply, Idle
    <2> QED
      BY <1>0, <1>r, <2>1, GotoStands
  <1>u. UNCHANGED <<tables, handler>> => Stands
    BY DEF Stands
  <1>3. ASSUME NEW s \in Servers, CreateMessage(s) \/ SendNotification(s) PROVE Stands
    <2>1. PICK n \in Notices : Begun(n, s)
      BY <1>0, <1>3, CallersBegin
    <2>2. Notifying(n).step = "notify"
      BY DEF Notifying
    <2> QED
      BY <1>0, <1>u, <2>1, <2>2, GotoStands DEF Begun
  <1>4. ASSUME NEW s \in Servers, CrashServer(s) PROVE Stands
    BY <1>0, <1>4, <1>r, CrashMoves
  <1>5. ASSUME NEW n \in Notices, Notify(n) PROVE Stands
    <2>1. Moves(n) /\ notice[n].server \in Servers
      BY <1>0, <1>5, NotifyMoves DEF NoticesInv, Calls
    <2> QED
      BY <1>r, <1>u, <2>1 DEF Moves, Answers
  <1>6. ASSUME NEW x \in pushes, Send(x) \/ SendFails(x) PROVE Stands
    BY <1>6, <1>u DEF Send, SendFails
  <1>7. UNCHANGED allVars => Stands
    BY <1>u DEF allVars, vars, tables
  <1> QED
    BY <1>1, <1>2, <1>3, <1>4, <1>5, <1>6, <1>7 DEF NoticesNext

LEMMA CallsStep ==
    ASSUME NoticesInv, [NoticesNext]_allVars
    PROVE  CallsCount'
  <1>0. /\ HandlersTyped /\ TablesTyped /\ NoticesTypeOK /\ LinksLead
        /\ TablesTyped'
        /\ \A i \in Prefs : pref[i] # NoRow => pref'[i] # NoRow
    BY LeadStep, NoticesTypeStep DEF NoticesInv, NoticesTypeOK, HandlersTyped
  <1> SUFFICES ASSUME NEW n \in Notices, Running(n)' PROVE ReadsCount(n)'
    BY DEF CallsCount
  <1>1. ASSUME notice'[n] = notice[n], led[n] \subseteq led'[n] PROVE ReadsCount(n)'
    <2>1. Running(n) /\ ReadsCount(n) /\ notice[n] \in Calls
      BY <1>0, <1>1, CallTyped DEF NoticesInv, CallsCount, Running
    <2>2. \A x \in notice[n].read : x.link.pref \in Prefs
      BY <2>1, FoundTyped DEF Calls
    <2> QED
      BY <1>0, <1>1, <2>1, <2>2 DEF ReadsCount
  <1>2. Remember => led[n] \subseteq led'[n] /\ Wanted' \subseteq led'[n]
    BY <1>0, LedTyped
  <1>3. CASE UNCHANGED <<notice, led>>
    BY <1>1, <1>3
  <1>4. ASSUME NEW s \in Servers, CreateMessage(s) \/ SendNotification(s), Remember
        PROVE  ReadsCount(n)'
    <2>1. PICK m \in Notices : Begun(m, s)
      BY <1>0, <1>4, CallersBegin
    <2>2. CASE n = m
      BY <2>1, <2>2 DEF Begun, ReadsCount
    <2>3. CASE n # m
      BY <1>1, <1>2, <1>4, <2>1, <2>3 DEF Begun, NoticesInv, NoticesTypeOK
    <2> QED
      BY <2>2, <2>3
  <1>5. ASSUME NEW s \in Servers, CrashServer(s), Remember PROVE ReadsCount(n)'
    BY <1>0, <1>1, <1>2, <1>5, CrashMoves DEF Running
  <1>6. ASSUME NEW m \in Notices, Notify(m), Remember PROVE ReadsCount(n)'
    <2>1. Moves(m) /\ notice[m] \in Calls
      BY <1>0, <1>6, NotifyMoves DEF NoticesInv
    <2>2. CASE n # m
      BY <1>0, <1>1, <1>2, <1>6, <2>1, <2>2 DEF Moves, NoticesTypeOK
    <2>3. CASE n = m
      <3>1. Running(n) /\ ReadsCount(n)
        BY <1>0, <2>1, <2>3, CallTyped DEF NoticesInv, CallsCount
      <3>2. notice'[n] # Returned /\ Advances(n)
        BY <2>1, <2>3 DEF Moves, Running
      <3>3. ASSUME NEW x \in notice'[n].read
            PROVE  /\ x.to \in notice'[n].todo
                   /\ x.link.persona = x.to.persona
                   /\ pref'[x.link.pref] # NoRow
                   /\ x.link.on => <<x.to.persona, x.link.pref>> \in led'[n]
        <4>1. CASE x \in notice[n].read /\ notice'[n].todo = notice[n].todo
          <5>1. x.link.pref \in Prefs
            BY <2>1, <2>3, <4>1, FoundTyped DEF Calls
          <5> QED
            BY <1>0, <1>2, <1>6, <3>1, <4>1, <5>1 DEF ReadsCount
        <4>2. CASE /\ x.to \in notice'[n].todo
                   /\ x.link.persona = x.to.persona
                   /\ \E l \in Links : link[l] # NoRow /\ link[l] = x.link
          <5>1. PICK l \in Links : link[l] # NoRow /\ link[l] = x.link
            BY <4>2
          <5>2. link' = link /\ pref' = pref
            BY <2>1 DEF Moves, tables
          <5>3. pref[x.link.pref] # NoRow
            BY <1>0, <5>1 DEF LinksLead
          <5>4. x.link.on => <<x.to.persona, x.link.pref>> \in Wanted'
            BY <4>2, <5>1, <5>2 DEF Wanted
          <5> QED
            BY <1>2, <1>6, <4>2, <5>2, <5>3, <5>4
        <4> QED
          BY <3>2, <4>1, <4>2 DEF Advances
      <3>4. notice'[n].step = "store" =>
               notice'[n].stores /\ \A x \in notice'[n].read : x.link.on
        BY <3>2 DEF Advances
      <3> QED
        BY <3>3, <3>4 DEF ReadsCount
    <2> QED
      BY <2>2, <2>3
  <1>7. ASSUME Remember, UNCHANGED notice PROVE ReadsCount(n)'
    BY <1>1, <1>2, <1>7
  <1> QED
    BY <1>3, <1>4, <1>5, <1>6, <1>7 DEF NoticesNext, Send, SendFails, allVars, noticeVars

-----------------------------------------------------------------------------
(* One push for every entry of a list *)

LEMMA OnceStep ==
    ASSUME NoticesInv, [NoticesNext]_allVars
    PROVE  PushesOnce'
  <1>0. /\ NoticesTypeOK /\ CallsCount /\ PushesOnce
        /\ \A x \in pushes : x.notice \in Notices
    BY DEF NoticesInv, NoticesTypeOK, Pushes
  <1>1. CASE UNCHANGED <<notice, pushes, pushed>>
    BY <1>0, <1>1 DEF PushesOnce, Once, Running
  <1>2. ASSUME pushes' \subseteq pushes, UNCHANGED pushed,
               \A n \in Notices : \/ notice'[n] = notice[n]
                                  \/ notice[n] # NotMade /\ notice'[n] = Returned
        PROVE  PushesOnce'
    <2>1. ASSUME NEW n \in Notices PROVE Once(n)'
      BY <1>0, <1>2 DEF PushesOnce, Once, Running, NotMade, Returned
    <2> QED
      BY <1>0, <1>2, <2>1 DEF PushesOnce
  <1>3. ASSUME NEW s \in Servers, CreateMessage(s) \/ SendNotification(s)
        PROVE  PushesOnce'
    <2>1. PICK n \in Notices : Begun(n, s)
      BY <1>0, <1>3, CallersBegin
    <2>2. notice[n] = NotMade /\ pushes' = pushes /\ pushed' = pushed /\ notice'[n] # NotMade
      BY <2>1 DEF Begun, Calls, NotMade
    <2>3. Once(n)'
      BY <1>0, <2>2 DEF PushesOnce, Once
    <2>4. ASSUME NEW m \in Notices, m # n PROVE Once(m)'
      <3>1. notice'[m] = notice[m]
        BY <2>1, <2>4 DEF Begun, NoticesInv, NoticesTypeOK
      <3> QED
        BY <1>0, <2>2, <3>1 DEF PushesOnce, Once, Running
    <2> QED
      BY <1>0, <2>2, <2>3, <2>4 DEF PushesOnce
  <1>4. ASSUME NEW s \in Servers, CrashServer(s) PROVE PushesOnce'
    BY <1>0, <1>2, <1>4, CrashMoves DEF Running
  <1>5. ASSUME NEW n \in Notices, Notify(n) PROVE PushesOnce'
    <2>1. Moves(n) /\ notice[n] \in Calls /\ Running(n)
      BY <1>0, <1>5, NotifyMoves, CallTyped DEF NoticesInv
    <2>2. /\ notice'[n] # NotMade /\ pushed' = pushed
          /\ Running(n)' => notice'[n].todo \subseteq notice[n].todo
      BY <2>1 DEF Moves, Advances, Calls, NotMade, Returned, Running
    <2>3. \A m \in Notices : m # n => notice'[m] = notice[m]
      BY <1>0, <2>1 DEF Moves, NoticesTypeOK
    <2>4. CASE pushes' = pushes
      <3>1. ASSUME NEW m \in Notices PROVE Once(m)'
        BY <1>0, <2>1, <2>2, <2>3, <2>4 DEF PushesOnce, Once, Running
      <3> QED
        BY <1>0, <2>4, <3>1 DEF PushesOnce
    <2>5. CASE pushes' # pushes
      <3>1. PICK x \in notice[n].read, t \in Tokens :
               /\ pushes' = pushes \cup {[notice |-> n, server |-> notice[n].server,
                                          to |-> x.to, token |-> t]}
               /\ GoesOn(n, x.to)
        BY <2>1, <2>5 DEF Moves, Spawns
      <3> DEFINE new == [notice |-> n, server |-> notice[n].server,
                         to |-> x.to, token |-> t]
      <3>2. /\ pushes' = pushes \cup {new}
            /\ new.notice = n /\ new.to = x.to
        BY <3>1
      <3>3. x.to \in notice[n].todo /\ x.to \notin pushed[n]
        BY <1>0, <2>1 DEF CallsCount, ReadsCount, PushesOnce, Once
      <3>4. \A y \in pushes : y.notice = n => y.to # x.to
        BY <1>0, <2>1, <3>3 DEF PushesOnce, Once
      <3>5. Running(n)' => x.to \notin notice'[n].todo
        BY <3>1 DEF GoesOn, Running
      <3> HIDE DEF new
      <3>6. ASSUME NEW m \in Notices PROVE Once(m)'
        <4>1. CASE m = n
          BY <1>0, <2>1, <2>2, <3>2, <3>3, <3>5, <4>1 DEF PushesOnce, Once
        <4>2. CASE m # n
          <5>1. \A y \in pushes' : y.notice = m => y \in pushes
            BY <3>2, <4>2
          <5> QED
            BY <1>0, <2>2, <2>3, <4>2, <5>1 DEF PushesOnce, Once, Running
        <4> QED
          BY <4>1, <4>2
      <3>7. \A y, z \in pushes' : y.notice = z.notice /\ y.to = z.to => y = z
        BY <1>0, <3>2, <3>4 DEF PushesOnce
      <3> QED
        BY <3>6, <3>7 DEF PushesOnce
    <2> QED
      BY <2>4, <2>5
  <1>6. ASSUME NEW x \in pushes, Send(x) PROVE PushesOnce'
    <2>1. /\ pushes' = pushes \ {x} /\ notice' = notice
          /\ pushed' = [pushed EXCEPT ![x.notice] = @ \cup {x.to}]
      BY <1>6 DEF Send
    <2>2. ASSUME NEW m \in Notices PROVE Once(m)'
      <3>1. Once(m) /\ (\A y \in pushes \ {x} : y.notice = x.notice => y.to # x.to)
        BY <1>0 DEF PushesOnce
      <3>2. pushed'[m] = IF m = x.notice THEN pushed[m] \cup {x.to} ELSE pushed[m]
        BY <1>0, <2>1 DEF NoticesTypeOK
      <3>3. m = x.notice => /\ notice[m] # NotMade
                            /\ Running(m) => x.to \notin notice[m].todo
        BY <3>1 DEF Once
      <3> QED
        BY <2>1, <3>1, <3>2, <3>3 DEF Once, Running
    <2> QED
      BY <1>0, <2>1, <2>2 DEF PushesOnce
  <1>7. ASSUME NEW x \in pushes, SendFails(x) PROVE PushesOnce'
    BY <1>2, <1>7 DEF SendFails
  <1> QED
    BY <1>1, <1>3, <1>4, <1>5, <1>6, <1>7 DEF NoticesNext, allVars, noticeVars

-----------------------------------------------------------------------------
(* What holds of every notice, on any number of servers *)

LEMMA NoticesInvAlways == NoticesSpec => []NoticesInv
  <1>1. NoticesInit => NoticesInv
    BY DEF NoticesInit, NoticesInv, NoticesTypeOK, TablesTyped, LinksLead, HandlersLead,
       Leads, CallsCount, PushesOnce, Once, Running, Idle
  <1>2. NoticesInv /\ [NoticesNext]_allVars => NoticesInv'
    BY NoticesTypeStep, LeadStep, CallsStep, OnceStep DEF NoticesInv
  <1> QED
    BY <1>1, <1>2, PTL DEF NoticesSpec

\* A call, the table of notifications and the push goroutines keep their types,
\* whatever the handlers do beside them (utils/notification.go:160-246).
THEOREM NoticesTypeCorrect == NoticesSpec => []NoticesTypeOK
  <1>1. NoticesInv => NoticesTypeOK
    BY DEF NoticesInv
  <1> QED
    BY <1>1, NoticesInvAlways, PTL

\* Only a call starts pushes.
LEMMA NewPush ==
    ASSUME NoticesInv, [NoticesNext]_allVars, NEW x \in pushes' \ pushes
    PROVE  /\ x.notice \in Notices /\ Running(x.notice) /\ Moves(x.notice)
           /\ \E y \in notice[x.notice].read, t \in Tokens :
                 /\ x.to = y.to /\ x.token = t
                 /\ y.link.on
                 /\ notice[x.notice].stores =>
                       /\ notice[x.notice].step = "store"
                       /\ t \in notice[x.notice].token
                       /\ <<x.notice, y.to>> \in stored'
                 /\ ~ notice[x.notice].stores => t = pref[y.link.pref].token
  <1>0. NoticesTypeOK
    BY DEF NoticesInv
  <1>1. ASSUME NEW s \in Servers, CreateMessage(s) \/ SendNotification(s) PROVE FALSE
    BY <1>0, <1>1, CallersBegin DEF Begun
  <1>2. ASSUME NEW s \in Servers, CrashServer(s) PROVE FALSE
    BY <1>0, <1>2, CrashMoves
  <1>3. ASSUME NEW y \in pushes, Send(y) \/ SendFails(y) PROVE FALSE
    BY <1>3 DEF Send, SendFails
  <1>4. PICK n \in Notices : Notify(n)
    BY <1>1, <1>2, <1>3 DEF NoticesNext, allVars, noticeVars
  <1>5. Moves(n) /\ Running(n)
    BY <1>0, <1>4, NotifyMoves, CallTyped DEF NoticesInv
  <1>6. PICK y \in notice[n].read, t \in Tokens :
           /\ pushes' = pushes \cup {[notice |-> n, server |-> notice[n].server,
                                      to |-> y.to, token |-> t]}
           /\ y.link.on
           /\ notice[n].stores =>
                 /\ notice[n].step = "store" /\ t \in notice[n].token
                 /\ <<n, y.to>> \in stored'
           /\ ~ notice[n].stores => t = pref[y.link.pref].token
    BY <1>5 DEF Moves, Spawns
  <1>7. x = [notice |-> n, server |-> notice[n].server, to |-> y.to, token |-> t]
    BY <1>6
  <1>8. x.notice = n /\ x.to = y.to /\ x.token = t
    BY <1>7
  <1> QED
    BY <1>5, <1>6, <1>8

\* No entry of a list of receivers is pushed twice, whomever the list names and
\* how often, on any number of servers: a receiver is ticked off in the step that
\* starts its push, and a push that was started is sent once or not at all
\* (chat.go:471-506, utils/notification.go:160-246, firebase.go:37-45).
THEOREM PushedOnce == NoticesSpec => OnePushEach
  <1> DEFINE First ==
        \A x \in pushes' \ pushes :
          /\ x.to \notin pushed[x.notice]
          /\ \A y \in pushes : y.notice = x.notice => y.to # x.to
  <1>1. NoticesInv /\ [NoticesNext]_allVars => [First]_allVars
    <2> SUFFICES ASSUME NoticesInv, [NoticesNext]_allVars, NEW x \in pushes' \ pushes
                 PROVE  /\ x.to \notin pushed[x.notice]
                        /\ \A y \in pushes : y.notice = x.notice => y.to # x.to
      OBVIOUS
    <2>1. x.notice \in Notices /\ Running(x.notice)
      BY NewPush
    <2>2. x.to \in notice[x.notice].todo
      BY NewPush DEF NoticesInv, CallsCount, ReadsCount
    <2> QED
      BY <2>1, <2>2 DEF NoticesInv, PushesOnce, Once
  <1>2. OnePushEach <=> [][First]_allVars
    BY PTL DEF OnePushEach
  <1> HIDE DEF First
  <1>3. NoticesSpec => [][NoticesNext]_allVars
    BY PTL DEF NoticesSpec
  <1> QED
    BY <1>1, <1>2, <1>3, NoticesInvAlways, PTL

\* What is pushed of a type that is kept is in the table by then, on any number
\* of servers (utils/notification.go:240-246).
THEOREM KeptIsStored == NoticesSpec => PushedIsStored
  <1> DEFINE Kept ==
        \A x \in pushes' \ pushes :
          notice[x.notice].stores => <<x.notice, x.to>> \in stored'
  <1>1. NoticesInv /\ [NoticesNext]_allVars => [Kept]_allVars
    BY NewPush
  <1>2. PushedIsStored <=> [][Kept]_allVars
    BY PTL DEF PushedIsStored
  <1> HIDE DEF Kept
  <1>3. NoticesSpec => [][NoticesNext]_allVars
    BY PTL DEF NoticesSpec
  <1> QED
    BY <1>1, <1>2, <1>3, NoticesInvAlways, PTL

-----------------------------------------------------------------------------
(* Where a push goes, on one server *)

\* A notice that is to be kept is made inside a handler, so that no other
\* handler changes a preference between its queries.
HeldBack(n) ==
    Running(n) /\ notice[n].stores =>
        /\ handler[notice[n].server] = Notifying(n)
        /\ notice[n].step = "store" =>
              \A x \in notice[n].read : \A t \in notice[n].token :
                 pref[x.link.pref].token = t

AllHeldBack == \A n \in Notices : HeldBack(n)

LEMMA HeldBackStep ==
    ASSUME OneServer, NoticesInv, AllHeldBack, [NoticesNext]_allVars
    PROVE  AllHeldBack'
  <1>0. HandlersTyped /\ NoticesTypeOK
    BY DEF NoticesInv, NoticesTypeOK, HandlersTyped
  <1>n. \A m, n : m # n => Notifying(m) # Notifying(n)
    BY DEF Notifying
  <1>i. \A n : Notifying(n) \notin {Idle} \cup Working
    BY DEF Notifying, Idle, Working, Migrating, Deleting, Registering, Linking, Transferring
  <1>s. \A n \in Notices : Running(n) => notice[n].server \in Servers
    BY <1>0, CallTyped DEF Calls
  <1> SUFFICES ASSUME NEW n \in Notices, Running(n)', notice'[n].stores
               PROVE  HeldBack(n)'
    BY DEF AllHeldBack, HeldBack
  <1>1. ASSUME notice'[n] = notice[n], UNCHANGED tables,
               handler'[notice[n].server] = handler[notice[n].server]
        PROVE  HeldBack(n)'
    BY <1>1 DEF AllHeldBack, HeldBack, Running, tables
  <1>2. CASE UNCHANGED <<tables, notice, handler>>
    BY <1>1, <1>2
  <1>3. ASSUME NEW s \in Servers, ServePreferences(s), UNCHANGED notice
        PROVE  FALSE
    <2>1. handler[s] \in {Idle} \cup Working
      BY <1>0, <1>3, ServesAlone
    <2>2. Running(n) /\ notice[n].stores
      BY <1>3 DEF Running
    <2>3. handler[s] = Notifying(n)
      BY <1>s, <2>2 DEF OneServer, AllHeldBack, HeldBack
    <2> QED
      BY <1>i, <2>1, <2>3
  <1>4. ASSUME NEW s \in Servers, CreateMessage(s) \/ SendNotification(s)
        PROVE  HeldBack(n)'
    <2>1. PICK m \in Notices : Begun(m, s)
      BY <1>0, <1>4, CallersBegin
    <2>2. CASE n = m
      <3>1. handler'[s] = Notifying(n) /\ notice'[n].server = s /\ notice'[n].step # "store"
        BY <1>0, <2>1, <2>2 DEF Begun, Goto, HandlersTyped
      <3> QED
        BY <3>1 DEF HeldBack
    <2>3. CASE n # m
      <3>1. notice'[n] = notice[n] /\ UNCHANGED tables
        BY <1>0, <2>1, <2>3 DEF Begun, NoticesTypeOK
      <3>2. handler[notice[n].server] = Notifying(n) /\ notice[n].server = s
        BY <1>s, <3>1 DEF OneServer, AllHeldBack, HeldBack, Running
      <3>3. handler' = handler
        BY <1>i, <2>1, <3>2 DEF Begun
      <3> QED
        BY <1>1, <3>1, <3>3
    <2> QED
      BY <2>2, <2>3
  <1>5. ASSUME NEW s \in Servers, CrashServer(s) PROVE FALSE
    <2>1. notice'[n] = notice[n] /\ ~ (Running(n) /\ notice[n].server = s)
      BY <1>0, <1>5, CrashMoves DEF Running
    <2> QED
      BY <1>s, <2>1 DEF Running, OneServer
  <1>6. ASSUME NEW m \in Notices, Notify(m) PROVE HeldBack(n)'
    <2>1. Moves(m) /\ notice[m] \in Calls
      BY <1>0, <1>6, NotifyMoves DEF NoticesInv
    <2>2. UNCHANGED tables
      BY <2>1 DEF Moves
    <2>3. CASE n # m
      <3>1. notice'[n] = notice[n]
        BY <1>0, <2>1, <2>3 DEF Moves, NoticesTypeOK
      <3>2. handler[notice[n].server] = Notifying(n)
        BY <3>1 DEF AllHeldBack, HeldBack, Running
      <3>3. \/ handler' = handler
            \/ /\ handler[notice[m].server] = Notifying(m)
               /\ Reply(notice[m].server)
        BY <2>1 DEF Moves, Answers
      <3>4. handler'[notice[n].server] = handler[notice[n].server]
        <4>1. CASE handler' = handler
          BY <4>1
        <4>2. CASE /\ handler[notice[m].server] = Notifying(m)
                   /\ Reply(notice[m].server)
          <5>1. Notifying(m) # Notifying(n)
            BY <1>n, <2>3
          <5>2. notice[m].server # notice[n].server
            BY <3>2, <4>2, <5>1
          <5>3. notice[n].server \in Servers
            BY <1>s, <3>1 DEF Running
          <5> QED
            BY <1>0, <4>2, <5>2, <5>3 DEF Reply, Goto, HandlersTyped
        <4> QED
          BY <3>3, <4>1, <4>2
      <3> QED
        BY <1>1, <2>2, <3>1, <3>4
    <2>4. CASE n = m
      <3>1. notice'[n] # Returned
        BY DEF Running
      <3>2. /\ notice'[n].server = notice[n].server /\ notice[n].stores
            /\ notice'[n].step = "store" =>
                  /\ notice'[n].read = notice[n].read
                  /\ \A x \in notice[n].read : notice'[n].token = {pref[x.link.pref].token}
        BY <2>1, <2>4, <3>1 DEF Moves, Advances
      <3>3. handler' = handler
        BY <2>1, <2>4, <3>1 DEF Moves, Answers
      <3>4. Running(n)
        BY <1>0, <2>1, <2>4, CallTyped
      <3>5. handler[notice[n].server] = Notifying(n)
        BY <3>2, <3>4 DEF AllHeldBack, HeldBack
      <3>6. pref' = pref
        BY <2>2 DEF tables
      <3> QED
        BY <3>2, <3>3, <3>5, <3>6 DEF HeldBack
    <2> QED
      BY <2>3, <2>4
  <1>7. ASSUME NEW x \in pushes, Send(x) \/ SendFails(x) PROVE HeldBack(n)'
    BY <1>2, <1>7 DEF Send, SendFails
  <1>8. UNCHANGED allVars => UNCHANGED <<tables, notice, handler>>
    BY DEF allVars, noticeVars, vars, tables
  <1> QED
    BY <1>2, <1>3, <1>4, <1>5, <1>6, <1>7, <1>8 DEF NoticesNext

LEMMA HeldBackAlways ==
    ASSUME OneServer
    PROVE  NoticesSpec => []AllHeldBack
  <1>1. NoticesInit => AllHeldBack
    BY DEF NoticesInit, AllHeldBack, HeldBack, Running
  <1>2. NoticesInv /\ AllHeldBack /\ [NoticesNext]_allVars => AllHeldBack'
    BY HeldBackStep
  <1> QED
    BY <1>1, <1>2, NoticesInvAlways, PTL DEF NoticesSpec

\* On one server a push goes to the token that is registered, as it starts, in
\* a preference to which the persona's link led, switched on, at some moment of
\* the call (utils/notification.go:178-246).
THEOREM PushesWanted ==
    ASSUME OneServer
    PROVE  NoticesSpec => PushWasWanted
  <1> DEFINE Meant ==
        \A x \in pushes' \ pushes :
          \E i \in Prefs : /\ <<x.to.persona, i>> \in led[x.notice]
                           /\ pref[i] # NoRow
                           /\ pref[i].token = x.token
  <1>1. NoticesInv /\ AllHeldBack /\ [NoticesNext]_allVars => [Meant]_allVars
    <2> SUFFICES ASSUME NoticesInv, AllHeldBack, [NoticesNext]_allVars,
                        NEW x \in pushes' \ pushes
                 PROVE  \E i \in Prefs : /\ <<x.to.persona, i>> \in led[x.notice]
                                         /\ pref[i] # NoRow
                                         /\ pref[i].token = x.token
      OBVIOUS
    <2> DEFINE n == x.notice
    <2>1. n \in Notices /\ Running(n)
      BY NewPush
    <2>2. PICK y \in notice[n].read, t \in Tokens :
             /\ x.to = y.to /\ x.token = t /\ y.link.on
             /\ notice[n].stores => notice[n].step = "store" /\ t \in notice[n].token
             /\ ~ notice[n].stores => t = pref[y.link.pref].token
      BY NewPush
    <2>3. y.link.pref \in Prefs
      BY <2>1, CallTyped, FoundTyped DEF NoticesInv, Calls
    <2>4. pref[y.link.pref] # NoRow /\ <<y.to.persona, y.link.pref>> \in led[n]
      BY <2>1, <2>2 DEF NoticesInv, CallsCount, ReadsCount
    <2>5. pref[y.link.pref].token = t
      BY <2>1, <2>2 DEF AllHeldBack, HeldBack
    <2> QED
      BY <2>2, <2>3, <2>4, <2>5
  <1>2. PushWasWanted <=> [][Meant]_allVars
    BY PTL DEF PushWasWanted
  <1> HIDE DEF Meant
  <1>3. NoticesSpec => [][NoticesNext]_allVars
    BY PTL DEF NoticesSpec
  <1> QED
    BY <1>1, <1>2, <1>3, NoticesInvAlways, HeldBackAlways, PTL

-----------------------------------------------------------------------------
(* No receiver costs another its push *)

\* A receiver the call has still to see to, one whose push is under way, and one
\* that is not to be pushed, by what the call has read.
Left(n, p) == Running(n) /\ p \in notice[n].todo

Handed(n, p) == \E x \in pushes : x.notice = n /\ x.to = p

Excused(n, p) ==
    \/ LinksOf(p.persona) = {}
    \/ \E x \in notice[n].read :
          /\ x.to = p
          /\ \/ ~ x.link.on
             \/ pref[x.link.pref].token = NoToken
             \/ notice[n].token = {NoToken}

\* What becomes of the receivers a step takes from a call or from its pushes.
Accounted(n, p) ==
    /\ Left(n, p) /\ ~ Left(n, p)' =>
          p \in missed'[n] \/ Handed(n, p)' \/ Excused(n, p)
    /\ Handed(n, p) /\ ~ Handed(n, p)' => p \in pushed'[n] \cup missed'[n]

Unmoved(n) == notice'[n] = notice[n] /\ pushes \subseteq pushes'

LEMMA UnmovedAccounted ==
    ASSUME NEW n \in Notices, NEW p \in Receivers, Unmoved(n)
    PROVE  Accounted(n, p)
  BY DEF Unmoved, Accounted, Left, Handed, Running

\* GoOn has done with one receiver and no other.
LEMMA GoOnLeaves ==
    ASSUME NoticesTypeOK, NEW n \in Notices, NEW q, GoOn(n, q),
           notice[n] \in Calls
    PROVE  /\ \A m \in Notices : m # n => notice'[m] = notice[m]
           /\ \A p \in notice[n].todo : p # q => Left(n, p)'
  <1> DEFINE h == notice[n]
             rest == h.todo \ {q}
             next == [h EXCEPT !.step = "find", !.todo = rest, !.read = {}, !.token = {}]
  <1>1. notice' = [notice EXCEPT ![n] = IF rest = {} THEN Returned ELSE next]
    BY DEF GoOn
  <1>2. notice'[n] = IF rest = {} THEN Returned ELSE next
    BY <1>1 DEF NoticesTypeOK
  <1>3. next.todo = rest /\ next.step = "find"
    BY DEF Calls
  <1>4. next # NotMade /\ next # Returned
    BY <1>3 DEF NotMade, Returned
  <1>5. \A m \in Notices : m # n => notice'[m] = notice[m]
    BY <1>1 DEF NoticesTypeOK
  <1>6. ASSUME NEW p \in h.todo, p # q PROVE Left(n, p)'
    <2>1. notice'[n] = next /\ p \in rest
      BY <1>2, <1>6
    <2> QED
      BY <1>3, <1>4, <2>1 DEF Left, Running
  <1> QED
    BY <1>5, <1>6

\* What a step of the call does to its receivers, and to those of the others.
LEMMA NotifyAccounts ==
    ASSUME NoticesInv, NEW m \in Notices, Notify(m),
           NEW n \in Notices, NEW p \in Receivers
    PROVE  Accounted(n, p)
  <1> DEFINE h == notice[m]
  <1>0. h \in Calls /\ Moves(m) /\ NoticesTypeOK
    BY NotifyMoves DEF NoticesInv
  <1>1. pushes \subseteq pushes'
    BY <1>0 DEF Moves, Spawns
  <1>2. \A q \in Receivers : Handed(n, q) => Handed(n, q)'
    BY <1>1 DEF Handed
  <1>3. CASE n # m
    <2>1. notice'[n] = notice[n]
      BY <1>0, <1>3 DEF Moves, NoticesTypeOK
    <2> QED
      BY <1>1, <2>1, UnmovedAccounted DEF Unmoved
  <1>4. ASSUME n = m, NEW q, GoOn(m, q),
               q \in missed'[m] \/ Handed(m, q)' \/ Excused(m, q)
        PROVE  Accounted(n, p)
    <2>1. Left(n, p) /\ ~ Left(n, p)' => p = q
      BY <1>0, <1>4, GoOnLeaves DEF Left
    <2> QED
      BY <1>2, <1>4, <2>1 DEF Accounted
  <1>5. ASSUME n = m, NEW next, notice' = [notice EXCEPT ![m] = next],
               next \in Calls, next.todo = h.todo
        PROVE  Accounted(n, p)
    <2>1. notice'[n] = next /\ notice'[n].step # "none" /\ notice'[n] \in Calls
      BY <1>0, <1>5 DEF NoticesTypeOK, Calls
    <2>2. Left(n, p) => Left(n, p)'
      BY <1>5, <2>1 DEF Left, Running, Calls, NotMade, Returned
    <2> QED
      BY <1>2, <2>2 DEF Accounted
  <1>6. ASSUME NEW P, Miss(m, P) PROVE P \subseteq missed'[m]
    BY <1>0, <1>6 DEF Miss, NoticesTypeOK
  <1>7. CASE n = m
    <2>1. CASE LoadProfile(m)
      <3> DEFINE next == [h EXCEPT !.step = "find"]
      <3>1. notice' = [notice EXCEPT ![m] = next]
        BY <2>1 DEF LoadProfile
      <3>2. next \in Calls /\ next.todo = h.todo
        BY <1>0 DEF Calls
      <3> HIDE DEF next
      <3> QED
        BY <1>5, <1>7, <3>1, <3>2
    <2>2. CASE NoProfile(m)
      <3>1. h.todo \subseteq missed'[m]
        BY <1>6, <2>2 DEF NoProfile
      <3> QED
        BY <1>2, <1>7, <3>1 DEF Accounted, Left
    <2>3. CASE FindLink(m)
      <3>1. PICK r \in Turn(m) :
               \E l \in LinksOf(r.persona) :
                  notice' = [notice EXCEPT ![m].step = "preference",
                                           ![m].read = {[to |-> r, link |-> link[l]]}]
        BY <2>3 DEF FindLink
      <3>2. PICK l \in LinksOf(r.persona) :
               notice' = [notice EXCEPT ![m].step = "preference",
                                        ![m].read = {[to |-> r, link |-> link[l]]}]
        BY <3>1
      <3> DEFINE found == [to |-> r, link |-> link[l]]
                 next == [h EXCEPT !.step = "preference", !.read = {found}]
      <3>3. notice' = [notice EXCEPT ![m] = next]
        BY <3>2
      <3>4. link[l] \in LinkRows
        BY DEF LinksOf, TablesTyped, NoticesInv
      <3>6. r \in Receivers
        BY <1>0 DEF Turn, Calls
      <3>7. found \in Found
        BY <3>4, <3>6 DEF Found
      <3> HIDE DEF found
      <3>5. next \in Calls /\ next.todo = h.todo
        BY <1>0, <3>7 DEF Calls
      <3> HIDE DEF next
      <3> QED
        BY <1>5, <1>7, <3>3, <3>5
    <2>4. CASE FindNoLink(m)
      BY <1>4, <1>7, <2>4 DEF FindNoLink, Excused
    <2>5. CASE FindFails(m)
      BY <1>4, <1>6, <1>7, <2>5 DEF FindFails
    <2>6. CASE ReadPreferenceFails(m) \/ StoreFails(m)
      BY <1>4, <1>6, <1>7, <2>6 DEF ReadPreferenceFails, StoreFails
    <2>7. ASSUME NEW x \in h.read, NEW t, Spawn(m, x.to, t), t # NoToken
          PROVE  Handed(m, x.to)'
      <3>1. [notice |-> m, server |-> h.server, to |-> x.to, token |-> t] \in pushes'
        BY <2>7 DEF Spawn
      <3> QED
        BY <3>1 DEF Handed
    <2>8. CASE ReadPreference(m)
      <3>1. PICK x \in h.read :
               \/ ~ Wants(x) /\ GoOn(m, x.to)
               \/ Spawn(m, x.to, pref[x.link.pref].token) /\ GoOn(m, x.to)
               \/ notice' = [notice EXCEPT ![m].step = "store",
                                           ![m].token = {pref[x.link.pref].token}]
        BY <2>8 DEF ReadPreference
      <3>2. CASE ~ Wants(x) /\ GoOn(m, x.to)
        BY <1>4, <1>7, <3>2 DEF Excused, Wants
      <3>3. CASE Spawn(m, x.to, pref[x.link.pref].token) /\ GoOn(m, x.to)
        <4>1. CASE pref[x.link.pref].token = NoToken
          BY <1>4, <1>7, <3>3, <4>1 DEF Excused
        <4>2. CASE pref[x.link.pref].token # NoToken
          BY <1>4, <1>7, <2>7, <3>3, <4>2
        <4> QED
          BY <4>1, <4>2
      <3>4. CASE notice' = [notice EXCEPT ![m].step = "store",
                                          ![m].token = {pref[x.link.pref].token}]
        <4> DEFINE next == [h EXCEPT !.step = "store", !.token = {pref[x.link.pref].token}]
        <4>0. Running(m)
          BY <1>0 DEF Calls, Running, NotMade, Returned
        <4>1. x.link.pref \in Prefs /\ pref[x.link.pref] # NoRow
          <5>1. ReadsCount(m)
            BY <4>0 DEF NoticesInv, CallsCount
          <5>2. h.read \subseteq Found
            BY <1>0 DEF Calls
          <5> QED
            BY <5>1, <5>2, FoundTyped DEF ReadsCount
        <4>2. pref[x.link.pref].token \in Tokens \cup {NoToken}
          BY <4>1 DEF NoticesInv, TablesTyped, PrefRows
        <4>3. next \in Calls /\ next.todo = h.todo
          BY <1>0, <4>2 DEF Calls
        <4>4. notice' = [notice EXCEPT ![m] = next]
          BY <3>4
        <4> HIDE DEF next
        <4> QED
          BY <1>5, <1>7, <4>3, <4>4
      <3> QED
        BY <3>1, <3>2, <3>3, <3>4
    <2>9. CASE StoreNotification(m)
      <3>1. PICK x \in h.read, t \in h.token :
               Spawn(m, x.to, t) /\ GoOn(m, x.to)
        BY <2>9 DEF StoreNotification
      <3>2. CASE t = NoToken
        <4>1. h.token = {NoToken}
          BY <1>0, <3>1, <3>2 DEF Calls
        <4> QED
          BY <1>4, <1>7, <3>1, <4>1 DEF Excused
      <3>3. CASE t # NoToken
        BY <1>4, <1>7, <2>7, <3>1, <3>3
      <3> QED
        BY <3>2, <3>3
    <2> QED
      BY <2>1, <2>2, <2>3, <2>4, <2>5, <2>6, <2>8, <2>9 DEF Notify
  <1> QED
    BY <1>3, <1>7

\* A call is done with a receiver when its push is under way, or an error, a
\* crash or its persona's own settings stand against it, and a push ends sent
\* or failed: what becomes of one receiver is never the fate of another.  This
\* is what EveryReceiverPushed comes to at each step, on any number of servers
\* (chat.go:469-506, utils/notification.go:178-287).
THEOREM NobodyDropped ==
    NoticesSpec => [][\A n \in Notices, p \in Receivers : Accounted(n, p)]_allVars
  <1> DEFINE AllAccounted == \A n \in Notices, p \in Receivers : Accounted(n, p)
  <1>1. NoticesInv /\ [NoticesNext]_allVars => [AllAccounted]_allVars
    <2> SUFFICES ASSUME NoticesInv, [NoticesNext]_allVars,
                        NEW n \in Notices, NEW p \in Receivers
                 PROVE  Accounted(n, p)
      OBVIOUS
    <2>0. NoticesTypeOK
      BY DEF NoticesInv
    <2>1. CASE UNCHANGED allVars
      BY <2>1, UnmovedAccounted DEF Unmoved, allVars, noticeVars
    <2>2. CASE UNCHANGED <<notice, pushes>>
      BY <2>2, UnmovedAccounted DEF Unmoved
    <2>3. ASSUME NEW s \in Servers, CreateMessage(s) \/ SendNotification(s)
          PROVE  Accounted(n, p)
      <3>1. PICK m \in Notices : Begun(m, s)
        BY <2>0, <2>3, CallersBegin
      <3>2. pushes' = pushes /\ (n # m => notice'[n] = notice[n])
        BY <2>0, <3>1 DEF Begun, NoticesTypeOK
      <3>3. CASE n = m
        BY <3>1, <3>2, <3>3 DEF Begun, Accounted, Left, Handed, Running
      <3> QED
        BY <3>2, <3>3, UnmovedAccounted DEF Unmoved
    <2>4. ASSUME NEW s \in Servers, CrashServer(s)
          PROVE  Accounted(n, p)
      <3> DEFINE lost(k) == {x \in pushes : x.notice = k /\ x.server = s}
                 broken(k) == Running(k) /\ notice[k].server = s
                 all(k) == missed[k] \cup {x.to : x \in lost(k)}
                             \cup IF broken(k) THEN notice[k].todo ELSE {}
      <3>1. /\ notice' = [k \in Notices |-> IF broken(k) THEN Returned ELSE notice[k]]
            /\ missed' = [k \in Notices |-> all(k)]
            /\ pushes' = {x \in pushes : x.server # s}
        BY <2>4 DEF CrashServer
      <3>2. /\ notice'[n] = IF broken(n) THEN Returned ELSE notice[n]
            /\ missed'[n] = all(n)
        BY <3>1
      <3>3. Left(n, p) /\ ~ Left(n, p)' => p \in missed'[n]
        <4>1. CASE broken(n)
          BY <3>2, <4>1 DEF Left
        <4>2. CASE ~ broken(n)
          BY <3>2, <4>2 DEF Left, Running
        <4> QED
          BY <4>1, <4>2
      <3>4. Handed(n, p) /\ ~ Handed(n, p)' => p \in missed'[n]
        <4> SUFFICES ASSUME NEW x \in pushes, x.notice = n, x.to = p, ~ Handed(n, p)'
                     PROVE  p \in missed'[n]
          BY DEF Handed
        <4>1. x \in lost(n)
          BY <3>1 DEF Handed
        <4> QED
          BY <3>2, <4>1
      <3> HIDE DEF lost, broken, all
      <3> QED
        BY <3>3, <3>4 DEF Accounted
    <2>5. ASSUME NEW x \in pushes, Send(x) \/ SendFails(x)
          PROVE  Accounted(n, p)
      <3>1. x.notice \in Notices /\ notice' = notice /\ pushes' = pushes \ {x}
        BY <2>0, <2>5 DEF Send, SendFails, NoticesTypeOK, Pushes
      <3>2. x.to \in pushed'[x.notice] \cup missed'[x.notice]
        BY <2>0, <2>5, <3>1 DEF Send, SendFails, Miss, NoticesTypeOK
      <3>3. Handed(n, p) /\ ~ Handed(n, p)' => x.notice = n /\ x.to = p
        BY <3>1 DEF Handed
      <3>4. Left(n, p) => Left(n, p)'
        BY <3>1 DEF Left, Running
      <3> QED
        BY <3>2, <3>3, <3>4 DEF Accounted
    <2> QED
      BY <2>1, <2>2, <2>3, <2>4, <2>5, NotifyAccounts DEF NoticesNext
  <1> HIDE DEF AllAccounted
  <1>2. NoticesSpec => [][AllAccounted]_allVars
    BY <1>1, NoticesInvAlways, PTL DEF NoticesSpec
  <1> QED
    BY <1>2 DEF AllAccounted

-----------------------------------------------------------------------------
(* Accounts, undisturbed *)

\* The lemmas of AccountsProofs about what Accounts sees.
Seen == INSTANCE AccountsProofs WITH handler <- Serving

LEMMA ServingIs ==
    ASSUME HandlersTyped, NEW s \in Servers
    PROVE  /\ Serving[s] \in {Idle} \cup Working
           /\ handler[s] \in {Idle} \cup Working => Serving[s] = handler[s]
           /\ \A n \in Notices : handler[s] = Notifying(n) => Serving[s] = Idle
  <1>1. \A n : Notifying(n) \notin {Idle} \cup Working
    BY DEF Notifying, Idle, Working, Deleting, Migrating, Registering, Linking, Transferring
  <1>2. Serving[s] = IF \E n \in Notices : handler[s] = Notifying(n)
                     THEN Idle ELSE handler[s]
    BY DEF Serving
  <1> HIDE DEF Notifying, Idle, Working
  <1> QED
    BY <1>1, <1>2 DEF HandlersTyped

LEMMA GotoSeen ==
    ASSUME HandlersTyped, NEW s \in Servers, NEW h \in {Idle} \cup Working, Goto(s, h)
    PROVE  Seen!Goto(s, h) /\ Undisturbed!Goto(s, h)
  <1>1. \A r \in Servers : handler'[r] = IF r = s THEN h ELSE handler[r]
    BY DEF HandlersTyped, Goto
  <1>2. \A n : h # Notifying(n)
    BY DEF Notifying, Idle, Working, Deleting, Migrating, Registering, Linking, Transferring
  <1>3. /\ Serving = [r \in Servers |->
               IF \E n \in Notices : handler[r] = Notifying(n) THEN Idle ELSE handler[r]]
        /\ Serving' = [r \in Servers |->
               IF \E n \in Notices : handler'[r] = Notifying(n) THEN Idle ELSE handler'[r]]
    BY DEF Serving
  <1> HIDE DEF Notifying, Idle, Working
  <1> QED
    BY <1>1, <1>2, <1>3 DEF Seen!Goto, Undisturbed!Goto

\* What reads the tables reads the same ones.
LEMMA SameReads ==
    /\ Seen!Idle = Idle /\ Seen!NoRow = NoRow
    /\ \A d : Seen!PrefsOf(d) = PrefsOf(d)
    /\ \A p : Seen!LinksOf(p) = LinksOf(p)
    /\ \A p : Seen!Exists(p) = Exists(p)
    /\ \A p, d : Seen!Relinked(p, d) = Relinked(p, d)
    /\ Undisturbed!Idle = Idle /\ Undisturbed!NoRow = NoRow
    /\ \A d : Undisturbed!PrefsOf(d) = PrefsOf(d)
    /\ \A p : Undisturbed!LinksOf(p) = LinksOf(p)
    /\ \A p : Undisturbed!Exists(p) = Exists(p)
    /\ \A p, d : Undisturbed!Relinked(p, d) = Relinked(p, d)
  BY DEF Idle, NoRow, Unborn, Gone, PrefsOf, LinksOf, Exists, Relinked,
     Seen!Idle, Seen!NoRow, Seen!Unborn, Seen!Gone, Seen!PrefsOf, Seen!LinksOf,
     Seen!Exists, Seen!Relinked,
     Undisturbed!Idle, Undisturbed!NoRow, Undisturbed!Unborn, Undisturbed!Gone,
     Undisturbed!PrefsOf, Undisturbed!LinksOf, Undisturbed!Exists, Undisturbed!Relinked

LEMMA ServesSeen ==
    ASSUME HandlersTyped, TablesTyped, HandlersLead,
           NEW s \in Servers, ServePreferences(s)
    PROVE  Seen!ServePreferences(s) /\ Undisturbed!ServePreferences(s)
  <1>1. handler[s] \in {Idle} \cup Working /\ Serving[s] = handler[s]
    BY ServesAlone, ServingIs
  <1>2. handler' = handler => Serving' = Serving
    BY DEF Serving
  <1>3. ASSUME NEW h, Goto(s, h) PROVE Seen!Goto(s, h) /\ Undisturbed!Goto(s, h)
    <2>1. handler[s].step = "token" => pref[handler[s].pref] # NoRow
      BY DEF HandlersLead, Leads
    <2>2. handler' = handler \/ \E g \in {Idle} \cup Working : Goto(s, g)
      BY <1>1, <2>1, PreferencesMove
    <2>3. handler'[s] = h /\ handler'[s] \in {Idle} \cup Working
      BY <1>1, <1>3, <2>2 DEF Goto, HandlersTyped
    <2> QED
      BY <1>3, <2>3, GotoSeen
  <1>4. Reply(s) => Seen!Reply(s) /\ Undisturbed!Reply(s)
    BY <1>3, SameReads DEF Reply, Seen!Reply, Undisturbed!Reply
  <1>5. GetPreferences(s) => Seen!GetPreferences(s) /\ Undisturbed!GetPreferences(s)
    BY <1>1, <1>3, SameReads DEF GetPreferences, Seen!GetPreferences,
       Undisturbed!GetPreferences
  <1>6. CreatePreference(s) => Seen!CreatePreference(s) /\ Undisturbed!CreatePreference(s)
    BY <1>1, <1>4, SameReads DEF CreatePreference, Seen!CreatePreference,
       Undisturbed!CreatePreference
  <1>7. UpdateToken(s) => Seen!UpdateToken(s) /\ Undisturbed!UpdateToken(s)
    BY <1>1, <1>4 DEF UpdateToken, Seen!UpdateToken,
       Undisturbed!UpdateToken
  <1>8. UpdatePreferences(s) => Seen!UpdatePreferences(s) /\ Undisturbed!UpdatePreferences(s)
    BY <1>1, <1>2, SameReads DEF UpdatePreferences, Seen!UpdatePreferences,
       Undisturbed!UpdatePreferences
  <1>9. GetPersonaPreferences(s) => Seen!GetPersonaPreferences(s) /\ Undisturbed!GetPersonaPreferences(s)
    BY <1>1, <1>3, SameReads DEF GetPersonaPreferences, Seen!GetPersonaPreferences,
       Undisturbed!GetPersonaPreferences
  <1>10. CreateLink(s) => Seen!CreateLink(s) /\ Undisturbed!CreateLink(s)
    BY <1>1, <1>4, SameReads DEF CreateLink, Seen!CreateLink,
       Undisturbed!CreateLink
  <1>11. PreferenceFails(s) => Seen!PreferenceFails(s) /\ Undisturbed!PreferenceFails(s)
    BY <1>1, <1>4, SameReads DEF PreferenceFails, Seen!PreferenceFails,
       Undisturbed!PreferenceFails
  <1>12. UpdatePersonaPreferences(s) => Seen!UpdatePersonaPreferences(s) /\ Undisturbed!UpdatePersonaPreferences(s)
    BY <1>1, <1>2, SameReads DEF UpdatePersonaPreferences, Seen!UpdatePersonaPreferences,
       Undisturbed!UpdatePersonaPreferences
  <1>13. TransferPersona(s) => Seen!TransferPersona(s) /\ Undisturbed!TransferPersona(s)
    BY <1>1, <1>3, SameReads DEF TransferPersona, Seen!TransferPersona,
       Undisturbed!TransferPersona
  <1>14. CommitTransfer(s) => Seen!CommitTransfer(s) /\ Undisturbed!CommitTransfer(s)
    BY <1>1, <1>4, SameReads DEF CommitTransfer, Seen!CommitTransfer,
       Undisturbed!CommitTransfer
  <1>15. TransferFails(s) => Seen!TransferFails(s) /\ Undisturbed!TransferFails(s)
    BY <1>1, <1>4, SameReads DEF TransferFails, Seen!TransferFails,
       Undisturbed!TransferFails
  <1> QED
    BY <1>5, <1>6, <1>7, <1>8, <1>9, <1>10, <1>11, <1>12, <1>13, <1>14, <1>15
       DEF ServePreferences, Seen!ServePreferences, Undisturbed!ServePreferences

\* A step of a call is one that Accounts does not see, and the death of a
\* server one that it knows.
LEMMA UndisturbedStep ==
    ASSUME NoticesInv, [NoticesNext]_allVars
    PROVE  [Seen!Next]_(Seen!vars) /\ [Undisturbed!Next]_(Undisturbed!vars)
  <1> DEFINE Unseen == UNCHANGED Seen!vars /\ UNCHANGED Undisturbed!vars
             NextSeen == Seen!Next /\ Undisturbed!Next
  <1>0. HandlersTyped /\ TablesTyped /\ NoticesTypeOK /\ HandlersLead
    BY DEF NoticesInv, NoticesTypeOK, HandlersTyped
  <1>u. UNCHANGED tables /\ Serving' = Serving => Unseen
    BY DEF tables, Seen!vars, Undisturbed!vars
  <1>v. handler' = handler => Serving' = Serving
    BY DEF Serving
  <1>n. ASSUME NEW s \in Servers, NEW n \in Notices,
               \/ handler[s] = Idle /\ Goto(s, Notifying(n))
               \/ handler[s] = Notifying(n) /\ Reply(s)
        PROVE  Serving' = Serving
    <2>1. \A r \in Servers : r # s => handler'[r] = handler[r]
      BY <1>0, <1>n DEF Goto, Reply, HandlersTyped
    <2>2. \/ handler[s] = Idle /\ handler'[s] = Notifying(n)
          \/ handler[s] = Notifying(n) /\ handler'[s] = Idle
      BY <1>0, <1>n DEF Goto, Reply, HandlersTyped
    <2> DEFINE seen(h) == IF \E m \in Notices : h = Notifying(m) THEN Idle ELSE h
    <2>3. seen(handler[s]) = Idle /\ seen(handler'[s]) = Idle
      BY <2>2
    <2>4. /\ Serving = [r \in Servers |-> seen(handler[r])]
          /\ Serving' = [r \in Servers |-> seen(handler'[r])]
      BY DEF Serving
    <2> HIDE DEF seen
    <2> QED
      BY <2>1, <2>3, <2>4
  <1>1. ASSUME NEW s \in Servers, ServePreferences(s) PROVE NextSeen
    BY <1>0, <1>1, ServesSeen DEF Seen!Next, Undisturbed!Next
  <1>2. ASSUME NEW s \in Servers, CreateMessage(s) \/ SendNotification(s)
        PROVE  Unseen
    <2>1. PICK n \in Notices : Begun(n, s)
      BY <1>0, <1>2, CallersBegin
    <2> QED
      BY <1>n, <1>u, <1>v, <2>1 DEF Begun
  <1>3. ASSUME NEW s \in Servers, CrashServer(s) PROVE NextSeen \/ Unseen
    <2>1. Reply(s) /\ UNCHANGED tables
      BY <1>0, <1>3, CrashMoves
    <2>2. CASE \E n \in Notices : handler[s] = Notifying(n)
      BY <1>n, <1>u, <2>1, <2>2
    <2>3. CASE handler[s] = Idle
      <3>1. handler' = handler
        BY <1>0, <2>1, <2>3 DEF Reply, Goto, HandlersTyped
      <3> QED
        BY <1>u, <1>v, <2>1, <3>1
    <2>4. CASE handler[s] \in Working /\ handler[s] # Idle
      <3>1. Serving[s] # Seen!Idle /\ Serving[s] # Undisturbed!Idle
        BY <1>0, <2>4, ServingIs, SameReads
      <3>2. Seen!Reply(s) /\ Undisturbed!Reply(s)
        BY <1>0, <2>1, GotoSeen, SameReads DEF Reply, Seen!Reply, Undisturbed!Reply
      <3>3. Seen!Crash(s) /\ Undisturbed!Crash(s)
        BY <1>3, <2>1, <3>1, <3>2 DEF CrashServer, tables, Seen!Crash, Undisturbed!Crash
      <3> QED
        BY <3>3 DEF Seen!Next, Undisturbed!Next
    <2> QED
      BY <1>0, <2>2, <2>3, <2>4 DEF HandlersTyped
  <1>4. ASSUME NEW n \in Notices, Notify(n) PROVE Unseen
    <2>1. Moves(n) /\ notice[n].server \in Servers
      BY <1>0, <1>4, NotifyMoves DEF NoticesInv, Calls
    <2> QED
      BY <1>n, <1>u, <1>v, <2>1 DEF Moves, Answers
  <1>5. ASSUME NEW x \in pushes, Send(x) \/ SendFails(x) PROVE Unseen
    BY <1>5, <1>u, <1>v DEF Send, SendFails
  <1>6. UNCHANGED allVars => Unseen
    BY <1>u, <1>v DEF allVars, vars, tables
  <1> QED
    BY <1>1, <1>2, <1>3, <1>4, <1>5, <1>6 DEF NoticesNext

\* Beside goroutines that notify, and handlers that wait for one, wallets,
\* personas and preferences change as by the handlers of Accounts alone, on any
\* number of servers (chat.go:456, utils/notification.go:178-287).
THEOREM AccountsStepsOnly == NoticesSpec => AccountsUndisturbed
  <1>1. NoticesInv /\ [NoticesNext]_allVars => [Undisturbed!Next]_(Undisturbed!vars)
    BY UndisturbedStep
  <1>2. NoticesSpec => [][NoticesNext]_allVars
    BY PTL DEF NoticesSpec
  <1> QED
    BY <1>1, <1>2, NoticesInvAlways, PTL DEF AccountsUndisturbed

\* So, on one server, whatever Accounts keeps is kept beside notices too.
LEMMA SeenAlways ==
    ASSUME OneServer
    PROVE  NoticesSpec => []Seen!AccountsInv
  <1>1. NoticesInit => Seen!AccountsInv
    <2> SUFFICES ASSUME NoticesInit PROVE Seen!AccountsInv
      OBVIOUS
    <2>1. \A s \in Servers : Serving[s] = Idle
      BY DEF NoticesInit, Serving, Idle, Notifying
    <2>2. Serving \in [Servers -> {Idle}]
      BY <2>1 DEF Serving
    <2>3. Seen!TypeOK
      BY <2>2 DEF NoticesInit, Seen!TypeOK, Seen!Idle, Idle, Seen!Owned, Owned,
         Seen!NoRow, NoRow, Seen!PrefRows, Seen!LinkRows
    <2>4. Seen!TokensLand /\ Seen!AllAgree
      BY <2>1 DEF Seen!TokensLand, Seen!AllAgree, Seen!Agrees, Idle
    <2>5. Seen!OnePref /\ Seen!OneLink
      BY DEF NoticesInit, Seen!OnePref, Seen!OneLink, Seen!NoRow, NoRow
    <2> QED
      BY <2>3, <2>4, <2>5 DEF Seen!AccountsInv
  <1>2. Seen!OneServer
    BY DEF OneServer, Seen!OneServer
  <1>3. NoticesInv /\ [NoticesNext]_allVars /\ Seen!AccountsInv => Seen!AccountsInv'
    BY <1>2, UndisturbedStep, AccountsAssumption, Seen!AccountsInvStep
       DEF Seen!AccountsInvStep
  <1> QED
    BY <1>1, <1>3, NoticesInvAlways, PTL DEF NoticesSpec

\* A notice that looks for a persona's link finds the only one there is, and
\* reads the only token of its wallet: which row a query without an order
\* returns does not matter (utils/notification.go:178-190).
THEOREM OneRowToFind ==
    ASSUME OneServer
    PROVE  NoticesSpec => [](OneLinkPerPersona /\ OnePreferencePerWallet)
  <1>1. Seen!AccountsInv => OneLinkPerPersona /\ OnePreferencePerWallet
    <2>1. Seen!OnePref => OnePref
      BY SameReads DEF Seen!OnePref, OnePref
    <2>2. Seen!OneLink => OneLink
      BY SameReads DEF Seen!OneLink, OneLink
    <2> QED
      BY <2>1, <2>2, OnePrefCounts, OneLinkCounts DEF Seen!AccountsInv
  <1> QED
    BY <1>1, SeenAlways, PTL

\* A transfer takes the pushes of a persona with it under notices that run
\* meanwhile (wallet.go:455-477).
THEOREM LinkFollowsBeside ==
    ASSUME OneServer
    PROVE  NoticesSpec => LinkFollowsTransfer
  <1>1. NoticesInv /\ Seen!AccountsInv /\ [NoticesNext]_allVars => [Follows]_vars
    <2> SUFFICES ASSUME NoticesInv, Seen!AccountsInv, [NoticesNext]_allVars
                 PROVE  [Follows]_vars
      OBVIOUS
    <2>1. CASE Seen!Next
      <3>1. Seen!OneServer /\ [Seen!Next]_(Seen!vars)
        BY <2>1 DEF OneServer, Seen!OneServer
      <3>2. Seen!Follows
        BY <3>1, AccountsAssumption, Seen!FollowsStep DEF Seen!FollowsStep
      <3>3. ASSUME NEW s \in Servers, handler[s].step = "transfer"
            PROVE  Serving[s] = handler[s]
        <4>1. \A n : Notifying(n).step # "transfer"
          BY DEF Notifying
        <4> QED
          BY <3>3, <4>1, ServingIs DEF NoticesInv, NoticesTypeOK, HandlersTyped
      <3> QED
        BY <3>2, <3>3, SameReads DEF Seen!Follows, Follows
    <2>2. CASE UNCHANGED Seen!vars
      BY <2>2 DEF Seen!vars, Follows
    <2> QED
      BY <2>1, <2>2, UndisturbedStep
  <1>2. LinkFollowsTransfer <=> [][Follows]_vars
    BY PTL DEF LinkFollowsTransfer, Follows
  <1> QED
    BY <1>1, <1>2, NoticesInvAlways, SeenAlways, PTL DEF NoticesSpec

\* To a notice the requests beside it are atomic: between two of its reads the
\* tables change by whole requests, although it takes no part in the mutex
\* (utils/notification.go:178-246, notification.go:48-83, 202-287).
THEOREM RequestsAtomicBeside ==
    ASSUME OneServer
    PROVE  NoticesSpec => [][Atomic!Next]_(Atomic!tables)
  <1>1. NoticesInit => Seen!OwnersHaveWallets
    <2> SUFFICES ASSUME NoticesInit, NEW p \in Personas PROVE owner[p].did \in wallets
      BY DEF Seen!OwnersHaveWallets
    <2>1. owner[p] \in [did : Dids]
      BY DEF NoticesInit, Owned
    <2> QED
      BY <2>1 DEF NoticesInit
  <1>2. NoticesInv /\ [NoticesNext]_allVars /\ Seen!AccountsInv /\ Seen!OwnersHaveWallets
        => Seen!OwnersHaveWallets'
    BY UndisturbedStep, AccountsAssumption, Seen!OwnersStep
       DEF Seen!OwnersStep, Seen!AccountsInv
  <1>3. NoticesInv /\ [NoticesNext]_allVars /\ Seen!AccountsInv /\ Seen!OwnersHaveWallets
        => [Atomic!Next]_(Atomic!tables)
    <2>1. NoticesInv /\ [NoticesNext]_allVars /\ Seen!AccountsInv /\ Seen!OwnersHaveWallets
          => [Seen!Atomic!Next]_(Seen!Atomic!tables)
      BY UndisturbedStep, AccountsAssumption, Seen!AtomicStep DEF Seen!AtomicStep
    <2> QED
      BY <2>1
      DEF Atomic!Next, Seen!Atomic!Next, Atomic!tables, Seen!Atomic!tables,
         Atomic!CreateWallet, Seen!Atomic!CreateWallet, Atomic!PlacePersona,
         Seen!Atomic!PlacePersona, Atomic!AddRegion, Seen!Atomic!AddRegion,
         Atomic!DeletePersona, Seen!Atomic!DeletePersona,
         Atomic!DeleteWallet, Seen!Atomic!DeleteWallet,
         Atomic!MigrateWallet, Seen!Atomic!MigrateWallet,
         Atomic!RegisterToken, Seen!Atomic!RegisterToken,
         Atomic!UpdatePreferences, Seen!Atomic!UpdatePreferences,
         Atomic!LinkPersona, Seen!Atomic!LinkPersona, Atomic!UpdateSettings,
         Seen!Atomic!UpdateSettings, Atomic!TransferPersona,
         Seen!Atomic!TransferPersona, Atomic!Exists, Seen!Atomic!Exists,
         Atomic!PersonasOf, Seen!Atomic!PersonasOf, Atomic!PrefsOf,
         Seen!Atomic!PrefsOf, Atomic!LinksOf, Seen!Atomic!LinksOf,
         Atomic!Unborn, Seen!Atomic!Unborn, Atomic!Gone, Seen!Atomic!Gone,
         Atomic!NoRow, Seen!Atomic!NoRow
  <1> QED
    BY <1>1, <1>2, <1>3, NoticesInvAlways, SeenAlways, PTL DEF NoticesSpec

-----------------------------------------------------------------------------
(* What is left of PushWasWanted on several servers *)

\* A push of a transient type, whose preference is read in the step that starts
\* it, goes to the token registered then; of one that is kept, whose insertion
\* comes between, only the place was wanted (utils/notification.go:211-246).
THEOREM WantedAnywhere ==
    NoticesSpec =>
      [][\A x \in pushes' \ pushes :
            \E i \in Prefs : /\ <<x.to.persona, i>> \in led[x.notice]
                            /\ pref[i] # NoRow
                            /\ (notice[x.notice].stores \/ pref[i].token = x.token)]_allVars
  <1> DEFINE Meant ==
        \A x \in pushes' \ pushes :
            \E i \in Prefs : /\ <<x.to.persona, i>> \in led[x.notice]
                            /\ pref[i] # NoRow
                            /\ (notice[x.notice].stores \/ pref[i].token = x.token)
  <1>1. NoticesInv /\ [NoticesNext]_allVars => [Meant]_allVars
    <2> SUFFICES ASSUME NoticesInv, [NoticesNext]_allVars, NEW x \in pushes' \ pushes
                 PROVE  \E i \in Prefs :
                           /\ <<x.to.persona, i>> \in led[x.notice]
                           /\ pref[i] # NoRow
                           /\ (notice[x.notice].stores \/ pref[i].token = x.token)
      OBVIOUS
    <2> DEFINE n == x.notice
    <2>1. n \in Notices /\ Running(n)
      BY NewPush
    <2>2. PICK y \in notice[n].read, t \in Tokens :
             /\ x.to = y.to /\ x.token = t /\ y.link.on
             /\ ~ notice[n].stores => t = pref[y.link.pref].token
      BY NewPush
    <2>3. y.link.pref \in Prefs
      BY <2>1, CallTyped, FoundTyped DEF NoticesInv, Calls
    <2>4. pref[y.link.pref] # NoRow /\ <<y.to.persona, y.link.pref>> \in led[n]
      BY <2>1, <2>2 DEF NoticesInv, CallsCount, ReadsCount
    <2> QED
      BY <2>2, <2>3, <2>4
  <1> HIDE DEF Meant
  <1>2. NoticesSpec => [][Meant]_allVars
    BY <1>1, NoticesInvAlways, PTL DEF NoticesSpec
  <1> QED
    BY <1>2 DEF Meant

-----------------------------------------------------------------------------
(* Quiet hours *)

\* The digits of a time determine it.
LEMMA Digits ==
    ASSUME NEW m \in Minutes
    PROVE  LET h == m \div 60
               r == m % 60
           IN  /\ h \in 0 .. 23 /\ r \in 0 .. 59
               /\ h \div 10 \in 0 .. 2 /\ h % 10 \in 0 .. 9
               /\ r \div 10 \in 0 .. 5 /\ r % 10 \in 0 .. 9
               /\ m = 600 * (h \div 10) + 60 * (h % 10) + 10 * (r \div 10) + (r % 10)
  <1> DEFINE h == m \div 60
             r == m % 60
  <1>1. m \in Nat /\ m < 1440
    BY DEF Minutes, DayLength
  <1>2. h \in 0 .. 23 /\ r \in 0 .. 59 /\ m = 60 * h + r
    BY <1>1
  <1>3. h \div 10 \in 0 .. 2 /\ h % 10 \in 0 .. 9 /\ h = 10 * (h \div 10) + (h % 10)
    BY <1>2
  <1>4. r \div 10 \in 0 .. 5 /\ r % 10 \in 0 .. 9 /\ r = 10 * (r \div 10) + (r % 10)
    BY <1>2
  <1> QED
    BY <1>2, <1>3, <1>4

\* Strings of five bytes with the same one in the middle, compared.
LEMMA FiveBytes ==
    ASSUME NEW s, NEW t,
           Len(s) = 5, Len(t) = 5, s[3] = t[3],
           \A i \in 1 .. 5 : s[i] \in Nat /\ t[i] \in Nat
    PROVE  NotAfter(s, t) <=>
             \/ s[1] < t[1]
             \/ s[1] = t[1] /\ s[2] < t[2]
             \/ s[1] = t[1] /\ s[2] = t[2] /\ s[4] < t[4]
             \/ s[1] = t[1] /\ s[2] = t[2] /\ s[4] = t[4] /\ s[5] <= t[5]
  <1>1. \A i \in 1 .. 5 : s[i] \in Nat /\ t[i] \in Nat
    OBVIOUS
  <1>2. \A i : i \in 1 .. 5 <=> i = 1 \/ i = 2 \/ i = 3 \/ i = 4 \/ i = 5
    OBVIOUS
  <1>3. (\A i \in 1 .. 5 : s[i] = t[i])
        <=> s[1] = t[1] /\ s[2] = t[2] /\ s[4] = t[4] /\ s[5] = t[5]
    BY <1>2
  <1> DEFINE E(i) == s[i] < t[i] /\ \A j \in 1 .. i - 1 : s[j] = t[j]
  <1>4. E(1) <=> s[1] < t[1]
    OBVIOUS
  <1>5. E(2) <=> s[1] = t[1] /\ s[2] < t[2]
    BY \A j : j \in 1 .. 2 - 1 <=> j = 1
  <1>6. ~ E(3)
    BY <1>1
  <1>7. E(4) <=> s[1] = t[1] /\ s[2] = t[2] /\ s[4] < t[4]
    BY \A j : j \in 1 .. 4 - 1 <=> j = 1 \/ j = 2 \/ j = 3
  <1>8. E(5) <=> s[1] = t[1] /\ s[2] = t[2] /\ s[4] = t[4] /\ s[5] < t[5]
    BY \A j : j \in 1 .. 5 - 1 <=> j = 1 \/ j = 2 \/ j = 3 \/ j = 4
  <1>9. NotAfter(s, t) <=> (\A i \in 1 .. 5 : s[i] = t[i]) \/ \E i \in 1 .. 5 : E(i)
    BY DEF NotAfter
  <1>10. (\E i \in 1 .. 5 : E(i)) <=> E(1) \/ E(2) \/ E(3) \/ E(4) \/ E(5)
    <2> HIDE DEF E
    <2> QED
      BY <1>2
  <1> HIDE DEF E
  <1> QED
    BY <1>1, <1>3, <1>4, <1>5, <1>6, <1>7, <1>8, <1>9, <1>10

\* Two times compare as their strings do, because every field of the layout
\* "15:04" has its zeros (model/notification.gen.go:18).
THEOREM TimesCompareAsStrings ==
    ASSUME NEW a \in Minutes, NEW b \in Minutes
    PROVE  NotAfter(TimeString(a), TimeString(b)) <=> a <= b
  <1> DEFINE a1 == (a \div 60) \div 10
             a2 == (a \div 60) % 10
             a3 == (a % 60) \div 10
             a4 == (a % 60) % 10
             b1 == (b \div 60) \div 10
             b2 == (b \div 60) % 10
             b3 == (b % 60) \div 10
             b4 == (b % 60) % 10
  <1>1. /\ a1 \in 0 .. 2 /\ a2 \in 0 .. 9 /\ a3 \in 0 .. 5 /\ a4 \in 0 .. 9
        /\ b1 \in 0 .. 2 /\ b2 \in 0 .. 9 /\ b3 \in 0 .. 5 /\ b4 \in 0 .. 9
        /\ a = 600 * a1 + 60 * a2 + 10 * a3 + a4
        /\ b = 600 * b1 + 60 * b2 + 10 * b3 + b4
    BY Digits
  <1> DEFINE s == TimeString(a)
             t == TimeString(b)
  <1>2. /\ s = <<48 + a1, 48 + a2, 58, 48 + a3, 48 + a4>>
        /\ t = <<48 + b1, 48 + b2, 58, 48 + b3, 48 + b4>>
    BY DEF TimeString, Digit, Colon
  <1> HIDE DEF a1, a2, a3, a4, b1, b2, b3, b4, s, t
  <1>3. /\ Len(s) = 5
        /\ s[1] = 48 + a1 /\ s[2] = 48 + a2 /\ s[3] = 58
        /\ s[4] = 48 + a3 /\ s[5] = 48 + a4
        /\ Len(t) = 5
        /\ t[1] = 48 + b1 /\ t[2] = 48 + b2 /\ t[3] = 58
        /\ t[4] = 48 + b3 /\ t[5] = 48 + b4
    BY <1>1, <1>2
  <1>4. NotAfter(s, t) <=>
             \/ a1 < b1
             \/ a1 = b1 /\ a2 < b2
             \/ a1 = b1 /\ a2 = b2 /\ a3 < b3
             \/ a1 = b1 /\ a2 = b2 /\ a3 = b3 /\ a4 <= b4
    <2>1. NotAfter(s, t) <=>
             \/ s[1] < t[1]
             \/ s[1] = t[1] /\ s[2] < t[2]
             \/ s[1] = t[1] /\ s[2] = t[2] /\ s[4] < t[4]
             \/ s[1] = t[1] /\ s[2] = t[2] /\ s[4] = t[4] /\ s[5] <= t[5]
      <3>1. \A i \in 1 .. 5 : i = 1 \/ i = 2 \/ i = 3 \/ i = 4 \/ i = 5
        OBVIOUS
      <3>2. \A i \in 1 .. 5 : s[i] \in Nat /\ t[i] \in Nat
        BY <1>1, <1>3, <3>1
      <3> QED
        BY <1>3, <3>2, FiveBytes
    <2> QED
      BY <1>1, <1>3, <2>1
  <1>5. a <= b <=>
             \/ a1 < b1
             \/ a1 = b1 /\ a2 < b2
             \/ a1 = b1 /\ a2 = b2 /\ a3 < b3
             \/ a1 = b1 /\ a2 = b2 /\ a3 = b3 /\ a4 <= b4
    BY <1>1
  <1> QED
    BY <1>4, <1>5 DEF s, t

\* The remainder of a difference of two times.
LEMMA ElapsedIs ==
    ASSUME NEW a \in Minutes, NEW b \in Minutes
    PROVE  Elapsed(a, b) = IF a <= b THEN b - a ELSE b - a + 1440
  <1>1. a \in Nat /\ a < 1440 /\ b \in Nat /\ b < 1440
    BY DEF Minutes, DayLength
  <1> QED
    BY <1>1 DEF Elapsed, DayLength

\* Quiet hours are the interval of the clock from their start to their end, also
\* when it contains midnight (utils/notification.go:34-49).
THEOREM QuietAroundTheClock ==
    ASSUME NEW start \in Minutes, NEW end \in Minutes, NEW now \in Minutes
    PROVE  AroundTheClock(start, end, now)
  <1> DEFINE quiet == [enabled |-> TRUE, start |-> TimeString(start),
                       end |-> TimeString(end), exceptions |-> {}]
  <1>1. IsWithinQuietHours(quiet, now) <=>
            IF start <= end THEN start <= now /\ now <= end
            ELSE start <= now \/ now <= end
    BY TimesCompareAsStrings DEF IsWithinQuietHours
  <1>2. start \in Nat /\ start < 1440 /\ end \in Nat /\ end < 1440
        /\ now \in Nat /\ now < 1440
    BY DEF Minutes, DayLength
  <1>3. Elapsed(start, now) <= Elapsed(start, end) <=>
            IF start <= end THEN start <= now /\ now <= end
            ELSE start <= now \/ now <= end
    BY <1>2, ElapsedIs
  <1> QED
    BY <1>1, <1>3 DEF AroundTheClock

\* In the quiet hours of a preference, whatever time they start and end, neither
\* its wallet nor its persona is notified of anything but the exceptions
\* (utils/notification.go:97-108, 197-209).
THEOREM OnlyExceptionsDisturb ==
    ASSUME NEW p, NEW type, NEW now \in Minutes,
           NEW start \in Minutes, NEW end \in Minutes,
           p.quiet.enabled,
           p.quiet.start = TimeString(start), p.quiet.end = TimeString(end),
           Elapsed(start, now) <= Elapsed(start, end),
           type \notin p.quiet.exceptions
    PROVE  ~ WalletWants(p, type, now) /\ ~ PersonaWants(p, type, now)
  <1> DEFINE quiet == [enabled |-> TRUE, start |-> TimeString(start),
                       end |-> TimeString(end), exceptions |-> {}]
  <1>1. IsWithinQuietHours(quiet, now)
    BY QuietAroundTheClock DEF AroundTheClock
  <1>2. IsWithinQuietHours(p.quiet, now)
    BY <1>1 DEF IsWithinQuietHours
  <1> QED
    BY <1>2 DEF Disturbs, WalletWants, PersonaWants
================================================================================
