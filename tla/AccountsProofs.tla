------------------------------ MODULE AccountsProofs ------------------------------
(***************************************************************************)
(* Accounts for any wallets, personas and preferences.  Types and the      *)
(* wallets of personas hold on any number of servers, by the foreign keys; *)
(* the rest hold on one server, where what a handler has read is still so  *)
(* when it writes: Agrees.                                                 *)
(***************************************************************************)
EXTENDS Accounts, FiniteSetTheorems, TLAPS

\* A row whose token is to be updated has been found, and none is ever deleted.
TokensLand ==
    \A s \in Servers : handler[s].step = "token" => pref[handler[s].pref] # NoRow

\* The types of the tables.
TablesTyped ==
    /\ wallets \subseteq Dids
    /\ owner \in [Personas -> Owned \cup {Unborn, Gone}]
    /\ regional \subseteq Personas
    /\ pref \in [Prefs -> PrefRows \cup {NoRow}]
    /\ link \in [Links -> LinkRows \cup {NoRow}]

LEMMA TypeParts ==
    TypeOK <=> TablesTyped /\ handler \in [Servers -> {Idle} \cup Working]
  BY DEF TypeOK, TablesTyped

\* What a handler is, told by its step.
LEMMA WorkTyped ==
    ASSUME NEW s, handler[s] \in {Idle} \cup Working
    PROVE  /\ handler[s].step = "delete" => handler[s] \in Deleting
           /\ handler[s].step \in {"wallet", "persona"} => handler[s] \in Migrating
           /\ handler[s].step = "create" =>
                 handler[s] \in [step : {"create"}, row : PrefRows]
           /\ handler[s].step = "token" =>
                 handler[s] \in [step : {"token"}, pref : Prefs, token : Tokens]
           /\ handler[s].step = "link" => handler[s] \in Linking
           /\ handler[s].step = "transfer" => handler[s] \in Transferring
  BY DEF Idle, Working, Deleting, Migrating, Registering, Linking, Transferring

LEMMA HandlerTyped ==
    ASSUME TypeOK, NEW s \in Servers
    PROVE  /\ handler[s].step = "delete" => handler[s] \in Deleting
           /\ handler[s].step \in {"wallet", "persona"} => handler[s] \in Migrating
           /\ handler[s].step = "create" =>
                 handler[s] \in [step : {"create"}, row : PrefRows]
           /\ handler[s].step = "token" =>
                 handler[s] \in [step : {"token"}, pref : Prefs, token : Tokens]
           /\ handler[s].step = "link" => handler[s] \in Linking
           /\ handler[s].step = "transfer" => handler[s] \in Transferring
  BY WorkTyped DEF TypeOK

LEMMA GotoTyped ==
    ASSUME TypeOK, NEW s \in Servers, NEW h, Goto(s, h), h \in {Idle} \cup Working
    PROVE  handler' \in [Servers -> {Idle} \cup Working]
  BY DEF TypeOK, Goto

LEMMA ReplyTyped ==
    ASSUME TypeOK, NEW s \in Servers, Reply(s)
    PROVE  handler' \in [Servers -> {Idle} \cup Working]
  BY GotoTyped DEF Reply

-----------------------------------------------------------------------------
LEMMA OwnersTyped ==
    ASSUME TypeOK, NEW s \in Servers, ServeOwners(s)
    PROVE  TypeOK'
  <1>1. CASE CreateWallet(s) \/ CreatePersona(s) \/ UpdatePersona(s) \/ DeletePersona(s)
    <2>1. CASE CreateWallet(s)
      BY <2>1 DEF CreateWallet, TypeOK
    <2>2. CASE CreatePersona(s) \/ UpdatePersona(s)
      <3>1. PICK p \in Personas, d \in wallets : owner' = [owner EXCEPT ![p] = [did |-> d]]
        BY <2>2 DEF CreatePersona, UpdatePersona
      <3>2. [did |-> d] \in Owned
        BY DEF TypeOK, Owned
      <3>3. owner' \in [Personas -> Owned \cup {Unborn, Gone}]
        BY <3>1, <3>2 DEF TypeOK
      <3> QED
        BY <2>2, <3>3 DEF CreatePersona, UpdatePersona, TypeOK
    <2>3. CASE DeletePersona(s)
      BY <2>3 DEF DeletePersona, TypeOK
    <2> QED
      BY <1>1, <2>1, <2>2, <2>3
  <1>2. CASE DeleteWallet(s)
    <2>1. PICK d \in wallets : Goto(s, [step |-> "delete", did |-> d])
      BY <1>2 DEF DeleteWallet
    <2>2. [step |-> "delete", did |-> d] \in Working
      BY DEF TypeOK, Working, Deleting
    <2>3. handler' \in [Servers -> {Idle} \cup Working]
      BY <2>1, <2>2, GotoTyped
    <2> QED
      BY <1>2, <2>3 DEF DeleteWallet, TypeOK
  <1>3. CASE RemoveWallet(s)
    BY <1>3, ReplyTyped DEF RemoveWallet, TypeOK
  <1>4. CASE RemoveWalletFails(s) \/ MigrationFails(s)
    BY <1>4, ReplyTyped DEF RemoveWalletFails, MigrationFails, TypeOK
  <1>5. CASE MigrateWallet(s)
    <2>1. PICK p \in Personas, d \in Dids :
              /\ Exists(p)
              /\ Goto(s, [step |-> "wallet", persona |-> p,
                          old |-> owner[p].did, new |-> d])
      BY <1>5 DEF MigrateWallet
    <2>2. owner[p].did \in Dids
      BY <2>1 DEF Exists, TypeOK, Owned
    <2>3. [step |-> "wallet", persona |-> p, old |-> owner[p].did, new |-> d] \in Working
      BY <2>2 DEF Working, Migrating
    <2>4. handler' \in [Servers -> {Idle} \cup Working]
      BY <2>1, <2>3, GotoTyped
    <2> QED
      BY <1>5, <2>4 DEF MigrateWallet, TypeOK
  <1>6. CASE MoveWallet(s)
    <2>1. handler[s] \in Migrating
      BY <1>6, HandlerTyped DEF MoveWallet
    <2>2. [handler[s] EXCEPT !.step = "persona"] \in Working
      BY <2>1 DEF Migrating, Working
    <2>3. handler' \in [Servers -> {Idle} \cup Working]
      BY <1>6, <2>2, GotoTyped DEF MoveWallet
    <2>4. handler[s].old \in Dids /\ handler[s].new \in Dids
      BY <2>1 DEF Migrating
    <2> QED
      BY <1>6, <2>3, <2>4 DEF MoveWallet, TypeOK, Owned
  <1>7. CASE MovePersona(s)
    <2>1. handler[s] \in Migrating
      BY <1>7, HandlerTyped DEF MovePersona
    <2>2. handler[s].new \in Dids
      BY <2>1 DEF Migrating
    <2> QED
      BY <1>7, <2>2, ReplyTyped DEF MovePersona, TypeOK, Owned
  <1> QED
    BY <1>1, <1>2, <1>3, <1>4, <1>5, <1>6, <1>7 DEF ServeOwners

\* A preference handler, whatever those of other servers do.
LEMMA PreferencesMove ==
    ASSUME TablesTyped, NEW s \in Servers, ServePreferences(s),
           handler[s] \in {Idle} \cup Working,
           handler[s].step = "token" => pref[handler[s].pref] # NoRow
    PROVE  /\ TablesTyped'
           /\ handler' = handler \/ \E h \in {Idle} \cup Working : Goto(s, h)
  <1> DEFINE Moves == \E h \in {Idle} \cup Working : Goto(s, h)
  <1>0. Reply(s) => Moves
    BY DEF Reply
  <1>1. CASE GetPreferences(s)
    <2>1. PICK h \in Registering : Goto(s, h)
      <3>1. PICK d \in Dids, t \in Tokens :
                \/ Goto(s, [step |-> "create", row |-> [did |-> d, token |-> t]])
                \/ \E i \in PrefsOf(d) :
                      Goto(s, [step |-> "token", pref |-> i, token |-> t])
        BY <1>1 DEF GetPreferences
      <3>2. [step |-> "create", row |-> [did |-> d, token |-> t]] \in Registering
        BY DEF Registering, PrefRows
      <3>3. \A i \in PrefsOf(d) :
                [step |-> "token", pref |-> i, token |-> t] \in Registering
        BY DEF Registering, PrefsOf
      <3> QED
        BY <3>1, <3>2, <3>3
    <2>2. Moves
      BY <2>1 DEF Working
    <2> QED
      BY <1>1, <2>2 DEF GetPreferences, TablesTyped
  <1>2. CASE CreatePreference(s)
    <2>1. handler[s] \in [step : {"create"}, row : PrefRows]
      BY <1>2, WorkTyped DEF CreatePreference
    <2>2. handler[s].row \in PrefRows
      BY <2>1
    <2> QED
      BY <1>2, <2>2, <1>0 DEF CreatePreference, TablesTyped
  <1>3. CASE UpdateToken(s)
    <2>1. handler[s] \in [step : {"token"}, pref : Prefs, token : Tokens]
      BY <1>3, WorkTyped DEF UpdateToken
    <2>2. pref' \in [Prefs -> PrefRows \cup {NoRow}]
      <3> DEFINE i == handler[s].pref
                 t == handler[s].token
      <3>1. i \in Prefs /\ t \in Tokens
        BY <2>1
      <3>2. pref' = [pref EXCEPT ![i].token = t]
        BY <1>3 DEF UpdateToken
      <3>3. pref[i] # NoRow
        BY <1>3 DEF UpdateToken
      <3>4. [pref[i] EXCEPT !.token = t] \in PrefRows
        BY <3>1, <3>3 DEF TablesTyped, PrefRows
      <3> HIDE DEF i, t
      <3> QED
        BY <3>1, <3>2, <3>4 DEF TablesTyped
    <2> QED
      BY <1>3, <2>2, <1>0 DEF UpdateToken, TablesTyped
  <1>4. CASE UpdatePreferences(s)
    <2>1. PICK d \in Dids, t \in Tokens \cup {NoToken} :
              \E i \in PrefsOf(d) : pref' = [pref EXCEPT ![i].token = t]
      BY <1>4 DEF UpdatePreferences
    <2> PICK i \in PrefsOf(d) : pref' = [pref EXCEPT ![i].token = t]
      BY <2>1
    <2>2. [pref[i] EXCEPT !.token = t] \in PrefRows
      BY DEF PrefsOf, TablesTyped, PrefRows
    <2>3. pref' \in [Prefs -> PrefRows \cup {NoRow}]
      BY <2>2 DEF TablesTyped
    <2> QED
      BY <1>4, <2>3 DEF UpdatePreferences, TablesTyped
  <1>5. CASE GetPersonaPreferences(s)
    <2>1. PICK p \in Personas, i \in Prefs :
              Goto(s, [step |-> "link",
                       row |-> [persona |-> p, pref |-> i, on |-> TRUE]])
      BY <1>5 DEF GetPersonaPreferences, PrefsOf
    <2>2. [step |-> "link", row |-> [persona |-> p, pref |-> i, on |-> TRUE]] \in Linking
      BY DEF PrefsOf, Linking, LinkRows
    <2>3. Moves
      BY <2>1, <2>2 DEF Working
    <2> QED
      BY <1>5, <2>3 DEF GetPersonaPreferences, TablesTyped
  <1>6. CASE CreateLink(s)
    <2>1. handler[s].row \in LinkRows
      BY <1>6, WorkTyped DEF CreateLink, Linking
    <2> QED
      BY <1>6, <2>1, <1>0 DEF CreateLink, TablesTyped
  <1>7. CASE PreferenceFails(s) \/ TransferFails(s)
    BY <1>7, <1>0 DEF PreferenceFails, TransferFails, TablesTyped
  <1>8. CASE UpdatePersonaPreferences(s)
    <2>1. PICK l \in Links, on \in BOOLEAN :
              link[l] # NoRow /\ link' = [link EXCEPT ![l].on = on]
      BY <1>8 DEF UpdatePersonaPreferences
    <2>2. [link[l] EXCEPT !.on = on] \in LinkRows
      BY <2>1 DEF TablesTyped, LinkRows
    <2>3. link' \in [Links -> LinkRows \cup {NoRow}]
      BY <2>1, <2>2 DEF TablesTyped
    <2> QED
      BY <1>8, <2>3 DEF UpdatePersonaPreferences, TablesTyped
  <1>9. CASE TransferPersona(s)
    <2>1. PICK p \in Personas, target \in wallets :
              \E copies \in IF Relinked(p, target) = {} THEN {{}}
                            ELSE {{x} : x \in Relinked(p, target)} :
                 Goto(s, [step |-> "transfer", persona |-> p,
                          target |-> target, copies |-> copies])
      BY <1>9 DEF TransferPersona
    <2>2. PICK copies :
              /\ copies = {} \/ \E x \in Relinked(p, target) : copies = {x}
              /\ Goto(s, [step |-> "transfer", persona |-> p,
                          target |-> target, copies |-> copies])
      BY <2>1
    <2>3. ASSUME NEW x \in Relinked(p, target)
          PROVE  \E l \in Links, y \in LinkRows : x = [id |-> l, row |-> y]
      <3>1. PICK l \in LinksOf(p), i \in PrefsOf(target) :
                x = [id |-> l, row |-> [link[l] EXCEPT !.pref = i]]
        BY DEF Relinked
      <3>2. [link[l] EXCEPT !.pref = i] \in LinkRows
        BY DEF LinksOf, PrefsOf, TablesTyped, LinkRows
      <3> QED
        BY <3>1, <3>2 DEF LinksOf
    <2>4. copies \in {{}} \cup {{[id |-> l, row |-> y]} : l \in Links, y \in LinkRows}
      BY <2>2, <2>3
    <2>5. target \in Dids
      BY DEF TablesTyped
    <2>6. [step |-> "transfer", persona |-> p, target |-> target, copies |-> copies]
             \in Transferring
      BY <2>4, <2>5 DEF Transferring
    <2>7. Moves
      BY <2>2, <2>6 DEF Working
    <2> QED
      BY <1>9, <2>7 DEF TransferPersona, TablesTyped
  <1>10. CASE CommitTransfer(s)
    <2> DEFINE h == handler[s]
    <2>1. h \in Transferring
      BY <1>10, WorkTyped DEF CommitTransfer
    <2>2. h.target \in Dids /\ h.persona \in Personas
      BY <2>1 DEF Transferring
    <2>3. owner' \in [Personas -> Owned \cup {Unborn, Gone}]
      BY <1>10, <2>2 DEF CommitTransfer, TablesTyped, Owned
    <2>4. \A x \in h.copies : x.row \in LinkRows
      BY <2>1 DEF Transferring
    <2>5. link' \in [Links -> LinkRows \cup {NoRow}]
      <3>1. link' = [l \in Links |->
                        IF \E x \in h.copies : x.id = l
                        THEN (CHOOSE x \in h.copies : x.id = l).row ELSE link[l]]
        BY <1>10 DEF CommitTransfer
      <3>2. ASSUME NEW l \in Links PROVE link'[l] \in LinkRows \cup {NoRow}
        <4>1. CASE \E x \in h.copies : x.id = l
          <5>1. (CHOOSE x \in h.copies : x.id = l) \in h.copies
            BY <4>1
          <5> QED
            BY <2>4, <3>1, <4>1, <5>1
        <4>2. CASE ~ \E x \in h.copies : x.id = l
          BY <3>1, <4>2 DEF TablesTyped
        <4> QED
          BY <4>1, <4>2
      <3> QED
        BY <3>1, <3>2
    <2> QED
      BY <1>10, <2>3, <2>5, <1>0 DEF CommitTransfer, TablesTyped
  <1> QED
    BY <1>1, <1>2, <1>3, <1>4, <1>5, <1>6, <1>7, <1>8, <1>9, <1>10 DEF ServePreferences

LEMMA PreferencesTyped ==
    ASSUME TypeOK, TokensLand, NEW s \in Servers, ServePreferences(s)
    PROVE  TypeOK'
  <1>1. /\ TablesTyped'
        /\ handler' = handler \/ \E h \in {Idle} \cup Working : Goto(s, h)
    BY PreferencesMove, TypeParts DEF TypeOK, TokensLand
  <1>2. handler' \in [Servers -> {Idle} \cup Working]
    BY <1>1, GotoTyped DEF TypeOK
  <1> QED
    BY <1>1, <1>2 DEF TypeOK, TablesTyped

\* No row of a preference is ever deleted.
LEMMA PrefsRemain ==
    ASSUME TablesTyped, NEW s \in Servers, ServePreferences(s),
           handler[s] \in {Idle} \cup Working, NEW i \in Prefs, pref[i] # NoRow
    PROVE  pref'[i] # NoRow
  <1>1. pref[i] \in PrefRows
    BY DEF TablesTyped
  <1>2. \A x \in PrefRows : x # NoRow
    BY DEF PrefRows, NoRow
  <1>3. CASE pref' = pref
    BY <1>3
  <1>4. CASE CreatePreference(s) \/ UpdateToken(s) \/ UpdatePreferences(s)
    <2>1. CASE CreatePreference(s)
      BY <2>1 DEF CreatePreference, TablesTyped
    <2>2. CASE UpdateToken(s) \/ UpdatePreferences(s)
      <3>1. PICK j, t : j \in Prefs /\ pref' = [pref EXCEPT ![j].token = t]
        <4>1. CASE UpdateToken(s)
          BY <4>1, WorkTyped DEF UpdateToken
        <4>2. CASE UpdatePreferences(s)
          BY <4>2 DEF UpdatePreferences, PrefsOf
        <4> QED
          BY <2>2, <4>1, <4>2
      <3>2. CASE i # j
        BY <3>1, <3>2 DEF TablesTyped
      <3>3. CASE i = j
        <4>1. pref'[i] = [pref[i] EXCEPT !.token = t]
          BY <3>1, <3>3 DEF TablesTyped
        <4>2. pref'[i].did = pref[i].did
          BY <1>1, <4>1 DEF PrefRows
        <4>3. DOMAIN pref'[i] = {"did", "token"}
          BY <1>1, <4>1 DEF PrefRows
        <4>4. DOMAIN NoRow = {"row"}
          BY DEF NoRow
        <4> QED
          BY <4>3, <4>4
      <3> QED
        BY <3>2, <3>3
    <2> QED
      BY <1>4, <2>1, <2>2
  <1> QED
    BY <1>3, <1>4 DEF ServePreferences, GetPreferences, GetPersonaPreferences,
       CreateLink, PreferenceFails, UpdatePersonaPreferences, TransferPersona,
       CommitTransfer, TransferFails

LEMMA RowsRemain ==
    ASSUME TypeOK, [Next]_vars, NEW i \in Prefs, pref[i] # NoRow
    PROVE  pref'[i] # NoRow
  <1>1. ASSUME NEW s \in Servers, ServePreferences(s) PROVE pref'[i] # NoRow
    BY <1>1, PrefsRemain, TypeParts DEF TypeOK
  <1>2. CASE pref' = pref
    BY <1>2
  <1> QED
    BY <1>1, <1>2 DEF Next, vars, ServeOwners, Crash, AddRegion, CreateWallet,
       CreatePersona, UpdatePersona, DeletePersona, DeleteWallet, RemoveWallet,
       RemoveWalletFails, MigrateWallet, MoveWallet, MovePersona, MigrationFails

LEMMA TokensLandStep ==
    ASSUME TypeOK, TokensLand, [Next]_vars
    PROVE  TokensLand'
  <1> SUFFICES ASSUME NEW s \in Servers, handler'[s].step = "token"
               PROVE  pref'[handler'[s].pref] # NoRow
    BY DEF TokensLand
  <1>1. CASE handler'[s] = handler[s]
    <2>1. handler[s].pref \in Prefs
      BY <1>1, HandlerTyped
    <2> QED
      BY <1>1, <2>1, RowsRemain DEF TokensLand
  <1>2. CASE GetPreferences(s)
    <2>1. PICK i, t : /\ i \in Prefs /\ pref[i] # NoRow
                      /\ Goto(s, [step |-> "token", pref |-> i, token |-> t])
      BY <1>2 DEF GetPreferences, PrefsOf, Goto, TypeOK
    <2>2. handler'[s].pref = i
      BY <2>1 DEF Goto, TypeOK
    <2> QED
      BY <1>2, <2>1, <2>2 DEF GetPreferences
  <1>3. ASSUME NEW h, handler'[s] = h, h.step \in {"idle", "delete", "wallet",
                "persona", "link", "transfer"}
        PROVE  FALSE
    BY <1>3
  <1>4. ASSUME NEW r \in Servers, NEW h, Goto(r, h), r # s
        PROVE  handler'[s] = handler[s]
    BY <1>4 DEF Goto, TypeOK
  <1>5. ASSUME NEW h, Goto(s, h) PROVE handler'[s] = h
    BY <1>5 DEF Goto, TypeOK
  <1>6. ASSUME NEW r \in Servers, Reply(r), r = s PROVE FALSE
    BY <1>5, <1>6 DEF Reply, Idle
  <1>7. ASSUME NEW r \in Servers, Reply(r)
        PROVE  handler'[s] = handler[s]
    BY <1>4, <1>6, <1>7 DEF Reply
  <1>8. ASSUME NEW r \in Servers, ServeOwners(r)
        PROVE  handler'[s] = handler[s]
    <2>1. CASE CreateWallet(r) \/ CreatePersona(r) \/ UpdatePersona(r) \/ DeletePersona(r)
      BY <2>1 DEF CreateWallet, CreatePersona, UpdatePersona, DeletePersona
    <2>2. CASE DeleteWallet(r)
      <3>1. PICK d \in wallets : Goto(r, [step |-> "delete", did |-> d])
        BY <2>2 DEF DeleteWallet
      <3> QED
        BY <3>1, <1>4, <1>5
    <2>3. CASE MigrateWallet(r)
      <3>1. PICK p, d, e : Goto(r, [step |-> "wallet", persona |-> p, old |-> e, new |-> d])
        BY <2>3 DEF MigrateWallet
      <3> QED
        BY <3>1, <1>4, <1>5
    <2>4. CASE MoveWallet(r)
      <3>1. handler[r] \in Migrating
        BY <2>4, HandlerTyped DEF MoveWallet
      <3>2. Goto(r, [handler[r] EXCEPT !.step = "persona"])
        BY <2>4 DEF MoveWallet
      <3>3. [handler[r] EXCEPT !.step = "persona"].step = "persona"
        BY <3>1 DEF Migrating
      <3> QED
        BY <3>2, <3>3, <1>4, <1>5
    <2>5. CASE RemoveWallet(r) \/ RemoveWalletFails(r) \/ MovePersona(r) \/ MigrationFails(r)
      BY <2>5, <1>7 DEF RemoveWallet, RemoveWalletFails, MovePersona, MigrationFails
    <2> QED
      BY <1>8, <2>1, <2>2, <2>3, <2>4, <2>5 DEF ServeOwners
  <1>9. ASSUME NEW r \in Servers, ServePreferences(r)
        PROVE  handler'[s] = handler[s] \/ GetPreferences(s)
    <2>1. CASE UpdatePreferences(r) \/ UpdatePersonaPreferences(r)
      BY <2>1 DEF UpdatePreferences, UpdatePersonaPreferences
    <2>2. CASE CreatePreference(r) \/ UpdateToken(r) \/ CreateLink(r) \/ PreferenceFails(r)
                  \/ CommitTransfer(r) \/ TransferFails(r)
      BY <2>2, <1>7 DEF CreatePreference, UpdateToken, CreateLink, PreferenceFails,
         CommitTransfer, TransferFails
    <2>3. CASE GetPersonaPreferences(r)
      <3>1. PICK x : Goto(r, [step |-> "link", row |-> x])
        BY <2>3 DEF GetPersonaPreferences
      <3> QED
        BY <3>1, <1>4, <1>5
    <2>4. CASE TransferPersona(r)
      <3>1. PICK p, d, c : Goto(r, [step |-> "transfer", persona |-> p, target |-> d,
                                    copies |-> c])
        BY <2>4 DEF TransferPersona
      <3> QED
        BY <3>1, <1>4, <1>5
    <2>5. CASE GetPreferences(r) /\ r # s
      <3>1. PICK h : Goto(r, h)
        BY <2>5 DEF GetPreferences
      <3> QED
        BY <3>1, <2>5, <1>4
    <2> QED
      BY <1>9, <2>1, <2>2, <2>3, <2>4, <2>5 DEF ServePreferences
  <1>10. CASE AddRegion \/ UNCHANGED vars
    BY <1>1, <1>10 DEF AddRegion, vars
  <1>11. ASSUME NEW r \in Servers, Crash(r) PROVE handler'[s] = handler[s]
    BY <1>7, <1>11 DEF Crash
  <1> QED
    BY <1>1, <1>2, <1>8, <1>9, <1>10, <1>11 DEF Next

LEMMA TypeStep ==
    ASSUME TypeOK, TokensLand, [Next]_vars
    PROVE  TypeOK'
  <1>1. CASE UNCHANGED vars
    BY <1>1 DEF TypeOK, vars
  <1>2. ASSUME NEW s \in Servers, Crash(s) PROVE TypeOK'
    BY <1>2, ReplyTyped DEF Crash, TypeOK
  <1>3. CASE AddRegion
    BY <1>3 DEF AddRegion, TypeOK
  <1> QED
    BY <1>1, <1>2, <1>3, OwnersTyped, PreferencesTyped DEF Next

\* The rows and what the handlers of wallet.go, persona.go and notification.go
\* keep between their statements have their types, on any number of servers.
THEOREM TypeCorrect == Spec => []TypeOK
  <1>1. Init => TypeOK /\ TokensLand
    BY DEF Init, TypeOK, TokensLand, Idle
  <1>2. TypeOK /\ TokensLand /\ [Next]_vars => TypeOK' /\ TokensLand'
    BY TypeStep, TokensLandStep
  <1> QED
    BY <1>1, <1>2, PTL DEF Spec

-----------------------------------------------------------------------------
(* The wallets of personas, on any number of servers *)

LEMMA OwnersStep == TypeOK /\ OwnersHaveWallets /\ [Next]_vars => OwnersHaveWallets'
  <1> SUFFICES ASSUME TypeOK, OwnersHaveWallets, [Next]_vars,
                      NEW p \in Personas, Exists(p)'
               PROVE  owner'[p].did \in wallets'
    BY DEF OwnersHaveWallets
  <1>1. CASE UNCHANGED owner /\ wallets \subseteq wallets'
    BY <1>1 DEF OwnersHaveWallets, Exists
  <1>2. ASSUME NEW q \in Personas, NEW x, owner' = [owner EXCEPT ![q] = x],
               x = Gone \/ \E d \in wallets : x = [did |-> d],
               wallets' = wallets
        PROVE  owner'[p].did \in wallets'
    <2>1. CASE p # q
      BY <1>2, <2>1 DEF OwnersHaveWallets, Exists, TypeOK
    <2>2. CASE p = q
      <3>1. owner'[p] = x
        BY <1>2, <2>2 DEF TypeOK
      <3> QED
        BY <1>2, <3>1 DEF Exists
    <2> QED
      BY <2>1, <2>2
  <1>3. ASSUME NEW s \in Servers, ServeOwners(s)
        PROVE  owner'[p].did \in wallets'
    <2>1. CASE CreateWallet(s)
      BY <2>1, <1>1 DEF CreateWallet
    <2>2. CASE CreatePersona(s) \/ UpdatePersona(s)
      <3>1. PICK q \in Personas, d \in wallets : owner' = [owner EXCEPT ![q] = [did |-> d]]
        BY <2>2 DEF CreatePersona, UpdatePersona
      <3>2. wallets' = wallets
        BY <2>2 DEF CreatePersona, UpdatePersona
      <3> QED
        BY <3>1, <3>2, <1>2
    <2>3. CASE DeletePersona(s)
      BY <2>3, <1>2 DEF DeletePersona
    <2>4. CASE RemoveWallet(s)
      <3>1. p \notin PersonasOf(handler[s].did)
        BY <2>4 DEF RemoveWallet, Exists
      <3>2. owner'[p] = owner[p]
        BY <2>4, <3>1 DEF RemoveWallet
      <3>3. Exists(p) /\ owner[p].did # handler[s].did
        BY <3>1, <3>2 DEF PersonasOf, Exists
      <3> QED
        BY <2>4, <3>2, <3>3 DEF RemoveWallet, OwnersHaveWallets
    <2>5. CASE MoveWallet(s)
      <3> DEFINE h == handler[s]
      <3>1. CASE p \in PersonasOf(h.old)
        <4>1. owner'[p] = [did |-> h.new]
          BY <2>5, <3>1 DEF MoveWallet
        <4>2. h.old \in wallets
          BY <3>1 DEF PersonasOf, OwnersHaveWallets
        <4> QED
          BY <2>5, <4>1, <4>2 DEF MoveWallet
      <3>2. CASE p \notin PersonasOf(h.old)
        <4>1. owner'[p] = owner[p]
          BY <2>5, <3>2 DEF MoveWallet
        <4>2. owner[p].did # h.old /\ owner[p].did \in wallets
          BY <3>2, <4>1 DEF PersonasOf, OwnersHaveWallets, Exists
        <4> QED
          BY <2>5, <4>1, <4>2 DEF MoveWallet
      <3> QED
        BY <3>1, <3>2
    <2>6. CASE MovePersona(s)
      <3>1. handler[s].persona \in Personas
        BY <2>6, HandlerTyped DEF MovePersona, Migrating
      <3> QED
        BY <2>6, <3>1, <1>1, <1>2 DEF MovePersona
    <2>7. CASE DeleteWallet(s) \/ RemoveWalletFails(s) \/ MigrateWallet(s)
                  \/ MigrationFails(s)
      BY <2>7, <1>1 DEF DeleteWallet, RemoveWalletFails, MigrateWallet, MigrationFails
    <2> QED
      BY <1>3, <2>1, <2>2, <2>3, <2>4, <2>5, <2>6, <2>7 DEF ServeOwners
  <1>4. ASSUME NEW s \in Servers, ServePreferences(s)
        PROVE  owner'[p].did \in wallets'
    <2>1. CASE CommitTransfer(s)
      <3>1. handler[s].persona \in Personas
        BY <2>1, HandlerTyped DEF CommitTransfer, Transferring
      <3> QED
        BY <2>1, <3>1, <1>1, <1>2 DEF CommitTransfer
    <2>2. CASE ~ CommitTransfer(s)
      BY <1>4, <2>2, <1>1 DEF ServePreferences, GetPreferences, CreatePreference,
         UpdateToken, UpdatePreferences, GetPersonaPreferences, CreateLink,
         PreferenceFails, UpdatePersonaPreferences, TransferPersona, TransferFails
    <2> QED
      BY <2>1, <2>2
  <1> QED
    BY <1>1, <1>3, <1>4 DEF Next, vars, Crash, AddRegion

\* Every persona belongs to a wallet that is there, at every point of a
\* migration too, and on any number of servers (wallet.go:136-151).
THEOREM WalletsStay == Spec => []OwnersHaveWallets
  <1>1. Init => OwnersHaveWallets
    BY DEF Init, OwnersHaveWallets, Exists
  <1>2. TypeOK /\ OwnersHaveWallets /\ [Next]_vars => OwnersHaveWallets'
    BY OwnersStep
  <1> QED
    BY <1>1, <1>2, TypeCorrect, PTL DEF Spec

-----------------------------------------------------------------------------
(* One server: a handler that has begun is alone *)

OneServer == \A r, s \in Servers : r = s

\* What a handler has read, and is going to rely on, is still so.
Agrees(s) ==
    LET h == handler[s]
    IN  /\ h.step = "delete" => h.did \in wallets
        /\ h.step = "wallet" =>
              Exists(h.persona) /\ owner[h.persona].did = h.old /\ h.old \in Legacy
        /\ h.step = "persona" =>
              (Exists(h.persona) => owner[h.persona] = [did |-> h.new])
        /\ h.step = "create" => PrefsOf(h.row.did) = {} /\ h.row.token \in Tokens
        /\ h.step = "link" =>
              LinksOf(h.row.persona) = {} /\ pref[h.row.pref] # NoRow /\ h.row.on
        /\ h.step = "transfer" =>
              /\ Exists(h.persona)
              /\ \/ h.copies = {} /\ Relinked(h.persona, h.target) = {}
                 \/ \E x \in Relinked(h.persona, h.target) : h.copies = {x}

AllAgree == \A s \in Servers : Agrees(s)

LEMMA AgreeStep ==
    ASSUME OneServer, TypeOK, AllAgree, [Next]_vars
    PROVE  AllAgree'
  <1> SUFFICES ASSUME NEW s \in Servers PROVE Agrees(s)'
    BY DEF AllAgree
  <1>0. Agrees(s) /\ \A r \in Servers : r = s
    BY DEF AllAgree, OneServer
  <1>1. CASE UNCHANGED <<wallets, owner, pref, link, handler>>
    BY <1>0, <1>1 DEF Agrees, Exists, PrefsOf, LinksOf, Relinked
  <1>2. CASE handler'[s] = Idle
    BY <1>2 DEF Agrees, Idle
  <1>3. CASE Reply(s)
    BY <1>2, <1>3 DEF Reply, Goto, TypeOK
  <1>4. CASE handler[s] = Idle /\ UNCHANGED handler
    BY <1>2, <1>4
  <1>5. ASSUME NEW h, Goto(s, h) PROVE handler'[s] = h
    BY <1>5 DEF Goto, TypeOK
  <1>6. CASE DeleteWallet(s)
    <2>1. PICK d \in wallets : handler'[s] = [step |-> "delete", did |-> d]
      BY <1>5, <1>6 DEF DeleteWallet
    <2>2. UNCHANGED wallets
      BY <1>6 DEF DeleteWallet
    <2> QED
      BY <2>1, <2>2 DEF Agrees
  <1>7. CASE MigrateWallet(s)
    <2>1. PICK p \in Personas, d \in Dids :
              /\ Exists(p) /\ owner[p].did \in Legacy
              /\ handler'[s] = [step |-> "wallet", persona |-> p,
                                old |-> owner[p].did, new |-> d]
      BY <1>5, <1>7 DEF MigrateWallet
    <2>2. UNCHANGED owner
      BY <1>7 DEF MigrateWallet
    <2> QED
      BY <2>1, <2>2 DEF Agrees, Exists
  <1>8. CASE MoveWallet(s)
    <2> DEFINE h == handler[s]
    <2>1. h \in Migrating /\ h.step = "wallet"
      BY <1>8, HandlerTyped DEF MoveWallet
    <2>2. handler'[s] = [h EXCEPT !.step = "persona"]
      BY <1>5, <1>8 DEF MoveWallet
    <2>3. /\ handler'[s].step = "persona"
          /\ handler'[s].persona = h.persona
          /\ handler'[s].new = h.new
      BY <2>1, <2>2 DEF Migrating
    <2>4. h.persona \in PersonasOf(h.old)
      BY <1>0, <2>1 DEF Agrees, PersonasOf, Migrating
    <2>5. owner'[h.persona] = [did |-> h.new]
      BY <1>8, <2>4 DEF MoveWallet, PersonasOf
    <2> QED
      BY <2>3, <2>5 DEF Agrees
  <1>9. CASE GetPreferences(s)
    <2>1. PICK d \in Dids, t \in Tokens :
              \/ /\ PrefsOf(d) = {}
                 /\ handler'[s] = [step |-> "create", row |-> [did |-> d, token |-> t]]
              \/ \E i : handler'[s] = [step |-> "token", pref |-> i, token |-> t]
      BY <1>5, <1>9 DEF GetPreferences
    <2>2. UNCHANGED pref
      BY <1>9 DEF GetPreferences
    <2>3. CASE /\ PrefsOf(d) = {}
               /\ handler'[s] = [step |-> "create", row |-> [did |-> d, token |-> t]]
      BY <2>2, <2>3 DEF Agrees, PrefsOf
    <2>4. CASE \E i : handler'[s] = [step |-> "token", pref |-> i, token |-> t]
      BY <2>4 DEF Agrees
    <2> QED
      BY <2>1, <2>3, <2>4
  <1>10. CASE GetPersonaPreferences(s)
    <2>1. PICK p \in Personas, i \in Prefs :
              /\ LinksOf(p) = {} /\ pref[i] # NoRow
              /\ handler'[s] = [step |-> "link",
                                row |-> [persona |-> p, pref |-> i, on |-> TRUE]]
      BY <1>5, <1>10 DEF GetPersonaPreferences, PrefsOf
    <2>2. UNCHANGED <<pref, link>>
      BY <1>10 DEF GetPersonaPreferences
    <2> QED
      BY <2>1, <2>2 DEF Agrees, LinksOf
  <1>11. CASE TransferPersona(s)
    <2>1. PICK p \in Personas, target \in wallets :
              /\ Exists(p)
              /\ \E copies \in IF Relinked(p, target) = {} THEN {{}}
                               ELSE {{x} : x \in Relinked(p, target)} :
                    Goto(s, [step |-> "transfer", persona |-> p,
                             target |-> target, copies |-> copies])
      BY <1>11 DEF TransferPersona
    <2>2. PICK copies :
              /\ \/ copies = {} /\ Relinked(p, target) = {}
                 \/ \E x \in Relinked(p, target) : copies = {x}
              /\ Exists(p)
              /\ handler'[s] = [step |-> "transfer", persona |-> p,
                                target |-> target, copies |-> copies]
      BY <1>5, <2>1
    <2>3. UNCHANGED <<owner, pref, link>>
      BY <1>11 DEF TransferPersona
    <2>5. /\ handler'[s].step = "transfer"
          /\ handler'[s].persona = p
          /\ handler'[s].target = target
          /\ handler'[s].copies = copies
      BY <2>2
    <2>6. Relinked(handler[s].persona, handler[s].target)' = Relinked(p, target)
      BY <2>3, <2>5 DEF Relinked, LinksOf, PrefsOf
    <2> QED
      BY <2>2, <2>3, <2>5, <2>6 DEF Agrees, Exists
  <1>12. CASE ServeOwners(s)
    BY <1>1, <1>3, <1>4, <1>6, <1>7, <1>8, <1>12 DEF ServeOwners, CreateWallet,
       CreatePersona, UpdatePersona, DeletePersona, RemoveWallet, RemoveWalletFails,
       MovePersona, MigrationFails
  <1>13. CASE ServePreferences(s)
    BY <1>3, <1>4, <1>9, <1>10, <1>11, <1>13 DEF ServePreferences, CreatePreference,
       UpdateToken, UpdatePreferences, CreateLink, PreferenceFails,
       UpdatePersonaPreferences, CommitTransfer, TransferFails
  <1> QED
    BY <1>0, <1>1, <1>3, <1>12, <1>13 DEF Next, vars, Crash, AddRegion

-----------------------------------------------------------------------------
OnePref ==
    \A i, j \in Prefs :
        (pref[i] # NoRow /\ pref[j] # NoRow /\ pref[i].did = pref[j].did) => i = j

OneLink ==
    \A k, l \in Links :
        (link[k] # NoRow /\ link[l] # NoRow /\ link[k].persona = link[l].persona)
        => k = l

LEMMA OnePrefStep ==
    ASSUME TypeOK, TokensLand, AllAgree, OnePref, [Next]_vars
    PROVE  OnePref'
  <1>1. CASE UNCHANGED pref
    BY <1>1 DEF OnePref
  <1>2. ASSUME NEW s \in Servers, CreatePreference(s)
        PROVE  OnePref'
    <2> DEFINE row == handler[s].row
    <2>1. row.did \in Dids /\ PrefsOf(row.did) = {}
      BY <1>2, HandlerTyped DEF CreatePreference, AllAgree, Agrees, PrefRows
    <2>2. PICK n \in Prefs : pref[n] = NoRow /\ pref' = [pref EXCEPT ![n] = row]
      BY <1>2 DEF CreatePreference
    <2>3. \A i \in Prefs : pref[i] # NoRow => pref[i].did # row.did
      BY <2>1 DEF PrefsOf
    <2>4. \A i \in Prefs : pref'[i] = IF i = n THEN row ELSE pref[i]
      BY <2>2 DEF TypeOK
    <2> HIDE DEF row
    <2> QED
      BY <2>2, <2>3, <2>4 DEF OnePref
  <1>3. ASSUME NEW s \in Servers, UpdateToken(s) \/ UpdatePreferences(s)
        PROVE  OnePref'
    <2>1. PICK j, t : j \in Prefs /\ pref[j] # NoRow /\ pref' = [pref EXCEPT ![j].token = t]
      <3>1. CASE UpdateToken(s)
        BY <3>1, HandlerTyped DEF UpdateToken, TokensLand
      <3>2. CASE UpdatePreferences(s)
        BY <3>2 DEF UpdatePreferences, PrefsOf
      <3> QED
        BY <1>3, <3>1, <3>2
    <2>2. pref[j] \in PrefRows
      BY <2>1 DEF TypeOK
    <2>3. pref'[j].did = pref[j].did
      <3>1. pref'[j] = [pref[j] EXCEPT !.token = t]
        BY <2>1 DEF TypeOK
      <3> QED
        BY <2>2, <3>1 DEF PrefRows
    <2>4. \A i \in Prefs : i # j => pref'[i] = pref[i]
      BY <2>1 DEF TypeOK
    <2> QED
      BY <2>1, <2>3, <2>4 DEF OnePref
  <1> QED
    BY <1>1, <1>2, <1>3 DEF Next, vars, ServeOwners, ServePreferences, Crash, AddRegion,
       CreateWallet, CreatePersona, UpdatePersona, DeletePersona, DeleteWallet,
       RemoveWallet, RemoveWalletFails, MigrateWallet, MoveWallet, MovePersona,
       MigrationFails, GetPreferences, GetPersonaPreferences, CreateLink, PreferenceFails,
       UpdatePersonaPreferences, TransferPersona, CommitTransfer, TransferFails

\* What a transfer writes back differs from the row only in its preference.
LEMMA CopiesAgree ==
    ASSUME TypeOK, AllAgree, NEW s \in Servers, CommitTransfer(s), NEW l \in Links
    PROVE  \/ link'[l] = link[l]
           \/ /\ link[l] # NoRow
              /\ link'[l].persona = link[l].persona
              /\ link'[l].on = link[l].on
  <1> DEFINE h == handler[s]
  <1>1. link'[l] = IF \E x \in h.copies : x.id = l
                   THEN (CHOOSE x \in h.copies : x.id = l).row ELSE link[l]
    BY DEF CommitTransfer
  <1>2. h.copies \subseteq Relinked(h.persona, h.target)
    BY DEF CommitTransfer, AllAgree, Agrees
  <1> HIDE DEF h
  <1>3. CASE ~ \E x \in h.copies : x.id = l
    BY <1>1, <1>3
  <1>4. CASE \E x \in h.copies : x.id = l
    <2>1. PICK x \in h.copies : x.id = l /\ link'[l] = x.row
      BY <1>1, <1>4
    <2>2. PICK k \in LinksOf(h.persona), i \in PrefsOf(h.target) :
              x = [id |-> k, row |-> [link[k] EXCEPT !.pref = i]]
      BY <1>2, <2>1 DEF Relinked
    <2>3. k = l /\ link'[l] = [link[l] EXCEPT !.pref = i]
      BY <2>1, <2>2
    <2>4. link[l] # NoRow /\ link[l] \in LinkRows
      BY <2>2, <2>3 DEF LinksOf, TypeOK
    <2> QED
      BY <2>3, <2>4 DEF LinkRows
  <1> QED
    BY <1>3, <1>4

LEMMA OneLinkStep ==
    ASSUME TypeOK, AllAgree, OneLink, [Next]_vars
    PROVE  OneLink'
  <1>1. CASE UNCHANGED link
    BY <1>1 DEF OneLink
  <1>2. ASSUME NEW s \in Servers, CreateLink(s)
        PROVE  OneLink'
    <2> DEFINE row == handler[s].row
    <2>1. LinksOf(row.persona) = {}
      BY <1>2 DEF CreateLink, AllAgree, Agrees
    <2>2. PICK n \in Links : link[n] = NoRow /\ link' = [link EXCEPT ![n] = row]
      BY <1>2 DEF CreateLink
    <2>3. \A l \in Links : link[l] # NoRow => link[l].persona # row.persona
      BY <2>1 DEF LinksOf
    <2>4. \A l \in Links : link'[l] = IF l = n THEN row ELSE link[l]
      BY <2>2 DEF TypeOK
    <2> HIDE DEF row
    <2> QED
      BY <2>2, <2>3, <2>4 DEF OneLink
  <1>3. ASSUME NEW s \in Servers, UpdatePersonaPreferences(s) \/ CommitTransfer(s)
        PROVE  OneLink'
    <2>1. \A l \in Links : \/ link'[l] = link[l]
                           \/ link[l] # NoRow /\ link'[l].persona = link[l].persona
      <3>1. CASE CommitTransfer(s)
        BY <3>1, CopiesAgree
      <3>2. CASE UpdatePersonaPreferences(s)
        <4>1. PICK l \in Links, on \in BOOLEAN :
                  link[l] # NoRow /\ link' = [link EXCEPT ![l].on = on]
          BY <3>2 DEF UpdatePersonaPreferences
        <4>2. link'[l].persona = link[l].persona
          <5>1. link'[l] = [link[l] EXCEPT !.on = on] /\ link[l] \in LinkRows
            BY <4>1 DEF TypeOK
          <5> QED
            BY <5>1 DEF LinkRows
        <4>3. \A k \in Links : k # l => link'[k] = link[k]
          BY <4>1 DEF TypeOK
        <4> QED
          BY <4>1, <4>2, <4>3
      <3> QED
        BY <1>3, <3>1, <3>2
    <2> QED
      BY <2>1 DEF OneLink
  <1> QED
    BY <1>1, <1>2, <1>3 DEF Next, vars, ServeOwners, ServePreferences, Crash, AddRegion,
       CreateWallet, CreatePersona, UpdatePersona, DeletePersona, DeleteWallet,
       RemoveWallet, RemoveWalletFails, MigrateWallet, MoveWallet, MovePersona,
       MigrationFails, GetPreferences, GetPersonaPreferences, CreatePreference,
       UpdateToken, UpdatePreferences, PreferenceFails, TransferPersona, TransferFails

\* All that holds of the accounts of one server.
AccountsInv == TypeOK /\ TokensLand /\ AllAgree /\ OnePref /\ OneLink

LEMMA AccountsInvStep == OneServer /\ AccountsInv /\ [Next]_vars => AccountsInv'
  BY TypeStep, TokensLandStep, AgreeStep, OnePrefStep, OneLinkStep DEF AccountsInv

LEMMA AccountsInvAlways ==
    ASSUME OneServer
    PROVE  Spec => []AccountsInv
  <1>1. Init => AccountsInv
    BY DEF Init, AccountsInv, TypeOK, TokensLand, AllAgree, Agrees, Idle, OnePref, OneLink
  <1> QED
    BY <1>1, AccountsInvStep, PTL DEF Spec

LEMMA AtMostOne ==
    ASSUME NEW S, \A x, y \in S : x = y
    PROVE  Cardinality(S) <= 1
  <1>1. CASE S = {}
    BY <1>1, FS_EmptySet
  <1>2. CASE S # {}
    <2>1. PICK x : S = {x}
      BY <1>2
    <2> QED
      BY <2>1, FS_Singleton
  <1> QED
    BY <1>1, <1>2

-----------------------------------------------------------------------------
LEMMA OnePrefCounts == OnePref => OnePreferencePerWallet
  <1> SUFFICES ASSUME OnePref, NEW d \in Dids
               PROVE  Cardinality(PrefsOf(d)) <= 1
    BY DEF OnePreferencePerWallet
  <1>1. \A i, j \in PrefsOf(d) : i = j
    BY DEF PrefsOf, OnePref
  <1> QED
    BY <1>1, AtMostOne

LEMMA OneLinkCounts == OneLink => OneLinkPerPersona
  <1> SUFFICES ASSUME OneLink, NEW p \in Personas
               PROVE  Cardinality(LinksOf(p)) <= 1
    BY DEF OneLinkPerPersona
  <1>1. \A k, l \in LinksOf(p) : k = l
    BY DEF LinksOf, OneLink
  <1> QED
    BY <1>1, AtMostOne

\* A wallet has one preference, and so one token the pushes go to, although
\* no index says so (notification.go:48-83).
THEOREM OneToken ==
    ASSUME OneServer
    PROVE  Spec => []OnePreferencePerWallet
  <1>1. AccountsInv => OnePreferencePerWallet
    BY OnePrefCounts DEF AccountsInv
  <1> QED
    BY <1>1, AccountsInvAlways, PTL

\* A persona has one link, and so one place its pushes go to, although no
\* index says so (notification.go:202-287).
THEOREM OnePlace ==
    ASSUME OneServer
    PROVE  Spec => []OneLinkPerPersona
  <1>1. AccountsInv => OneLinkPerPersona
    BY OneLinkCounts DEF AccountsInv
  <1> QED
    BY <1>1, AccountsInvAlways, PTL

\* With one server, a handler that has begun goes on alone.
LEMMA Continues ==
    ASSUME OneServer, NEW s \in Servers, handler[s] # Idle, [Next]_vars
    PROVE  \/ UNCHANGED <<owner, link>>
           \/ handler[s].step = "delete" /\ RemoveWallet(s)
           \/ handler[s].step = "wallet" /\ MoveWallet(s)
           \/ handler[s].step = "persona" /\ MovePersona(s)
           \/ handler[s].step = "link" /\ CreateLink(s)
           \/ handler[s].step = "transfer" /\ CommitTransfer(s)
  <1>0. \A r \in Servers : r = s
    BY DEF OneServer
  <1>1. CASE ServeOwners(s)
    BY <1>1 DEF ServeOwners, CreateWallet, CreatePersona, UpdatePersona, DeletePersona,
       DeleteWallet, RemoveWallet, RemoveWalletFails, MigrateWallet, MoveWallet,
       MovePersona, MigrationFails
  <1>2. CASE ServePreferences(s)
    BY <1>2 DEF ServePreferences, GetPreferences, CreatePreference, UpdateToken,
       UpdatePreferences, GetPersonaPreferences, CreateLink, PreferenceFails,
       UpdatePersonaPreferences, TransferPersona, CommitTransfer, TransferFails
  <1>3. CASE Crash(s) \/ AddRegion \/ UNCHANGED vars
    BY <1>3 DEF Crash, AddRegion, vars
  <1> QED
    BY <1>0, <1>1, <1>2, <1>3 DEF Next

\* A migration takes no persona out of another wallet: the one its second
\* update names is still where the first has put it (wallet.go:106-147).
THEOREM MigrationIsLocal ==
    ASSUME OneServer
    PROVE  Spec => MigrationMovesItsOwn
  <1> DEFINE Moves ==
        \A s \in Servers, p \in Personas :
          (handler[s].step \in {"wallet", "persona"} /\ Exists(p)
             /\ owner'[p] # owner[p])
          => /\ owner[p].did = handler[s].old
             /\ owner'[p] = [did |-> handler[s].new]
  <1>1. AccountsInv /\ [Next]_vars => [Moves]_vars
    <2> SUFFICES ASSUME AccountsInv, [Next]_vars, NEW s \in Servers, NEW p \in Personas,
                        handler[s].step \in {"wallet", "persona"}, Exists(p),
                        owner'[p] # owner[p]
                 PROVE  /\ owner[p].did = handler[s].old
                        /\ owner'[p] = [did |-> handler[s].new]
      OBVIOUS
    <2>1. handler[s] # Idle
      BY DEF Idle
    <2>2. CASE MoveWallet(s)
      <3>1. p \in PersonasOf(handler[s].old)
        BY <2>2 DEF MoveWallet
      <3> QED
        BY <2>2, <3>1 DEF MoveWallet, PersonasOf
    <2>3. CASE handler[s].step = "persona" /\ MovePersona(s)
      <3> DEFINE h == handler[s]
      <3>1. owner' = [owner EXCEPT ![h.persona] = [did |-> h.new]] /\ Exists(h.persona)
        BY <2>3 DEF MovePersona
      <3>2. p = h.persona
        BY <3>1 DEF AccountsInv, TypeOK
      <3>3. owner[p] = [did |-> h.new]
        BY <2>3, <3>1, <3>2 DEF AccountsInv, AllAgree, Agrees
      <3>4. owner'[p] = [did |-> h.new]
        BY <3>1, <3>2 DEF AccountsInv, TypeOK
      <3> QED
        BY <3>3, <3>4
    <2> QED
      BY <2>1, <2>2, <2>3, Continues
  <1>2. MigrationMovesItsOwn <=> [][Moves]_vars
    BY PTL DEF MigrationMovesItsOwn
  <1> HIDE DEF Moves
  <1> QED
    BY <1>1, <1>2, AccountsInvAlways, PTL DEF Spec

\* A transfer, which saves the link whole, writes back the settings that are
\* in the table (wallet.go:466-477).
THEOREM SettingsAreTheirOwn ==
    ASSUME OneServer
    PROVE  Spec => SettingsChangeAlone
  <1> DEFINE Alone ==
        \A l \in Links : (link[l] # NoRow /\ link'[l].on # link[l].on)
                            => UNCHANGED <<owner, handler>>
  <1>1. AccountsInv /\ [Next]_vars => [Alone]_vars
    <2> SUFFICES ASSUME AccountsInv, [Next]_vars, NEW l \in Links,
                        link[l] # NoRow, link'[l].on # link[l].on
                 PROVE  UNCHANGED <<owner, handler>>
      OBVIOUS
    <2>1. ASSUME NEW s \in Servers, CommitTransfer(s) PROVE FALSE
      BY <2>1, CopiesAgree DEF AccountsInv
    <2>2. ASSUME NEW s \in Servers, CreateLink(s) PROVE FALSE
      BY <2>2 DEF CreateLink, AccountsInv, TypeOK
    <2>3. ASSUME NEW s \in Servers, ServePreferences(s)
          PROVE  UNCHANGED <<owner, handler>>
      BY <2>1, <2>2, <2>3 DEF ServePreferences, GetPreferences, CreatePreference,
         UpdateToken, UpdatePreferences, GetPersonaPreferences, PreferenceFails,
         UpdatePersonaPreferences, TransferPersona, TransferFails
    <2>4. ASSUME NEW s \in Servers, ServeOwners(s) \/ Crash(s)
          PROVE  UNCHANGED link
      BY <2>4 DEF ServeOwners, CreateWallet, CreatePersona, UpdatePersona,
         DeletePersona, DeleteWallet, RemoveWallet, RemoveWalletFails, MigrateWallet,
         MoveWallet, MovePersona, MigrationFails, Crash
    <2> QED
      BY <2>3, <2>4 DEF Next, AddRegion, vars
  <1>2. SettingsChangeAlone <=> [][Alone]_vars
    BY PTL DEF SettingsChangeAlone
  <1> HIDE DEF Alone
  <1> QED
    BY <1>1, <1>2, AccountsInvAlways, PTL DEF Spec

\* When a transfer commits, the persona's links lead to its new wallet.
Follows ==
    \A s \in Servers :
      (handler[s].step = "transfer" /\ owner' # owner
         /\ PrefsOf(handler[s].target) # {})
      => \A l \in LinksOf(handler[s].persona) :
            pref[link'[l].pref].did = handler[s].target

LEMMA FollowsStep == OneServer /\ AccountsInv /\ [Next]_vars => Follows
  <1> SUFFICES ASSUME OneServer, AccountsInv, [Next]_vars, NEW s \in Servers,
                      handler[s].step = "transfer", owner' # owner,
                      PrefsOf(handler[s].target) # {},
                      NEW l \in LinksOf(handler[s].persona)
               PROVE  pref[link'[l].pref].did = handler[s].target
    BY DEF Follows
  <1> DEFINE h == handler[s]
  <1>1. CommitTransfer(s)
    BY Continues DEF Idle
  <1>2. Relinked(h.persona, h.target) # {}
    <2>1. PICK j \in PrefsOf(h.target) : TRUE
      OBVIOUS
    <2>2. [id |-> l, row |-> [link[l] EXCEPT !.pref = j]] \in Relinked(h.persona, h.target)
      BY DEF Relinked
    <2> QED
      BY <2>2
  <1>3. PICK x \in Relinked(h.persona, h.target) : h.copies = {x}
    BY <1>2 DEF AccountsInv, AllAgree, Agrees
  <1>4. PICK k \in LinksOf(h.persona), i \in PrefsOf(h.target) :
            x = [id |-> k, row |-> [link[k] EXCEPT !.pref = i]]
    BY DEF Relinked
  <1>5. k = l
    BY DEF LinksOf, AccountsInv, OneLink
  <1>6. l \in Links /\ link[l] \in LinkRows
    BY DEF LinksOf, AccountsInv, TypeOK
  <1>7. (CHOOSE y \in h.copies : y.id = l) = x
    BY <1>3, <1>4, <1>5
  <1>8. link'[l] = [link[l] EXCEPT !.pref = i]
    BY <1>1, <1>3, <1>4, <1>5, <1>6, <1>7 DEF CommitTransfer
  <1>9. link'[l].pref = i
    BY <1>6, <1>8 DEF LinkRows
  <1> QED
    BY <1>9 DEF PrefsOf

\* The link of a persona that is transferred leads to its new wallet, when
\* that has registered a preference (wallet.go:455-471).
THEOREM LinkFollows ==
    ASSUME OneServer
    PROVE  Spec => LinkFollowsTransfer
  <1>1. AccountsInv /\ [Next]_vars => [Follows]_vars
    BY FollowsStep
  <1>2. LinkFollowsTransfer <=> [][Follows]_vars
    BY PTL DEF LinkFollowsTransfer, Follows
  <1> QED
    BY <1>1, <1>2, AccountsInvAlways, PTL DEF Spec

-----------------------------------------------------------------------------
(* Requests are atomic *)

LEMMA SameRows ==
    /\ Atomic!Unborn = Unborn /\ Atomic!Gone = Gone /\ Atomic!NoRow = NoRow
    /\ \A p : Atomic!Exists(p) <=> Exists(p)
    /\ \A d : Atomic!PersonasOf(d) = PersonasOf(d)
    /\ \A d : Atomic!PrefsOf(d) = PrefsOf(d)
    /\ \A p : Atomic!LinksOf(p) = LinksOf(p)
  BY DEF Atomic!Unborn, Unborn, Atomic!Gone, Gone, Atomic!NoRow, NoRow,
     Atomic!Exists, Exists, Atomic!PersonasOf, PersonasOf, Atomic!PrefsOf, PrefsOf,
     Atomic!LinksOf, LinksOf

TablesKept == UNCHANGED <<wallets, owner, regional, pref, link>>

\* What the handlers that make, move or delete wallets and personas do to the
\* tables.  The second update of a migration finds its work done.
LEMMA OwnersAtomic ==
    ASSUME AccountsInv, OwnersHaveWallets, NEW s \in Servers, ServeOwners(s)
    PROVE  Atomic!Next \/ TablesKept
  <1> DEFINE h == handler[s]
  <1>0. Agrees(s) /\ TypeOK
    BY DEF AccountsInv, AllAgree
  <1>1. CASE CreateWallet(s)
    BY <1>1 DEF CreateWallet, Atomic!CreateWallet, Atomic!Next
  <1>2. CASE CreatePersona(s) \/ UpdatePersona(s)
    <2>1. PICK p \in Personas, d \in wallets :
              owner[p] # Gone /\ owner' = [owner EXCEPT ![p] = [did |-> d]]
      <3>1. Unborn # Gone
        BY DEF Unborn, Gone
      <3> QED
        BY <1>2, <3>1 DEF CreatePersona, UpdatePersona, Exists
    <2>2. Atomic!PlacePersona
      BY <1>2, <2>1, SameRows DEF CreatePersona, UpdatePersona, Atomic!PlacePersona
    <2> QED
      BY <2>2 DEF Atomic!Next
  <1>3. CASE DeletePersona(s)
    BY <1>3, SameRows DEF DeletePersona, Deletable, Atomic!DeletePersona, Atomic!Next
  <1>4. CASE RemoveWallet(s)
    <2>1. h.did \in wallets
      BY <1>0, <1>4 DEF RemoveWallet, Agrees
    <2> QED
      BY <1>4, <2>1, SameRows DEF RemoveWallet, Deletable, Atomic!DeleteWallet, Atomic!Next
  <1>5. CASE MoveWallet(s)
    <2>1. h \in Migrating /\ h.step = "wallet"
      BY <1>0, <1>5, HandlerTyped DEF MoveWallet
    <2>2. h.persona \in Personas /\ h.new \in Dids
      BY <2>1 DEF Migrating
    <2>3. h.persona \in PersonasOf(h.old) /\ h.old \in Legacy
      BY <1>0, <2>1, <2>2 DEF Agrees, PersonasOf
    <2>4. h.old \in wallets
      BY <2>3 DEF OwnersHaveWallets, PersonasOf
    <2>5. /\ h.new \notin wallets \ {h.old}
          /\ wallets' = (wallets \ {h.old}) \cup {h.new}
          /\ owner' = [p \in Personas |-> IF p \in PersonasOf(h.old)
                                          THEN [did |-> h.new] ELSE owner[p]]
          /\ UNCHANGED <<regional, pref, link>>
      BY <1>5, <2>4 DEF MoveWallet, NewTaken
    <2> HIDE DEF h
    <2>6. Atomic!MigrateWallet
      BY <2>2, <2>3, <2>4, <2>5, SameRows DEF Atomic!MigrateWallet
    <2> QED
      BY <2>6 DEF Atomic!Next
  <1>6. CASE MovePersona(s)
    <2>1. h \in Migrating /\ h.step = "persona"
      BY <1>0, <1>6, HandlerTyped DEF MovePersona
    <2>2. CASE Exists(h.persona)
      <3>1. owner[h.persona] = [did |-> h.new]
        BY <1>0, <2>1, <2>2 DEF Agrees
      <3>2. owner' = [owner EXCEPT ![h.persona] = owner[h.persona]]
        BY <1>6, <2>2, <3>1 DEF MovePersona
      <3>3. owner' = owner
        BY <1>0, <3>2 DEF TypeOK
      <3> QED
        BY <1>6, <3>3 DEF MovePersona, TablesKept
    <2>3. CASE ~ Exists(h.persona)
      BY <1>6, <2>3 DEF MovePersona, TablesKept
    <2> QED
      BY <2>2, <2>3
  <1>7. CASE DeleteWallet(s) \/ RemoveWalletFails(s) \/ MigrateWallet(s) \/ MigrationFails(s)
    BY <1>7 DEF DeleteWallet, RemoveWalletFails, MigrateWallet, MigrationFails, TablesKept
  <1> QED
    BY <1>1, <1>2, <1>3, <1>4, <1>5, <1>6, <1>7 DEF ServeOwners

\* And those that write preferences: when they do, what they have read is so.
LEMMA PreferencesAtomic ==
    ASSUME AccountsInv, NEW s \in Servers, ServePreferences(s)
    PROVE  Atomic!Next \/ TablesKept
  <1> DEFINE h == handler[s]
  <1>0. Agrees(s) /\ TypeOK /\ TokensLand
    BY DEF AccountsInv, AllAgree
  <1>1. CASE CreatePreference(s)
    <2>1. h \in [step : {"create"}, row : PrefRows]
      BY <1>0, <1>1, HandlerTyped DEF CreatePreference
    <2>2. h.row.did \in Dids /\ h.row.token \in Tokens /\ PrefsOf(h.row.did) = {}
          /\ h.row = [did |-> h.row.did, token |-> h.row.token]
      BY <1>0, <1>1, <2>1 DEF CreatePreference, Agrees, PrefRows
    <2>3. PICK i \in Prefs : pref[i] = NoRow /\ pref' = [pref EXCEPT ![i] = h.row]
      BY <1>1 DEF CreatePreference
    <2>4. UNCHANGED <<wallets, owner, regional, link>>
      BY <1>1 DEF CreatePreference
    <2> HIDE DEF h
    <2>5. Atomic!RegisterToken
      BY <2>2, <2>3, <2>4, SameRows DEF Atomic!RegisterToken
    <2> QED
      BY <2>5 DEF Atomic!Next
  <1>2. CASE UpdateToken(s)
    <2>1. h \in [step : {"token"}, pref : Prefs, token : Tokens] /\ pref[h.pref] # NoRow
      BY <1>0, <1>2, HandlerTyped DEF UpdateToken, TokensLand
    <2>2. h.pref \in Prefs /\ h.token \in Tokens
      BY <2>1
    <2>3. pref[h.pref].did \in Dids
      BY <1>0, <2>1, <2>2 DEF TypeOK, PrefRows
    <2>4. h.pref \in PrefsOf(pref[h.pref].did)
      BY <2>1, <2>2 DEF PrefsOf
    <2>5. /\ pref' = [pref EXCEPT ![h.pref].token = h.token]
          /\ UNCHANGED <<wallets, owner, regional, link>>
      BY <1>2 DEF UpdateToken
    <2> HIDE DEF h
    <2>6. Atomic!RegisterToken
      BY <2>2, <2>3, <2>4, <2>5, SameRows DEF Atomic!RegisterToken
    <2> QED
      BY <2>6 DEF Atomic!Next
  <1>3. CASE UpdatePreferences(s)
    <2>1. PICK d \in Dids, t \in Tokens \cup {NoToken} :
              \E i \in PrefsOf(d) : pref' = [pref EXCEPT ![i].token = t]
      BY <1>3 DEF UpdatePreferences
    <2>2. Atomic!UpdatePreferences
      BY <1>3, <2>1, SameRows DEF UpdatePreferences, PrefsOf, Atomic!UpdatePreferences
    <2> QED
      BY <2>2 DEF Atomic!Next
  <1>4. CASE CreateLink(s)
    <2>1. h.row \in LinkRows
      BY <1>0, <1>4, HandlerTyped DEF CreateLink, Linking
    <2>2. LinksOf(h.row.persona) = {} /\ pref[h.row.pref] # NoRow /\ h.row.on
      BY <1>0, <1>4 DEF CreateLink, Agrees
    <2>3. h.row = [persona |-> h.row.persona, pref |-> h.row.pref, on |-> TRUE]
          /\ h.row.persona \in Personas /\ h.row.pref \in Prefs
      BY <2>1, <2>2 DEF LinkRows
    <2>4. PICK l \in Links : link[l] = NoRow /\ link' = [link EXCEPT ![l] = h.row]
      BY <1>4 DEF CreateLink
    <2>5. UNCHANGED <<wallets, owner, regional, pref>>
      BY <1>4 DEF CreateLink
    <2> HIDE DEF h
    <2>6. Atomic!LinkPersona
      BY <2>2, <2>3, <2>4, <2>5, SameRows DEF Atomic!LinkPersona
    <2> QED
      BY <2>6 DEF Atomic!Next
  <1>5. CASE UpdatePersonaPreferences(s)
    BY <1>5, SameRows DEF UpdatePersonaPreferences, Atomic!UpdateSettings, Atomic!Next
  <1>6. CASE CommitTransfer(s)
    <2>1. h \in Transferring
      BY <1>0, <1>6, HandlerTyped DEF CommitTransfer
    <2>2. /\ h.persona \in Personas /\ h.target \in wallets
          /\ Exists(h.persona)
          /\ owner' = [owner EXCEPT ![h.persona] = [did |-> h.target]]
          /\ UNCHANGED <<wallets, regional, pref>>
      BY <1>0, <1>6, <2>1 DEF CommitTransfer, Agrees, Transferring
    <2>3. link' = [l \in Links |->
             IF \E x \in h.copies : x.id = l
             THEN (CHOOSE x \in h.copies : x.id = l).row ELSE link[l]]
      BY <1>6 DEF CommitTransfer
    <2>4. \/ h.copies = {} /\ Relinked(h.persona, h.target) = {}
          \/ \E x \in Relinked(h.persona, h.target) : h.copies = {x}
      BY <1>0, <1>6 DEF CommitTransfer, Agrees
    <2> HIDE DEF h
    <2>5. CASE h.copies = {} /\ Relinked(h.persona, h.target) = {}
      <3>1. LinksOf(h.persona) = {} \/ PrefsOf(h.target) = {}
        <4> SUFFICES ASSUME NEW k \in LinksOf(h.persona), NEW i \in PrefsOf(h.target)
                     PROVE  FALSE
          OBVIOUS
        <4>1. [id |-> k, row |-> [link[k] EXCEPT !.pref = i]]
                 \in Relinked(h.persona, h.target)
          BY DEF Relinked
        <4> QED
          BY <2>5, <4>1
      <3>2. link' = link
        BY <1>0, <2>3, <2>5 DEF TypeOK
      <3>3. Atomic!TransferPersona
        BY <2>2, <3>1, <3>2, SameRows DEF Atomic!TransferPersona
      <3> QED
        BY <3>3 DEF Atomic!Next
    <2>6. ASSUME NEW x \in Relinked(h.persona, h.target), h.copies = {x}
          PROVE  Atomic!Next
      <3>1. PICK k \in LinksOf(h.persona), i \in PrefsOf(h.target) :
                x = [id |-> k, row |-> [link[k] EXCEPT !.pref = i]]
        BY DEF Relinked
      <3>2. k \in Links
        BY DEF LinksOf
      <3>3. \A l \in Links :
               link'[l] = IF l = k THEN [link[k] EXCEPT !.pref = i] ELSE link[l]
        <4> SUFFICES ASSUME NEW l \in Links
                     PROVE  link'[l] = IF l = k THEN [link[k] EXCEPT !.pref = i]
                                       ELSE link[l]
          OBVIOUS
        <4>1. CASE l = k
          <5>1. (CHOOSE y \in h.copies : y.id = l) = x
            BY <2>6, <3>1, <4>1
          <5> QED
            BY <2>3, <2>6, <3>1, <4>1, <5>1
        <4>2. CASE l # k
          BY <2>3, <2>6, <3>1, <4>2
        <4> QED
          BY <4>1, <4>2
      <3>4. link' = [link EXCEPT ![k].pref = i]
        <4>1. link' = [l \in Links |-> link'[l]] /\ link = [l \in Links |-> link[l]]
          BY <1>0, <2>3 DEF TypeOK
        <4> QED
          BY <3>2, <3>3, <4>1
      <3>5. Atomic!TransferPersona
        BY <2>2, <3>1, <3>4, SameRows DEF Atomic!TransferPersona
      <3> QED
        BY <3>5 DEF Atomic!Next
    <2> QED
      BY <2>4, <2>5, <2>6
  <1>7. CASE \/ GetPreferences(s) \/ GetPersonaPreferences(s) \/ PreferenceFails(s)
             \/ TransferPersona(s) \/ TransferFails(s)
    BY <1>7 DEF GetPreferences, GetPersonaPreferences, PreferenceFails, TransferPersona,
       TransferFails, TablesKept
  <1> QED
    BY <1>1, <1>2, <1>3, <1>4, <1>5, <1>6, <1>7 DEF ServePreferences

LEMMA AtomicStep ==
    AccountsInv /\ OwnersHaveWallets /\ [Next]_vars => [Atomic!Next]_(Atomic!tables)
  <1> SUFFICES ASSUME AccountsInv, OwnersHaveWallets, [Next]_vars
               PROVE  Atomic!Next \/ TablesKept
    BY DEF Atomic!tables, TablesKept
  <1>1. CASE AddRegion
    BY <1>1, SameRows DEF AddRegion, Atomic!AddRegion, Atomic!Next
  <1>2. ASSUME NEW s \in Servers, Crash(s) PROVE TablesKept
    BY <1>2 DEF Crash, TablesKept
  <1>3. UNCHANGED vars => TablesKept
    BY DEF vars, TablesKept
  <1> QED
    BY <1>1, <1>2, <1>3, OwnersAtomic, PreferencesAtomic DEF Next

\* On one server every request happens at one moment or not at all, a migration
\* too, although its two updates are in no transaction: the tables change as
\* AtomicAccounts says (notification.go:48-83, 202-287, wallet.go:106-151,
\* 437-477).
THEOREM RequestsAtomic ==
    ASSUME OneServer
    PROVE  Spec => AtomicSpec
  <1>1. Init => Atomic!Init
    BY SameRows DEF Init, Atomic!Init
  <1> QED
    BY <1>1, AtomicStep, AccountsInvAlways, WalletsStay, PTL
       DEF Spec, AtomicSpec, Atomic!Spec
=============================================================================
