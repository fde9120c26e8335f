-------------------------------- MODULE Accounts --------------------------------
(***************************************************************************)
(* Wallets, the personas they own, and the notification preferences of     *)
(* both: routes/wallet.go, routes/persona.go and the preference handlers   *)
(* of routes/notification.go.                                              *)
(*                                                                         *)
(* A persona belongs to one wallet, by did; the foreign key of the schema  *)
(* cascades both updates and deletions.  A wallet has a preference, which  *)
(* holds its push token; a persona has a preference of its own, here a     *)
(* link, that names the preference whose token its pushes go to.  The two  *)
(* tables of preferences have no foreign key and no unique index (the      *)
(* structs declare none, and the schema of db/dump does not have them).    *)
(*                                                                         *)
(* A server runs one handler at a time (HandlersExclusive of PepperGate).  *)
(* A step is one statement that writes, with the reads that lead to it, or *)
(* a transaction that commits.  Requests that change nothing are left out. *)
(***************************************************************************)
EXTENDS Naturals, FiniteSets

CONSTANTS
    Servers,   \* server processes that share the database
    Dids,      \* dids of wallets
    Legacy,    \* those shorter than seven bytes
    Personas,  \* uuids the database will give to personas
    Prefs,     \* uuids of rows of notification_preference
    Links,     \* uuids of rows of persona_notification_preference
    Tokens,    \* push tokens
    NoToken,   \* the empty token
    MayFail    \* statements may fail, and processes may die

ASSUME AccountsAssumption ==
    /\ Legacy \subseteq Dids
    /\ NoToken \notin Tokens
    /\ MayFail \in BOOLEAN

VARIABLES
    wallets,   \* the dids that have a wallet
    owner,     \* whose each persona is: the did of a wallet, or Unborn, or Gone
    regional,  \* organizations with rows in business_organization_region_info
    pref,      \* notification_preference
    link,      \* persona_notification_preference
    handler    \* what each server is doing

vars == <<wallets, owner, regional, pref, link, handler>>

\* A persona that was never created, and one that has been deleted.
Unborn == [row |-> "unborn"]
Gone == [row |-> "gone"]
NoRow == [row |-> "none"]

Owned == [did : Dids]
PrefRows == [did : Dids, token : Tokens \cup {NoToken}]

\* "on" stands for is_enabled and persona_settings.
LinkRows == [persona : Personas, pref : Prefs, on : BOOLEAN]

Idle == [step |-> "idle"]

Migrating == [step : {"wallet", "persona"}, persona : Personas,
              old : Dids, new : Dids]
Deleting == [step : {"delete"}, did : Dids]
Registering == [step : {"create"}, row : PrefRows]
                 \cup [step : {"token"}, pref : Prefs, token : Tokens]
Linking == [step : {"link"}, row : LinkRows]

\* transferPersona: "copies" holds the persona's link, read and relinked,
\* when there is one to write back.
Transferring == [step : {"transfer"}, persona : Personas, target : Dids,
                 copies : {{}} \cup
                    {{[id |-> l, row |-> x]} : l \in Links, x \in LinkRows}]

Working == Migrating \cup Deleting \cup Registering \cup Linking
             \cup Transferring

TypeOK ==
    /\ wallets \subseteq Dids
    /\ owner \in [Personas -> Owned \cup {Unborn, Gone}]
    /\ regional \subseteq Personas
    /\ pref \in [Prefs -> PrefRows \cup {NoRow}]
    /\ link \in [Links -> LinkRows \cup {NoRow}]
    /\ handler \in [Servers -> {Idle} \cup Working]

Init ==
    /\ wallets = {}
    /\ owner = [p \in Personas |-> Unborn]
    /\ regional = {}
    /\ pref = [i \in Prefs |-> NoRow]
    /\ link = [l \in Links |-> NoRow]
    /\ handler = [s \in Servers |-> Idle]

-----------------------------------------------------------------------------
Goto(s, h) == handler' = [handler EXCEPT ![s] = h]
Reply(s) == Goto(s, Idle)

Exists(p) == owner[p] \notin {Unborn, Gone}
PersonasOf(d) == {p \in Personas : Exists(p) /\ owner[p].did = d}

\* What First can return: any of the rows, the uuids being in random order.
PrefsOf(d) == {i \in Prefs : pref[i] # NoRow /\ pref[i].did = d}
LinksOf(p) == {l \in Links : link[l] # NoRow /\ link[l].persona = p}

-----------------------------------------------------------------------------
(* wallet.go and persona.go: rows come and go *)

\* createWallet; a did that has one already gets a 409.
CreateWallet(s) ==
    /\ handler[s] = Idle
    /\ \E d \in Dids \ wallets : wallets' = wallets \cup {d}
    /\ UNCHANGED <<owner, regional, pref, link, handler>>

\* createPersona; the foreign key asks for a wallet.
CreatePersona(s) ==
    /\ handler[s] = Idle
    /\ \E p \in Personas, d \in wallets :
          /\ owner[p] = Unborn
          /\ owner' = [owner EXCEPT ![p] = [did |-> d]]
    /\ UNCHANGED <<wallets, regional, pref, link, handler>>

\* updatePersona writes the columns its body names, did among them.
\* Mutant: it does not wait for the handler that is running.
UpdatePersonaUnlocked(s) ==
    /\ \E p \in Personas, d \in wallets :
          Exists(p) /\ owner' = [owner EXCEPT ![p] = [did |-> d]]
    /\ UNCHANGED <<wallets, regional, pref, link, handler>>

UpdatePersona(s) ==
    /\ handler[s] = Idle
    /\ \E p \in Personas, d \in wallets :
          Exists(p) /\ owner' = [owner EXCEPT ![p] = [did |-> d]]
    /\ UNCHANGED <<wallets, regional, pref, link, handler>>

\* Region rows are written by nothing in this repository.
AddRegion ==
    /\ \E p \in Personas :
          Exists(p) /\ regional' = regional \cup {p}
    /\ UNCHANGED <<wallets, owner, pref, link, handler>>

\* The schema lets personas be deleted: the cascade ends at region rows,
\* whose foreign key restricts.
Deletable(P) == P \cap regional = {}

DeletePersona(s) ==
    /\ handler[s] = Idle
    /\ \E p \in Personas :
          /\ Exists(p)
          /\ Deletable({p})
          /\ owner' = [owner EXCEPT ![p] = Gone]
    /\ UNCHANGED <<wallets, regional, pref, link, handler>>

\* deleteWallet has found the wallet and its timestamp is right.
DeleteWallet(s) ==
    /\ handler[s] = Idle
    /\ \E d \in wallets : Goto(s, [step |-> "delete", did |-> d])
    /\ UNCHANGED <<wallets, owner, regional, pref, link>>

\* Its personas go with it.
RemoveWallet(s) ==
    /\ handler[s].step = "delete"
    /\ LET d == handler[s].did
       IN  /\ Deletable(PersonasOf(d))
           /\ wallets' = wallets \ {d}
           /\ owner' = [p \in Personas |->
                           IF p \in PersonasOf(d) THEN Gone ELSE owner[p]]
    /\ Reply(s)
    /\ UNCHANGED <<regional, pref, link>>

RemoveWalletFails(s) ==
    /\ handler[s].step = "delete"
    /\ MayFail \/ ~ Deletable(PersonasOf(handler[s].did))
    /\ Reply(s)
    /\ UNCHANGED <<wallets, owner, regional, pref, link>>

-----------------------------------------------------------------------------
(* migrateWallet *)

\* The persona whose profile has the email belongs to a legacy wallet.
MigrateWallet(s) ==
    /\ handler[s] = Idle
    /\ \E p \in Personas, d \in Dids :
          /\ Exists(p)
          /\ owner[p].did \in Legacy
          /\ Goto(s, [step |-> "wallet", persona |-> p,
                      old |-> owner[p].did, new |-> d])
    /\ UNCHANGED <<wallets, owner, regional, pref, link>>

\* The first update is refused: the new did has a wallet beside the old one.
\* Where the old one is gone it matches no row, and is never refused.
NewTaken(h) == h.old \in wallets /\ h.new \in wallets \ {h.old}

\* The first update renames the wallet, and the foreign key its personas'
\* did.  A wallet that is gone is no error.
\* Mutant: the personas do not follow.
MoveWalletAlone(s) ==
    /\ handler[s].step = "wallet"
    /\ LET h == handler[s]
       IN  /\ ~ NewTaken(h)
           /\ wallets' = IF h.old \in wallets
                         THEN (wallets \ {h.old}) \cup {h.new} ELSE wallets
           /\ Goto(s, [h EXCEPT !.step = "persona"])
    /\ UNCHANGED <<owner, regional, pref, link>>

MoveWallet(s) ==
    /\ handler[s].step = "wallet"
    /\ LET h == handler[s]
       IN  /\ ~ NewTaken(h)
           /\ wallets' = IF h.old \in wallets
                         THEN (wallets \ {h.old}) \cup {h.new} ELSE wallets
           /\ owner' = [p \in Personas |-> IF p \in PersonasOf(h.old)
                                           THEN [did |-> h.new] ELSE owner[p]]
           /\ Goto(s, [h EXCEPT !.step = "persona"])
    /\ UNCHANGED <<regional, pref, link>>

\* The second update sets the did of the persona that was looked up.
MovePersona(s) ==
    /\ handler[s].step = "persona"
    /\ LET h == handler[s]
       IN  /\ h.new \in wallets
           /\ owner' = IF Exists(h.persona)
                       THEN [owner EXCEPT ![h.persona] = [did |-> h.new]]
                       ELSE owner
    /\ Reply(s)
    /\ UNCHANGED <<wallets, regional, pref, link>>

\* The new did has a wallet already, or an update fails: 500, and what the
\* first update did stays.
MigrationFails(s) ==
    /\ \/ handler[s].step = "wallet"
             /\ (MayFail \/ NewTaken(handler[s]))
       \/ handler[s].step = "persona"
             /\ (MayFail \/ handler[s].new \notin wallets)
    /\ Reply(s)
    /\ UNCHANGED <<wallets, owner, regional, pref, link>>

-----------------------------------------------------------------------------
(* The preferences *)

\* getNotificationPreferences looks for the wallet's row.
\* Mutant: the row is created without a look.
RegisterUnseen(s) ==
    /\ handler[s] = Idle
    /\ \E d \in Dids, t \in Tokens :
          Goto(s, [step |-> "create", row |-> [did |-> d, token |-> t]])
    /\ UNCHANGED <<wallets, owner, regional, pref, link>>

GetPreferences(s) ==
    /\ handler[s] = Idle
    /\ \E d \in Dids, t \in Tokens :
          \/ /\ PrefsOf(d) = {}
             /\ Goto(s, [step |-> "create", row |-> [did |-> d, token |-> t]])
          \/ \E i \in PrefsOf(d) :
                Goto(s, [step |-> "token", pref |-> i, token |-> t])
    /\ UNCHANGED <<wallets, owner, regional, pref, link>>

CreatePreference(s) ==
    /\ handler[s].step = "create"
    /\ \E i \in Prefs :
          pref[i] = NoRow /\ pref' = [pref EXCEPT ![i] = handler[s].row]
    /\ Reply(s)
    /\ UNCHANGED <<wallets, owner, regional, link>>

UpdateToken(s) ==
    /\ handler[s].step = "token"
    /\ pref' = [pref EXCEPT ![handler[s].pref].token = handler[s].token]
    /\ Reply(s)
    /\ UNCHANGED <<wallets, owner, regional, link>>

\* updateNotificationPreferences, in one transaction; of its columns the
\* token is the one a push depends on, and may be set to nothing.
UpdatePreferences(s) ==
    /\ handler[s] = Idle
    /\ \E d \in Dids, t \in Tokens \cup {NoToken} : \E i \in PrefsOf(d) :
          pref' = [pref EXCEPT ![i].token = t]
    /\ UNCHANGED <<wallets, owner, regional, link, handler>>

\* getPersonaNotificationPreferences: the persona has no row, and the did of
\* the request has one to link it to.
\* Mutant: it does not look whether there is one.
LinkUnseen(s) ==
    /\ handler[s] = Idle
    /\ \E p \in Personas, d \in Dids : \E i \in PrefsOf(d) :
          Goto(s, [step |-> "link",
                   row |-> [persona |-> p, pref |-> i, on |-> TRUE]])
    /\ UNCHANGED <<wallets, owner, regional, pref, link>>

GetPersonaPreferences(s) ==
    /\ handler[s] = Idle
    /\ \E p \in Personas, d \in Dids : \E i \in PrefsOf(d) :
          /\ LinksOf(p) = {}
          /\ Goto(s, [step |-> "link",
                      row |-> [persona |-> p, pref |-> i, on |-> TRUE]])
    /\ UNCHANGED <<wallets, owner, regional, pref, link>>

\* Mutant: the row does not say whether it is enabled.
CreateLinkBare(s) ==
    /\ handler[s].step = "link"
    /\ \E l \in Links :
          /\ link[l] = NoRow
          /\ link' = [link EXCEPT ![l] = [persona |-> handler[s].row.persona,
                                          pref |-> handler[s].row.pref]]
    /\ Reply(s)
    /\ UNCHANGED <<wallets, owner, regional, pref>>

CreateLink(s) ==
    /\ handler[s].step = "link"
    /\ \E l \in Links :
          link[l] = NoRow /\ link' = [link EXCEPT ![l] = handler[s].row]
    /\ Reply(s)
    /\ UNCHANGED <<wallets, owner, regional, pref>>

\* A statement of one of these handlers fails: 500.
PreferenceFails(s) ==
    /\ handler[s].step \in {"create", "token", "link"}
    /\ \/ MayFail
       \/ handler[s].step = "create" /\ \A i \in Prefs : pref[i] # NoRow   \* bound
       \/ handler[s].step = "link" /\ \A l \in Links : link[l] # NoRow     \* bound
    /\ Reply(s)
    /\ UNCHANGED <<wallets, owner, regional, pref, link>>

\* updatePersonaNotificationPreferences.
\* Mutant: it does not wait for the handler that is running.
UpdateLinkUnlocked(s) ==
    /\ \E l \in Links, on \in BOOLEAN :
          link[l] # NoRow /\ link' = [link EXCEPT ![l].on = on]
    /\ UNCHANGED <<wallets, owner, regional, pref, handler>>

UpdatePersonaPreferences(s) ==
    /\ handler[s] = Idle
    /\ \E l \in Links, on \in BOOLEAN :
          link[l] # NoRow /\ link' = [link EXCEPT ![l].on = on]
    /\ UNCHANGED <<wallets, owner, regional, pref, handler>>

-----------------------------------------------------------------------------
(* transferPersona *)

\* The persona's link as it will be saved: relinked to the preference of the
\* target, when there are both.
\* Mutant: the preference is looked for by the did the persona had.
RelinkedToOldOwner(p, target) ==
    {[id |-> l, row |-> [link[l] EXCEPT !.pref = i]] :
        l \in LinksOf(p), i \in PrefsOf(owner[p].did)}

Relinked(p, target) ==
    {[id |-> l, row |-> [link[l] EXCEPT !.pref = i]] :
        l \in LinksOf(p), i \in PrefsOf(target)}

\* The wallets and the persona are there, the persona belongs to the caller,
\* and the transfer code is long enough.
TransferPersona(s) ==
    /\ handler[s] = Idle
    /\ \E p \in Personas, target \in wallets :
          /\ Exists(p)
          /\ \E copies \in IF Relinked(p, target) = {} THEN {{}}
                           ELSE {{x} : x \in Relinked(p, target)} :
                Goto(s, [step |-> "transfer", persona |-> p,
                         target |-> target, copies |-> copies])
    /\ UNCHANGED <<wallets, owner, regional, pref, link>>

\* Both updates are committed; Save writes every column of the link.
CommitTransfer(s) ==
    /\ handler[s].step = "transfer"
    /\ LET h == handler[s]
       IN  /\ h.target \in wallets
           /\ owner' = IF Exists(h.persona)
                       THEN [owner EXCEPT ![h.persona] = [did |-> h.target]]
                       ELSE owner
           /\ link' = [l \in Links |->
                 IF \E x \in h.copies : x.id = l
                 THEN (CHOOSE x \in h.copies : x.id = l).row ELSE link[l]]
    /\ Reply(s)
    /\ UNCHANGED <<wallets, regional, pref>>

TransferFails(s) ==
    /\ handler[s].step = "transfer"
    /\ MayFail \/ handler[s].target \notin wallets
    /\ Reply(s)
    /\ UNCHANGED <<wallets, owner, regional, pref, link>>

-----------------------------------------------------------------------------
\* The process dies: what was not committed is rolled back.
Crash(s) ==
    /\ MayFail
    /\ handler[s] # Idle
    /\ Reply(s)
    /\ UNCHANGED <<wallets, owner, regional, pref, link>>

\* The requests that make, move or delete wallets and personas.
ServeOwners(s) ==
    \/ CreateWallet(s) \/ CreatePersona(s) \/ UpdatePersona(s)
    \/ DeletePersona(s)
    \/ DeleteWallet(s) \/ RemoveWallet(s) \/ RemoveWalletFails(s)
    \/ MigrateWallet(s) \/ MoveWallet(s) \/ MovePersona(s)
    \/ MigrationFails(s)

\* Those that write preferences.
ServePreferences(s) ==
    \/ GetPreferences(s) \/ CreatePreference(s) \/ UpdateToken(s)
    \/ UpdatePreferences(s)
    \/ GetPersonaPreferences(s) \/ CreateLink(s) \/ PreferenceFails(s)
    \/ UpdatePersonaPreferences(s)
    \/ TransferPersona(s) \/ CommitTransfer(s) \/ TransferFails(s)

Next ==
    \/ \E s \in Servers : ServeOwners(s) \/ ServePreferences(s) \/ Crash(s)
    \/ AddRegion

Spec == Init /\ [][Next]_vars

-----------------------------------------------------------------------------
\* Every persona belongs to a wallet that is there, also between the two
\* updates of a migration and after one that failed half-way
\* (wallet.go:136-151 runs outside a transaction).
OwnersHaveWallets == \A p \in Personas : Exists(p) => owner[p].did \in wallets

\* A migration moves the personas of the wallet it renames and no other: its
\* second update, by the id of a persona read some statements earlier, never
\* takes a persona out of another wallet (wallet.go:106-147).
MigrationMovesItsOwn ==
    [][\A s \in Servers, p \in Personas :
          (handler[s].step \in {"wallet", "persona"} /\ Exists(p)
             /\ owner'[p] # owner[p])
          => /\ owner[p].did = handler[s].old
             /\ owner'[p] = [did |-> handler[s].new]]_vars

\* A wallet has one preference: the token a device registers is the one the
\* pushes of its personas are sent to (the look-up and the insertion of
\* notification.go:48-83 are two statements).
OnePreferencePerWallet == \A d \in Dids : Cardinality(PrefsOf(d)) <= 1

\* A persona has one link, so that which of them SendPersonaNotification
\* finds is not a matter of chance (notification.go:202-287).
OneLinkPerPersona == \A p \in Personas : Cardinality(LinksOf(p)) <= 1

\* A persona's settings change only by the request that changes them: a
\* transfer, which saves the whole row it has read, writes them back as they
\* are in the table (wallet.go:466-477).
SettingsChangeAlone ==
    [][\A l \in Links :
          (link[l] # NoRow /\ link'[l].on # link[l].on)
          => UNCHANGED <<owner, handler>>]_vars

\* A transfer never leaves the pushes of a persona with the wallet it was taken
\* from when its new wallet has registered a preference: the link leads there
\* ("when there are notification settings, connect them to the new Wallet's
\* NotificationPreference", wallet.go:469, looked for at 455-471).
LinkFollowsTransfer ==
    [][\A s \in Servers :
          (handler[s].step = "transfer" /\ owner' # owner
             /\ PrefsOf(handler[s].target) # {})
          => \A l \in LinksOf(handler[s].persona) :
                pref[link'[l].pref].did = handler[s].target]_vars

\* On one server every request happens at one moment, though its handler reads
\* and writes in several statements, none of them locked and few of them in a
\* transaction: a token that is registered, a link that is made, a transfer and
\* a migration (notification.go:48-83, 202-287, wallet.go:106-151, 437-477).
Atomic == INSTANCE AtomicAccounts
AtomicSpec == Atomic!Spec
====================================================================================
