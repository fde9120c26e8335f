----------------------------- MODULE AtomicAccounts -----------------------------
(***************************************************************************)
(* What the handlers of Accounts promise those who call them: a request    *)
(* happens at one moment, against the rows as they are then, or not at     *)
(* all.  There are no handlers here and nothing is read before it is used. *)
(* A migration, two updates outside a transaction, is one step too.        *)
(***************************************************************************)
CONSTANTS Dids, Legacy, Personas, Prefs, Links, Tokens, NoToken

VARIABLES wallets, owner, regional, pref, link

tables == <<wallets, owner, regional, pref, link>>

Unborn == [row |-> "unborn"]
Gone == [row |-> "gone"]
NoRow == [row |-> "none"]

Init ==
    /\ wallets = {}
    /\ owner = [p \in Personas |-> Unborn]
    /\ regional = {}
    /\ pref = [i \in Prefs |-> NoRow]
    /\ link = [l \in Links |-> NoRow]

Exists(p) == owner[p] \notin {Unborn, Gone}
PersonasOf(d) == {p \in Personas : Exists(p) /\ owner[p].did = d}
PrefsOf(d) == {i \in Prefs : pref[i] # NoRow /\ pref[i].did = d}
LinksOf(p) == {l \in Links : link[l] # NoRow /\ link[l].persona = p}

-----------------------------------------------------------------------------
CreateWallet ==
    /\ \E d \in Dids \ wallets : wallets' = wallets \cup {d}
    /\ UNCHANGED <<owner, regional, pref, link>>

\* A new persona, or one that updatePersona gives another did.
PlacePersona ==
    /\ \E p \in Personas, d \in wallets :
          owner[p] # Gone /\ owner' = [owner EXCEPT ![p] = [did |-> d]]
    /\ UNCHANGED <<wallets, regional, pref, link>>

AddRegion ==
    /\ \E p \in Personas : Exists(p) /\ regional' = regional \cup {p}
    /\ UNCHANGED <<wallets, owner, pref, link>>

DeletePersona ==
    /\ \E p \in Personas \ regional :
          Exists(p) /\ owner' = [owner EXCEPT ![p] = Gone]
    /\ UNCHANGED <<wallets, regional, pref, link>>

DeleteWallet ==
    /\ \E d \in wallets :
          /\ PersonasOf(d) \cap regional = {}
          /\ wallets' = wallets \ {d}
          /\ owner' = [p \in Personas |->
                          IF p \in PersonasOf(d) THEN Gone ELSE owner[p]]
    /\ UNCHANGED <<regional, pref, link>>

\* The wallet gets its new did, and every persona of it.
MigrateWallet ==
    /\ \E old \in Legacy \cap wallets, new \in Dids :
          /\ PersonasOf(old) # {}
          /\ new \notin wallets \ {old}
          /\ wallets' = (wallets \ {old}) \cup {new}
          /\ owner' = [p \in Personas |->
                          IF p \in PersonasOf(old) THEN [did |-> new] ELSE owner[p]]
    /\ UNCHANGED <<regional, pref, link>>

\* A device registers its token: a row is made if the wallet has none.
RegisterToken ==
    /\ \E d \in Dids, t \in Tokens :
          \/ /\ PrefsOf(d) = {}
             /\ \E i \in Prefs : /\ pref[i] = NoRow
                                 /\ pref' = [pref EXCEPT ![i] = [did |-> d, token |-> t]]
          \/ \E i \in PrefsOf(d) : pref' = [pref EXCEPT ![i].token = t]
    /\ UNCHANGED <<wallets, owner, regional, link>>

UpdatePreferences ==
    /\ \E i \in Prefs, t \in Tokens \cup {NoToken} :
          pref[i] # NoRow /\ pref' = [pref EXCEPT ![i].token = t]
    /\ UNCHANGED <<wallets, owner, regional, link>>

\* A persona without a link gets one.
LinkPersona ==
    /\ \E p \in Personas, i \in Prefs, l \in Links :
          /\ LinksOf(p) = {}
          /\ pref[i] # NoRow
          /\ link[l] = NoRow
          /\ link' = [link EXCEPT ![l] = [persona |-> p, pref |-> i, on |-> TRUE]]
    /\ UNCHANGED <<wallets, owner, regional, pref>>

UpdateSettings ==
    /\ \E l \in Links, on \in BOOLEAN :
          link[l] # NoRow /\ link' = [link EXCEPT ![l].on = on]
    /\ UNCHANGED <<wallets, owner, regional, pref>>

\* The persona changes hands and its link, settings untouched, is led to the
\* preference its new wallet has at that moment, if it has one.
TransferPersona ==
    /\ \E p \in Personas, target \in wallets :
          /\ Exists(p)
          /\ owner' = [owner EXCEPT ![p] = [did |-> target]]
          /\ \/ /\ LinksOf(p) = {} \/ PrefsOf(target) = {}
                /\ UNCHANGED link
             \/ \E l \in LinksOf(p), i \in PrefsOf(target) :
                   link' = [link EXCEPT ![l].pref = i]
    /\ UNCHANGED <<wallets, regional, pref>>

Next ==
    \/ CreateWallet \/ PlacePersona \/ AddRegion \/ DeletePersona
    \/ DeleteWallet \/ MigrateWallet
    \/ RegisterToken \/ UpdatePreferences \/ LinkPersona \/ UpdateSettings
    \/ TransferPersona

Spec == Init /\ [][Next]_tables
=============================================================================
