# Verification of fiber-blueprint

TLA+ models of the server in this repository (Go, fiber v3, gorm, PostgreSQL,
Firebase), the TLC configurations that check them on small instances, and
theorems that TLAPS checks for every value of the constants: about the gate and
its pool, the obfuscation, and every module of the database handlers. Paths are
relative to the root of the repository.

1. [The system](#the-system)
2. [The modules](#the-modules)
3. [The runs](#the-runs)
4. [Fairness](#fairness)
5. [What is proved](#what-is-proved)
6. [Assumptions](#assumptions)
7. [Where the code and its comments disagree](#where-the-code-and-its-comments-disagree)
8. [What is not modelled](#what-is-not-modelled)
9. [The plan](#the-plan)
10. [Running](#running)

## The system

One process serves HTTP requests, a goroutine per request; every endpoint sits
behind one middleware. Handlers work on two gorm pools, one for the API and one
for chat, of PostgreSQL databases that several processes may share. Some
handlers leave goroutines behind that outlive their response.

| component | source | state | operations |
|---|---|---|---|
| request gate | `routes/middleware/authority/admin.auth.go` | `blacklist`, `failedCounts` (maps in memory), the mutex `mu` | `ValidatePepper`, `checkPepper` |
| obfuscation | `.../obfuscation.go` | none | nine ways to scramble and decode a pepper |
| authority | `.../persona.auth.go`, `utils.auth.go` | `persona_member` (read) | `ValidateMember`, `ValidateOwnerByDid` |
| chat rooms | `routes/chat.go` | `chat_room`, `chat_room_preference` | create, find or create a direct room, delete, participants, settings |
| chat messages | `routes/chat.go` | `message`, `chat_room.last_message_id` | `createMessage`, `getChatRoomMessages`, cleanup goroutine |
| subscriptions | `routes/persona_subscribe.go` | `persona_subscriber` | create, update, set status, cancel |
| wallets, personas | `routes/wallet.go`, `routes/persona.go` | `wallet`, `persona` | create, update, delete, migrate, transfer |
| notification preferences | `routes/notification.go` | `notification_preference`, `persona_notification_preference` | find or create, update; a transfer relinks |
| notification sending | `utils/notification.go`, `utils/firebase.go` | `persona_notification`, push goroutines | `SendPersonaNotification`, called by `createMessage` and `sendNotification` |
| profiles, media | `routes/persona_profile.go`, `routes/persona_background_media.go` | `persona_profile`, `persona_background_media` | create, update, delete |
| posts, feed | `routes/post.go`, `routes/home_feed.go` | `post` | read, update, delete |
| admins | `routes/admin.go` | `admin` | list, create |
| configuration, pools | `config/`, `main.go`, `routes/connection.go` | two pools of connections | read at start-up, status; every statement takes a connection |
| routes, models | `routes/routes.go`, `model/`, `helper/` | none | tables of routes, structs, templates |

How they interact:

- **Gate and handlers.** `ValidatePepper` unlocks with a `defer`, and calls the
  rest of the chain with `c.Next()`. So the mutex is held while the handler
  runs: a process runs one handler at a time. No handler says that it needs
  this, and nearly all of them do, because they look and then act.
- **Handlers and goroutines.** The notifications of `createMessage` and the
  cleanup of `getChatRoomMessages` run after their handler gave the mutex back,
  beside any other handler.
- **Handlers and database.** Some handlers use a transaction and some do not;
  some read a row and save it whole some statements later. Foreign keys cascade
  (and one restricts); the tables of preferences and subscriptions have no
  unique index to fall back on.
- **Handlers and pool.** Some handlers call `ValidateMember` inside a
  transaction; it queries the pool and not the transaction, so they wait for a
  second connection with one in hand, and with the mutex.
- **Several processes.** Nothing in the code keeps a second process from using
  the same database; the mutex is then no help.

What makes it hard, and what has to be right, component by component (each
hazard is listed at its line in `PROJECT.json`):

- *Gate.* One handler at a time; a verdict on a client still stands while it is
  acted upon; a block ends with a clean record; nobody waits for ever. The maps
  are changed in several places, and the clock and restarts change them too.
- *Pool.* A handler that waits for a connection keeps the mutex, and the wait has
  no timeout: nobody may wait while all connections are held by others who wait.
- *Obfuscation.* What a client scrambles decodes to its pepper, and no method
  number reaches past the table of methods.
- *Rooms.* A room comes with all its participants or not at all, whatever fails;
  a direct room is not created twice.
- *Messages.* A message waits for each receiver until a fetch of its own takes it
  and goes to nobody twice; nothing is deleted before all have taken it, and
  nothing read is kept; `last_message_id` never goes back. Lists are read in one
  statement and written whole in another, and the fetch commits before it
  answers: in between, a message can be lost.
- *Subscriptions.* One per pair; a cancelled one stays cancelled although
  `Save` inserts a row that is missing; a status is not overwritten by the copy
  an update has read.
- *Wallets and personas.* Each persona has a wallet that exists, also in the
  middle of a migration, which is two updates outside a transaction; a
  migration moves the personas of its own wallet only.
- *Preferences.* One row per wallet and persona though they are looked up and
  created in two statements; a transfer leads the pushes of a persona to its
  new wallet and changes none of its settings.
- *Sending.* A push goes to a device the persona wanted it on; what is pushed is
  in the table if its type is kept; one receiver costs no other its push. Quiet
  hours hold around the clock, over midnight too.
- *Profiles, media, posts.* The type of a persona, the caller's role or did, and
  the rows are read in statements before the write. Nobody changes what it
  could at no moment since its request began; a profile, media or post that was
  deleted does not come back (the persona can: see the disagreements); an answer
  of success is about a row that is there.

## The modules

| module | models | kind |
|---|---|---|
| `LockoutPolicy` | what the gate promises to clients, decisions in one step | abstract |
| `PepperGate` | `admin.auth.go` 20–108, one action per step of a request | EXTENDS `Obfuscation` |
| `PooledGate` | the gate whose handlers work through the API pool (`api_db.go`, `persona.auth.go`) | EXTENDS `PepperGate`, implements it |
| `PepperGateProofs` | theorems about both | proofs |
| `Obfuscation`, `ObfuscationProofs` | the nine methods of `obfuscation.go`, as relations, and what undoes what | operators |
| `ChatRooms`, `ChatRoomsProofs` | the room handlers of `chat.go`, one action per statement | |
| `Mailbox` | what chat promises to receivers | abstract |
| `ChatMessages`, `ChatMessagesProofs` | `createMessage`, `getChatRoomMessages`, cleanup goroutines | implements `Mailbox` |
| `Subscriptions`, `SubscriptionsProofs` | `persona_subscribe.go`, `Save` included | |
| `AtomicAccounts` | what those handlers promise: each request at one moment or not at all | abstract |
| `Accounts`, `AccountsProofs` | `wallet.go`, `persona.go`, the preference handlers of `notification.go` | implements `AtomicAccounts` |
| `QuietHours` | quiet hours, exceptions and switches of types in `utils/notification.go` | operators |
| `Notifications` | `SendPersonaNotification`, its callers and push goroutines, beside the handlers of `Accounts` | EXTENDS `Accounts` |
| `NotificationsProofs` | theorems about `Notifications` (those of `AccountsProofs` carried over) and `QuietHours` | proofs |
| `Pages`, `PagesProofs` | profiles, background media, posts and who may change them | |
| `MC*` | instances for TLC: symmetry, and the strings and times that are enumerated | |

`map` in `PROJECT.json` names the lines of every definition. The conventions
are the same in all modules:

- *A step* is what nothing else can come in between: in `PepperGate` a statement
  on shared memory, elsewhere one database statement that writes together with
  the reads that lead up to it, or the commit of a transaction. Reads that
  matter to a later write are steps of their own, and what they have read is
  kept in the handler's record (`handler[s]`), where it can become stale.
- *Servers.* `handler` maps each server process to the one handler it runs, or
  `Idle`. That there is one is `HandlersExclusive`, checked and proved of
  `PepperGate`; the database modules take it over. With several servers the
  handlers of different ones interleave at every step.
- *Failures.* Each statement has an action for its failure, which does what the
  code does then (roll back, answer 500, or ignore it, as the code is). `Crash`
  ends a process with its handler and its goroutines; what was committed stays.
- *Requests that change nothing* are left out, and so is the wording of
  responses. Where a response is a promise (`ReaderRemoved`), the step that
  answers 200 is an action of its own.
- *Ids* are model values. A row that is gone is told from one that never was
  where code can tell them apart or bring it back.

Gate: the expiry time in `blacklist` is modelled as the time left, counted down
by `Tick`; 0 is an entry that has expired and is still in the map, which the
code removes at the client's next request. A missing count is 0. The header of a
request is kept as a string of characters and compared, or decoded by
`Obfuscation`, when the gate checks it. Strings are ASCII: the code measures
some of them in bytes and cuts them by characters, which is the same for these.

Pool: the handler of a request is between statements, asking for a connection,
holding one, asking for its second, holding both, or past its check. A handler
runs up to `MaxStatements` statements or transactions; it may leave goroutines
behind (`job`), which take one connection at a time. That a handler returns is an
assumption of `PepperGate` and a result here.

Rooms: participants inserted by a transaction are collected in `rows` until
`CommitRoom` shows them with the room. A lookup that fails is taken by the code
for "no room"; it leads to the same creation, marked `blind`. `others` is the
request's `persona_ids` without the creator.

Messages: `receiver_ids` is NULL or a list; `read` holds the lists a fetch has
read. gorm renders an empty Go slice as `(NULL)` and a longer one as a row of
values, which PostgreSQL refuses for a `text[]` column: `BindsSlices` says
whether the driver accepts it (it does not, see the findings), and
`BuffersReused` whether the bytes of `c.Params` are reused after the handler
returned (they are, by default). Both are constants so that what holds in
either case can be told from what hangs on them. A fetch that commits
(`CommitLists`) takes its reader out of the lists; the answer is a step of its own
(`AnswerMessages`), and a crash, a lost connection (`AnswerLost`) or a commit that
is reported as failed (`CommitUnreported`) comes before it. `sent`, `taken` (a fetch
in the reader's name has committed) and `fetched` (it was answered) are history;
with them `MailboxSpec` maps the table to `Mailbox`: a message waits for each of
those it was sent to until a fetch of its own takes it, and is kept until all have
taken it. Whoever has taken it may get it, on one server (`Exactly`) once at most,
and on several perhaps again; that it gets it nothing promises when something
fails. The goroutine of a fetch keeps its room as long as its handler has not
returned (`returned`).

Subscriptions: `nested` marks the call of `updateSubscription` that
`createSubscription` makes and whose result it drops. `SaveRow` writes all
columns of the copy that was read, and inserts the row if it is gone.

Accounts: `owner` is the did column of `persona`; the two updates of a migration
are `MoveWallet`, which cascades to the personas, and `MovePersona`. A did is
a legacy did if it is shorter than seven bytes, the only ones that migrate.
`regional` are organizations with rows in a table whose foreign key restricts
deletion; this repository never writes it. A transfer reads the persona's link,
and `CommitTransfer` saves it whole. `on` stands for `is_enabled`, the quiet
hours and the settings by type. `AtomicAccounts` has the same tables and no handlers:
there a migration, a token that is registered or a transfer is one step, against
the rows of that moment. No refinement mapping is needed, as the tables are the
same; what has to be shown is that every step of a handler but one is a stutter.
Posts are not here: on another server the update of a post can insert a persona
again that was deleted (`Pages`), with a wallet the foreign key asks for, and
without it the update fails.

Quiet hours: a time of day is the string "15:04", compared byte by byte as the
code does. The theorems are about strings of that form; another one a client
stores is compared in the same way, with whatever outcome.

Notifications: a notice is one call, for one persona or for the receivers of a
message. `receiver_ids` is the list of the request body, and nothing keeps it from
naming a persona twice: a receiver is a persona with its place in the list
(`Receivers`), and a persona with two places is notified twice, as in the code. The
receivers are served in the order of the list (`Turn`). A notice's link, its preference and its token are read in different
statements, while `ServePreferences` of `Accounts` goes on. Wallets and personas
are there from the start: a call reads neither table. `led` remembers where links
that were switched on have led since the notice began, `missed` who was left
out by an error or a crash. `Serving` is the handlers as `Accounts` knows them,
with those that send a notification idle; `Undisturbed` is `Accounts` with it, and
`AccountsUndisturbed` that the composition takes its steps only.
`createMessage` is one step here, and so is the choice of
receivers: its own steps are those of `ChatMessages`.

Pages: `updatePost` keeps the owner that `Preload` has read (`PreloadOwner`), and
gorm saves it before the post: it inserts the persona where it is gone, leaves it
as it is where it is there, and writes `owner_id` (`SaveWithOwner`). So a persona
that was deleted can come back, with another type than a request has read
meanwhile; a persona that was gone when its type was read passes for a personal
one, in the code and in `ChangesPermitted`. Every request runs on a server of its own, so that its statements
interleave with those of all others; requests of one server are a special case.
One persona is enough, since no handler relates two but by membership. Contents
are left out; an answer tells whether a row was written (`wrote`) and of what
kind it was (`ok`). `seen` is history: what a request could have been allowed by at
some moment since it began. A body that renames keys (a uuid, a persona id) is
left out. The dump has no `persona_background_media`; the table is taken as its
struct declares it, without a foreign key.

## The runs

| run | cfg | shows | states |
|---|---|---|---|
| `gate` | `MCPooledGate` | one handler at a time; verdicts stand; counts start again; implements `LockoutPolicy`; nobody waits for connections held by those who wait; every handler returns (implements `PepperGate` with its fairness) and every request is answered | 9,546 |
| `rooms` | `MCChatRooms` | rooms appear whole; direct rooms only where there is none | 9,702 |
| `messages` | `MCChatMessages` | nobody leaves a list but by a fetch of its own, nobody is served twice, no early deletion, `last_message_id` only advances, the mailbox, with everything that can fail failing | 399,248 |
| `messages_cleanup` | `MCChatMessagesFair` | a message everyone has read is removed in the end, and whoever takes a message is answered with it, when nothing fails and parameters stay valid | 171,424 |
| `messages_reused` | `MCChatMessagesReused` | **violated:** not so with fiber's parameter strings | |
| `messages_group` | `MCChatMessagesGroup` | **violated:** a reader cannot be taken out of a list that others are in | |
| `subscriptions` | `MCSubscriptions` | cancelled stays cancelled; a status changes by its own request only | 81,348 |
| `subscriptions_pair` | `MCSubscriptionsPair` | **violated:** subscribing again inserts a second row | |
| `accounts` | `MCAccounts` | personas have wallets; migrations move their own; preferences are unique; requests are atomic (implements `AtomicAccounts`); links follow transfers | 473,176 |
| `notifications` | `MCNotifications` | pushes go where they were wanted, once for each entry of the list, with a row if kept; no receiver costs another its push | 481,248 |
| `pages` | `MCPages` | changes are permitted; a deleted profile, media or post stays deleted; profiles have personas; answers of success are about rows that are there | 1,772,006 |
| `pages_revived` | `MCPagesRevived` | **violated:** a deleted persona comes back with the update of its post | |

Every property of a passing run has a mutant in `PROJECT.json`: a change of one
definition, of the kind a slip in that code would make, under which TLC finds
the property violated. The mutated forms stand beside the originals, marked
*Mutant*.

Three assumptions of the instances check operators against a reference over
bounded inputs, without states: `QuietHoursAgree` (run `notifications`) compares
the string comparison with a distance around the clock, and `MethodsUndoEncoding`
(run `gate`) decodes what each method encodes, and `MethodCollects` compares the
fifth, which is stated by the places it keeps, with collecting them one by one.

Bounds, and why they are enough:

- *gate:* two requests and two clients: a hazard here is one request of a client
  (or of another one) coming between two steps of another request, and the
  proofs lift all safety properties to any number. `MaxFailures` is 3 as in the
  code; `BlockTime` 2 lets a block be seen running, running down and expired. Two
  connections and one goroutine left behind: a handler with one in hand can find
  none. `TwoConnectionsSuffice` has no bounds.
- *rooms:* two rooms, so that a pair can get a second one; three personas, so
  that direct rooms become groups and groups direct rooms by adding and
  removing participants. `MaxInvited = 2` is the length of `persona_ids`; it
  admits a duplicate, which makes the second insert fail.
- *messages:* two messages, so that one can come between the two updates of the
  other; two rooms, so that a goroutine can look in the wrong one; two personas,
  a reader and one that still waits. Several servers are left to the theorems.
- *subscriptions:* two personas and three rows: a second row of a pair, and one
  in the other direction.
- *accounts:* one legacy did and two others: the target of a migration can be
  free, taken, or get taken. Two rows of each kind of preference, for a second
  row of the same wallet or persona. A full table makes an insertion fail
  (marked *bound* in the guards).
- *notifications:* one notice with a list of up to two receivers (`MaxReceivers`),
  both perhaps the same persona, beside one handler; two wallets, each with its
  own preference. Of two personas the second receiver never has a link
  while the first has one (`Links = {k}`), and that is the case of interest: one
  can be notified, the other cannot, in either order.
- *pages:* three requests: one that reads, one that changes what it read, and a
  third one in between. One member whose role changes at any moment, two dids
  so that the persona can be given away, two profiles so that another one can
  take the place of the first, one media row and one post. `pages_revived` needs two
  requests.

Most runs have one server: with several, looking and then acting fails where
no index helps (see `HandlersExclusive`), and this is what the runs with one
server are to tell from what holds anyway. Where nothing but its own goroutines
can come between two statements of a handler (the preferences, the direct rooms,
the subscriptions), such a run shows what the handler does by itself, and not a
race: the race is what the mutex excludes. For several servers the messages
are proved rather than run: `LeavesOnlyByFetch`, `DeletedAfterTaking` and `MailboxKept`
say that even then a message waits for each receiver until a fetch of its own takes
it, and is kept until everyone has taken it. That it is got at most once, and that
`last_message_id` only advances, needs the gate. An id that comes again is left
out there (`IdsStay`): with two servers one can be stored again while another
handler still works on the deleted message. `pages` interleaves
the statements of all its requests, and what it checks needs no gate. Many
theorems below hold for any number of servers; they say so. Every run checks for
deadlock as well.

## Fairness

- *Gate.* Strong fairness of taking the mutex: `sync.Mutex` turns to handing the
  lock to its longest waiter once one has waited for a millisecond. Weak
  fairness of the steps inside, which the Go scheduler gives. `PepperGate` alone
  assumes that handlers return; the run does not. It assumes that the database
  answers a statement that has its connection (weak fairness of `Works` and
  `JobGivesBack`), and that the pool passes nobody over for ever (strong fairness
  of taking a connection: `database/sql` hands one that comes back to one of
  those who wait, picked at random). `ImplementsGate` then shows that handlers
  return, and `EveryRequestAnswered` that requests are answered. With a return
  that keeps its connection or skips the unlock they fail.
- *Messages.* Weak fairness of a handler that has started and of each cleanup
  goroutine: the scheduler runs what can run, and the database answers. Nothing
  is assumed about which requests arrive.
- *Notifications.* The same for a call that was made and for each push
  goroutine; the database and Firebase answer, if only with an error.

Everything else is safety and is checked without fairness.

## What is proved

Each `*Proofs` module is for any values of the constants that satisfy the named
assumption of its module (sentinels outside the sets they are told from, bounds
that are natural numbers). "One server" is `OneServer`: the theorem assumes that
at most one process uses the database, whose handlers the gate serialises.

| module | theorem | statement | servers |
|---|---|---|---|
| `PepperGateProofs` | `TypeCorrect`, `Exclusion`, `VerdictStands`, `CountsStartAgain` | `TypeOK`, `HandlersExclusive`, `NoListedClientInside`, `ListedHasNoCount` always hold | each |
| | `Refinement` | `Spec => PolicySpec`: the gate implements `LockoutPolicy` | each |
| | `PooledIsGate` | `PooledSpec => Spec`: with a pool it takes no other steps | each |
| | `PooledTypeCorrect`, `TwoConnectionsSuffice` | `PooledTypeOK`, `NoStandstill` always hold | each |
| `ObfuscationProofs` | `OneOutcome` | a method decodes a string to one pepper | |
| | `RoundTrip`, `ScrambledAccepted` | what a client scrambles is decoded to its pepper, and accepted, for each of the nine methods and strings of any length | |
| | `IndexInRange` | a number that is let through names a method | |
| `ChatRoomsProofs` | `TypeCorrect`, `RoomsWhole` | `TypeOK`, `RoomsAppearWhole` | any |
| | `LookupHolds` | `CreatesOnlyIfAbsent` | one |
| `ChatMessagesProofs` | `TypeCorrect` | `TypeOK` | any |
| | `LeavesOnlyByFetch`, `DeletedAfterTaking` | `LeavesByOwnFetch`, `DeletedWhenTaken` | any, if no id comes again or there is one server |
| | `ReadOnlyOnce`, `LastAdvances` | `ReadOnce`, `LastOnlyAdvances` | one |
| | `MailboxKept` | `MailboxSpec` | finitely many, as for `LeavesOnlyByFetch` |
| | `CleanupComes` | a message everyone has read has a goroutine on its way that removes it, where nothing fails and parameters stay valid | any, if no id comes again |
| `SubscriptionsProofs` | `TypeCorrect` | `TypeOK` | any |
| | `CancelledForGood`, `StatusesStand` | `CancelledStaysCancelled`, `StatusChangesAlone` | one |
| `AccountsProofs` | `TypeCorrect`, `WalletsStay` | `TypeOK`, `OwnersHaveWallets` | any |
| | `OneToken`, `OnePlace` | `OnePreferencePerWallet`, `OneLinkPerPersona` | one |
| | `MigrationIsLocal`, `SettingsAreTheirOwn`, `LinkFollows` | `MigrationMovesItsOwn`, `SettingsChangeAlone`, `LinkFollowsTransfer` | one |
| | `RequestsAtomic` | `AtomicSpec`: the handlers implement `AtomicAccounts` | one |
| `NotificationsProofs` | `NoticesTypeCorrect`, `PushedOnce`, `KeptIsStored` | `NoticesTypeOK`, `OnePushEach`, `PushedIsStored` | any |
| | `PushesWanted` | `PushWasWanted` | one |
| | `WantedAnywhere` | what is not stored first goes where it was wanted; of the rest the place was wanted | any |
| | `NobodyDropped` | a call is done with a receiver when its push is under way or a reason of its own stands against it | any |
| | `AccountsStepsOnly` | `AccountsUndisturbed` | any |
| | `OneRowToFind`, `LinkFollowsBeside` | `OneLinkPerPersona` and `OnePreferencePerWallet`, `LinkFollowsTransfer`, beside notices | one |
| | `RequestsAtomicBeside` | the tables change by steps of `AtomicAccounts`, beside notices | one |
| | `TimesCompareAsStrings` | times compare as their strings do | |
| | `QuietAroundTheClock`, `OnlyExceptionsDisturb` | quiet hours are an interval of the clock; only exceptions disturb them | |
| `PagesProofs` | `PagesTypeCorrect`, `ProfilesBelong`, `DeletedForGood` | `PagesTypeOK`, `ProfilesHavePersonas`, `DeletedStays` | any |
| | `ChangesArePermitted`, `UpdatesHappen` | `ChangesPermitted`, `UpdatesAreReal` | any |

The arguments:

- *Gate.* `TypeOK` is inductive by itself (a count stays below `MaxFailures`
  because reaching it blocks). `HandlersExclusive` ties the mutex to positions in
  both directions, which is what makes it inductive. `NoListedClientInside` needs
  it: a request could be blocked under another one of the same client.
  `ListedHasNoCount` needs `NoListedClientInside`, since a failure is counted
  where the client is not listed. The refinement maps a step of the request that
  holds the mutex to one step of the policy or a stutter; its lemmas say what the
  policy sees as `serving` (`NobodyServed`, `OneServed`). Blocked clients are told
  by the time left, so the lazy removal of an expired entry is a stutter.
- *Pool.* A step of the pool is a stutter of the gate. `PoolInv` adds that only a
  request whose handler runs has to do with the pool, and that the connections in
  use are those the handlers and goroutines think they have. Of the handlers
  there is then one (`Exclusion`), so at most one waits with a connection in hand;
  if all connections are taken and there are two, somebody holds one and does
  not wait.
- *Obfuscation, quiet hours.* By the places of a string: each method is a relation
  between places of the mixed string and of the pepper. The fifth collects the
  characters of a set of places: the pepper is read off by the increasing
  enumeration of that set, and two such enumerations are equal, by the least place
  at which they would differ (`LeastNumber`, `OneOrder`). Of two times the digits
  decide as the numbers do, since every field has its zeros.
- *Rooms.* `RoomsInv`: what a transaction has inserted and what it has still to
  insert are together what it was asked for, and nobody takes part in a room that
  is not there. For the lookup, `DirectAbsent`: on one server nothing comes
  between it and the commit.
- *Messages.* `LeavesByOwnFetch` is not inductive alone: a list that is to be
  written was read earlier. `MailInv` adds that such a list covers everyone who
  has not taken the message (`ReadsCover`), that a message waits for no others than
  it was sent to (`WaitsForSent`), that a handler answers with what it has taken
  (`AnswersTaken`) and that what was got was taken (`FetchedTaken`). On one server
  (`ExactInv`) the list is that of the table (`ReadsExact`), whoever has taken a
  message is in its list no more (`TakenLeft`), and nobody is about to be answered
  twice (`AnswersNew`). `MailboxKept` maps each step to one of the mailbox, from
  `MailInv` and, on one server, `ExactInv`. `CleanupComes` is the
  safety half of `ReadMessagesRemoved`: the list of a message becomes empty in
  the step that starts a goroutine for its room, since what a fetch writes it has
  read of its own room (`RowStep`), and that goroutine deletes all such messages.
  Its hypotheses are those of the run `messages_cleanup`; without the one about
  parameter strings it is false, as `messages_reused` shows. What is left of the
  property is that the goroutine runs.
- *Subscriptions.* `CopiesInv`: a copy that is to be saved equals its row but for
  what the handler itself changed.
- *Accounts.* Types need that a token a handler brings lands in a row that is
  there (`TokensLand`). The wallets of personas need types only: foreign keys do the
  rest. On one server `AccountsInv` has that what a handler has looked up is still
  so (`AllAgree`): no row where it found none, the copy of a link equal to the link.
  `RequestsAtomic` needs just that: the step in which a request takes effect is the
  first update of a migration (the second finds the did it would write, since
  the key's cascade has set it), the insertion or update of a preference or link, or
  the commit of a transfer, and there what was looked up still holds. The saved copy
  of a link is the link but for where it leads, so that no setting is lost.
- *Notifications.* `NoticesInv`: links and handlers name preferences that are there
  (none is ever deleted); what a call has read last is of a persona it has not
  done with, and remembered if switched on; a push that runs was ticked off. For
  the place of a push, `AllHeldBack`: on one server a notice that is stored first is
  made inside a handler, so no other one changes the token in between. The other
  notices read and push in one step, which is `WantedAnywhere`. `NobodyDropped` is what
  `EveryReceiverPushed` comes to step by step: what is left of that property is that
  calls and push goroutines are run.
- *Accounts beside notices.* A step of the composition is one of `Accounts`, with
  `Serving` for its handlers, or leaves its variables alone (`AccountsStepsOnly`). So
  the inductive invariants of `AccountsProofs`, instantiated with `Serving`
  (`Seen`), hold of the composition too, and with them the theorems of one server:
  what a notice looks up is one row, and between two of its reads the tables change
  by whole requests (`RequestsAtomicBeside`).
- *Pages.* `PagesInv` keeps with each request what its checks have established in
  the history of what it could have seen (`AllBacked`), and that the row it found
  is of the kind it is about (`RowsFit`). Rows that are deleted are never written,
  whoever has read them; media that was found is there or deleted (`MediaFound`).
  The persona's row is the exception: it is written from a copy, so that nothing
  of it is an invariant but that profiles have one.

Only model-checked: liveness and fairness, which are outside the prover's reach
(`EveryRequestAnswered`, the fairness in `ImplementsGate`, `ReadMessagesRemoved`,
`TakersServed`, `EveryReceiverPushed`). Of `ImplementsGate`, `ReadMessagesRemoved` and
`EveryReceiverPushed` the safety half is proved (`PooledIsGate`, `CleanupComes`,
`NobodyDropped`). `AccountsUndisturbed` is the other way about: it is proved and
has no run.

## Assumptions

- PostgreSQL runs one statement at a time on a row and a transaction as a whole
  when it commits; the isolation level is the default. No model relies on more.
- The schema is that of `db/dump`. The tables it does not have (those of chat
  and of notifications) are taken as the structs of `model/` declare them: the
  columns and keys named there, no other index and no foreign key.
- Ids the database gives are fresh; ids that clients choose may repeat
  (`IdsRepeat`).
- A panic ends the process: no recover middleware is installed.
- fiber reuses the memory behind `c.Params` after a handler returns unless
  `Immutable` is set, which `main.go` does not do. What a string then holds is
  any room's id or none (`Elsewhere`).

## Where the code and its comments disagree

Four have a run that shows them (the findings of `PROJECT.json`):

1. `chat.go:593`: the cleanup goroutine uses the parameter string after its
   handler has returned and can look in another room; the message it was to
   delete stays (`messages_reused`).
2. `chat.go:576`: a list with receivers left is not accepted by the database;
   the fetch rolls back with a 500, and the reader stays in (`messages_group`).
3. `persona_subscribe.go:45`: `createSubscription` goes on after an update and
   inserts a second row (`subscriptions_pair`).
4. `post.go:110`: the comment (100) speaks of a map with nothing but the fields to
   update; gorm also saves the `Owner` that was preloaded (87). A persona that
   another server deleted after the owner was checked, and reported as deleted
   (`persona.go:224`), comes back without its profile and members, and owns the post
   again (`pages_revived`).

Others were seen while modelling and have no run:

- `chat.go:168`: any error of the lookup creates another direct room, while the
  comment at 147 says a room is created if there is none. The model has it (the
  `blind` creation), and `CreatesOnlyIfAbsent` is about answered lookups.
- `chat.go:585`: the fetch takes its reader out of the lists, and answers (599)
  afterwards: a crash, a broken connection or a commit reported as failed in
  between loses the messages for it. The model has it (`CommitUnreported`,
  `AnswerLost`, `Crash`), and `Mailbox` promises no more.
- `chat.go:471`: a persona that `receiver_ids` names twice is pushed twice. The model
  has it (`Receivers`), and `OnePushEach` is about the entries of the list.
- `persona_subscribe.go:73`: the status in a request body is parsed and ignored
  by `updateSubscription`, whose comment (67) calls it an update of the whole
  subscription.
- `wallet.go:370`: the comment counts on cascades when a wallet is deleted; the
  rows of `business_organization_region_info` restrict instead, and the
  deletion answers 500. The model has it (`RemoveWalletFails`).
- `wallet.go:471`: a transfer relinks the persona's preferences, as the comment
  (469) says it does, only if the target wallet has registered already;
  otherwise its pushes stay with the old wallet. `LinkFollowsTransfer` is about
  targets that have a preference.
- `persona_profile.go:248`: a member who may not delete a profile gets
  `c.Status(403).JSON(...)` inside the transaction's function, which returns
  nil; nothing is deleted, the transaction commits, and the handler goes on to
  answer "deleted" with 200. The model has it (`CheckRole`).
- `updatePersonaProfile` (`persona_profile.go:159`) answers 201 for a persona
  without a profile, or that is not there. The model has it (`UpdateProfile`),
  and `UpdatesAreReal` is about media and posts.
- `persona_background_media.go:100`: `Scan` into a string reports no error for a
  persona without profile, and the media row is created with an empty id, which
  all such personas share. The model has it (`Empty`).
- `persona_background_media.go:71`: the media of a persona is looked up, and the
  answer of success carries no data whatever was found.
- `config.go:66`: nothing refuses `DB_MAX_OPEN_CONNS=1`, with which a handler
  that checks a member inside its transaction waits for itself and everyone else
  for the mutex. `PoolAssumption` excludes it.
- `notification.go:433`: a notification to a did is answered with success and
  sent to nobody; the call is commented out.

## What is not modelled

- *Admins:* one insert, one lookup by token and password hash, and regular
  expressions over strings; nothing interleaves.
- *Reads of posts and the feed, and of profiles:* they change nothing. Posts are
  created by another service.
- *Texts* and their formatting: `createMessageSummary` and `trimContent` cut a text
  at a number of bytes; no property is about what a text says.
- *`markMessageDelivered`* writes a column that neither the struct nor the dump
  has. *`SendDIDNotification`* is called by nothing: what it decides is in
  `QuietHours` (`WalletWants`), its sending is not modelled, nor are the senders of
  `firebase.go` that nothing calls.
- *Routes, models, templates, log, start-up:* no behaviour of their own. Of the
  configuration the limit of the API pool is modelled; the chat pool has its own
  limit, and no handler takes two of its connections.
- Deletion of a persona or wallet leaves rows of the two preference tables
  behind, for want of a foreign key; the model has it, and states nothing of it,
  since nothing in the code says what should become of them.
- The maps of the gate are never swept. The model's sets of clients are finite
  and no step of the code bounds the maps: there is nothing to state.

## The plan

What was planned is there, but for:

1. *Abstract specifications of subscriptions and rooms*, as `AtomicAccounts` is of
   the accounts: `CopiesInv` and `DirectAbsent` say already that what was looked up
   still holds when it is used.
2. *What the lockout policy gives its clients*, proved of `LockoutPolicy` alone and
   carried to the gate by `Refinement`.
3. *Larger instances* where a third row or a second notice meets a new case:
   `notifications` with two links, `messages` and `accounts` with two servers for the
   properties that are proved for any number.
4. *Admin accounts*, should they get more than an insert and a lookup.

## Running

    cd tla
    tlc -workers 2 -config MCPooledGate.cfg MCPooledGate
    tlapm PepperGateProofs.tla     # and the other *Proofs modules
