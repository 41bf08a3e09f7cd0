# A verification project for subchat-mc-server

subchat-mc-server runs a Minecraft server for a Telegram community. A Telegram bot
lets users obtain access, register Minecraft logins and generate passwords; an
overseer runs the Java server, and keeps its whitelist and its EasyAuth registrations
as the bot's database asks. This directory holds TLA+ modules of the parts that run
concurrently or keep state, the TLC configurations that check them, and TLAPS proofs.
File names below are relative to `src/pkg`.

## 1. Inventory

| Component | State | Operations | Talks to |
|---|---|---|---|
| Update dispatcher, `src/tgauth/tgbot/tg-bot.go` | `chatHandlersMap` and its mutex, per `ChatHandler` a mutex and `currentHandler`, wait group, `doneC`, context | proxy of Telegram's channel, loop, one goroutine per update, cleanup, shutdown | Telegram; calls the conversations |
| Login conversations, `tgbot/private-commands.go`, `common-commands.go` | per chat: which handler, the entered login, the online id | `/add_minecraft_login`, `/remove_minecraft_login`, `/newpassword`, `/access`, `/abort` | permissions engine, Mojang |
| Admin conversations and group commands, `private-admin-commands.go`, `public-commands.go` | selected user, page of a list | `/approve_user`, `/reject_user`, `/ban_user`, `/list_users`, `/approve` in a group | permissions engine |
| Permissions engine, `mcauth/permsengine/perms.go` | none of its own; check-then-act over the database | `UpdateActorStatus`, the permission checks, `UpdateWhitelist` | database executor |
| Database executor, `mcauth/authdb` | actors, Telegram users, chats, bans, Minecraft accounts (SQLite through GORM) | statements of their own; only the creation of a user with his actor is a transaction | SQLite, overseer (HTTP) |
| Account manager, `mcserver/account-manager.go` | `neededAccounts`, `accountPasswordsToSet` (memory), `whitelist.json` | select loop, `setPasswords`, `checkAccounts` | overseer's HTTP handlers, Java console |
| Overseer, `mcserver/mc-server.go`, `cmd/runserver` | contexts, wait group, HTTP server | start, commands, `/shutdown`, end | bot, Java process |
| Java process holder, `mcprocess/process.go`, `util/processutil` | command mutex, console pipe, `cmdDone` | `Exec`, wait, interrupt and kill | Java |
| Mojang lookup, `mojang` | none | online id by HTTP, offline id by hash | Mojang |
| Mods setup, `cmd/modssetup` | files, a cache | one run at build time | HTTP |
| Telegram types, `tgbot/tgtypes` | none | API calls | Telegram |

What is hard about it: no transaction spans a check and what
it permits, so every check may be stale when the
statement it permits is executed; a session's messages are serial only through a table
of locks that is cleaned up concurrently; several chats of one user are not serial at
all; passwords and wanted accounts live in the memory of a process that may die, next
to a file that may be torn; requests over HTTP get lost or arrive late. Each component
is correct when:

- dispatcher: sessions are serial and keep their conversation, locks cannot form a
  cycle, no update is lost at shutdown, the table does not grow for ever;
- logins: limits, one owner per login, access and password rights hold in spite of
  interleaved checks;
- statuses: nobody gets access or admin rights without a reason, and those who have
  one get them;
- account manager: the whitelist in force converges to the database's and never holds
  anything else, the last password wins and is not forgotten;
- startup of the bot: an update is handled or dropped once and in order, the bot can
  be told to stop at any time;
- Telegram users and admin conversations: everybody has his own actor, an admin acts
  on the user he named, a list leaves nobody out;
- overseer and process holder: commands are not mixed, callers get an answer, no Java
  process outlives the overseer, and a shutdown comes to an end.

The list `hazards` of PROJECT.json places each of these at its line.

## 2. Modules and how they correspond to the code

**ChatDispatch** — an update, its goroutine and the `ChatHandler` it may create share
one number. `proxy` and `loop` are the program counters of the two goroutines of
`runUpdatesLoop`; `task[n]` is that of the goroutine of update `n`; both mutexes are
booleans because a Go mutex has no owner. One action per stretch of code between two
blocking operations: `LoopReceive`, `LoopLookup` (takes the map lock), `LoopSpawn`
(takes the handler's lock, releases the map), `Handle`, `CleanupLock`, `Cleanup`.
`Handle` is the whole of `handleChatMessageUpdate` as the dispatcher sees it: it
leaves a conversation or nil. `clobbered` is history: sessions whose entry a cleanup
deleted although it was another handler's.

**MinecraftLogins** — `rows`, `owner`, `online` are the table `minecraft_accounts`;
`conv` is the handler of each private chat, `pc` and `arg` the statement its message
has reached. Every database statement is its own action, and those of other chats fall
in between. `GetActor` with its preloads is one step. Acceptance, admin flags and bans
change by environment actions (`Accept`, `SetAdmin`, `Ban`), which allow everything
ActorStatus does. A row found empty in `FindRow` may exist by `CreateRow` (duplicate
key), and `UpdateRow` is the update with `actor_id IS NULL`. An actor may have several
handlers, each with its conversation: the schema allows it several Telegram users, and
the first finding below gives a session two. `released` is history: the handlers at
work on a login that another one has given back since they found it their actor's.

**ActorStatus** — what one message does to its sender's status: `UpdateTgUserInfo`,
`GetActorByTgUser`, `SeenInChat`, `UpdateActorStatus` (`ReadStatus`, `SetAccept`,
`SetAdmin`), the message, and the deferred second `UpdateActorStatus`. `plan` is what
one read of the actor has decided and later statements write. The commands that change
statuses are modelled with their conversations; all others are `MenuOther` or
`PublicOther`. `tagged` is the environment: whether the user's name is in AdminTags
now; `carried` is what the message says of it, `seenTagged` what `LastSeenInfo` keeps.
`everTagged`, `everVerifiedBy`, `granted`, `clean`, `owed` are history and occur in no
guard.

**AccountSync** — the way from the database (`want`) over HTTP (`whitelistReq`,
`passwordReq`: handlers blocked on the manager's channels) and the manager's memory to
the console pipe, `whitelist.json` and what Java has in force (`listed`, `auth`).
`mgr` is the program counter of `accountManagerLoop`. `Check` truncates the file
(`Torn`), `Write` completes it or `WriteFails`; `OpenFails` is a file that cannot be
read or opened and stays as it was. `server` distinguishes a Java that died unnoticed
("dead") from one after whose death a command was written ("nudged"): `command.Wait`
returns only when the goroutine that copies the pipe to Java's stdin has failed, so
the overseer does not end before. Java and EasyAuth are external: they execute console
commands in order, and registering a registered account has no effect.

**Whitelist** — the abstract specification of what AccountSync promises about the
whitelist: the file holds a list the database had at some time, or is absent, cut
short or Minecraft's empty one; in force is only what was in the file. AccountSync
implements it through `Promise == INSTANCE Whitelist WITH …`, as `WhitelistKept`.

**UpdatesPump** — the front of the dispatcher, over restarts of the bot: the poller of
the Telegram library (external) with its offset and buffered channel, the proxy,
`main`'s goroutine through `Run`, the pause of 500 ms and `updates.Clear` with its
`len` and its receive as two steps, and the loop as one that takes what the proxy
offers (ChatDispatch says what it does with it). Updates are numbers, because
getUpdates confirms all up to one; `base`, `handled` and `dropped` are history.

**TgUsers** — the table `tg_users`: `UpdateTgUserInfo` statement by statement (`Find`,
`Create`, `Update`, `ReadActor`), for a user who writes in several chats at once, and
the two lookups of an admin. Usernames change hands in Telegram (`Rename`); `lower` is
what the table has of them. GORM's treatment of zero values — not a condition in
`Where`, not written by `Updates` — is part of the statements.

**AdminMenu** — extends TgUsers by the admin's chat: `menu` is `currentHandler`,
`acting` and `listing` the fields of `UserActionHandler` and `ListUsersHandler`.
Everything sent to Telegram may fail, and since `HandleUpdate` has changed the fields
by then, each action has the outcomes "sent" and "not sent". `ref`, `described` (whom
the last prompt that arrived showed), `shown`, `lost`, `endLost` are history.

**Overseer** — `Server.Start`, the HTTP server, `watchJava`, `watchWg` and
`McProcessHolder`. A call of `Exec` is waiting for `cmdMu`, waiting for the writer
goroutine of one of its lines, or answered; `writers` are the goroutines blocked in
`commandsPipe.Write`, which outlive a call that was cut off. `exec.Cmd` is external
and modelled as Go 1.23 has it: a goroutine copies the pipe to Java's stdin and leaves
its error in a channel of one value; `Wait` waits for the process and then receives
from that channel, and two calls of `Wait` (`waitEnd`'s and the one in
`InterruptAndKill`) both get that far.

**MCChatDispatch, MCMinecraftLogins, MCActorStatus, MCAccountSync, MCUpdatesPump,
MCAdminMenu, MCOverseer** — instances.
**ChatDispatchProofs, MinecraftLoginsProofs, ActorStatusProofs, ActorClaimsProofs,
AccountSyncProofs, UpdatesPumpProofs, AdminMenuProofs, OverseerProofs** — theorems.

Operators commented as a fault, a wrong test or a variant with a bug are not part of
the specifications: each is a definition as a plausible mistake would have it, against
which a property was tried.

## 3. What the runs show

| Run | Properties | Instance |
|---|---|---|
| chat_dispatch | TypeOK, NoLockCycle, SessionSerial, ConversationKept, DoneMeansQuiet, NoLeakedHandler, EveryUpdateHandled, ShutdownCompletes | 2 sessions of a user (private, group), 4 updates |
| chat_dispatch_stale | DeletedEntryNotInUse — violated | the same |
| updates_pump | TypeOK, EachOnceInOrder, ClearOutrun, LateHandled, StopEnds | a channel of 2, 5 updates, 2 starts of the bot |
| minecraft_logins | TypeOK, LimitRespected, OwnersAccepted, PasswordsFromOwner, HandedOverByOwner | 2 users, one with 2 chats, one with 1 who may be admin, 2 conversations open at a time, 2 logins, limit 1 |
| minecraft_logins_taken | TakenAsksForAnother — violated | 2 users, 1 chat each, 2 logins, limit 1 |
| account_sync | TypeOK, LastPasswordWins, WhitelistKept, WhitelistConverges, PasswordArrives | 1 login offline, online or absent; 2 passwords, pipe of 2, 1 change, 1 error, 1 death |
| actor_status | TypeOK, AdminsWereTagged, AccessHasGround | an admin's private chat and a member in a group, 6 messages, 1 change of username, 1 error |
| actor_status_own | GrantedIsAccepted, StatusSettles | one user's private chat and group, 4 messages, 2 changes, 1 error |
| admin_menu | TypeOK, UsersActors, ActedOnNamed, EveryoneListed, PanicNeedsLostEnd, NamesConverge | an admin, a user with a private chat and a group, 1 username that changes hands once, pages of 2 |
| admin_menu_prompt | ConfirmedIsDescribed — violated | the same |
| overseer | TypeOK, SerialConsole, NoOrphanJava, CallsReturn, JavaEnds, DeathNoticed | startup commands, an HTTP command of 2 lines, one of the operator, a pipe of 1 |
| overseer_shutdown | ShutdownEnds — violated | the same |

The bounds are the least with which the cases in question occur. A late cleanup needs
three updates of a session to meet a newer handler, and a fourth to show the damage.
Two users and two logins are enough for every race about a login or a limit of one,
and each of these races is between two conversations: `TwoOpen` keeps the third chat in
its menu while two others are in one. Within it two chats of a user check the limit
before either takes a login and end with two; one chat gives a login back that the
other has checked, and the other user has taken it when that one saves its revocation
or posts a password. So the exceptions that LimitRespected, HandedOverByOwner and
PasswordsFromOwner make do happen, and nothing beyond them. A user may thus lose a
login to the late revocation of one who had it before.
Approving a user takes an admin five messages (one to be seen as an admin, the
command, the user, the confirmation, and one to be refused or to reject), so six leave
room for the member; a user's own messages overlap with two each. One failure and one
death put an error at every statement of some behaviour; more of them repeat what a
restart leaves behind. A pipe of two holds less than one tick writes, so that the
manager blocks; the lists of one login already tell the right account from the wrong
one and from none, and two passwords are the least that can arrive in the wrong order.
A channel of two can be filled by the poller while Clear empties it, and of five
updates one can be handled before Clear, two dropped, one on its way and one late,
with enough left for a second start. A user with two chats creates two actors at most,
which with the admin's make three: two pages, of which the last may be lost and
passed. One username is enough for its former and its present bearer. Three calls are
one that holds the mutex, one that waits and one that is cut off, and a line more than
the pipe holds blocks the writer.

Four runs find the code at odds with what it says:

- **chat_dispatch_stale.** Goroutine 1 ends its update and waits for the map lock in
  `handleCleanup`; a second message of the session uses the same `ChatHandler`, ends
  the conversation, and its cleanup removes the entry. A third message creates a new
  `ChatHandler` and holds its lock. Now the first cleanup locks its old handler, finds
  it idle and deletes the entry *by id*: the new one. The comment at `tg-bot.go:241`
  takes the successful `TryLock` for a proof that the handler is not in use. A fourth
  message then runs concurrently with the third, which is why SessionSerial and
  ConversationKept carry the proviso `clobbered`: they show that nothing else breaks
  them.
- **minecraft_logins_taken.** When a login is taken between `processLogin` and
  `AddMinecraftLogin`, the user is told to enter another one
  (`private-commands.go:185`), but `finishAdding` keeps `enteredLogin`, so that the
  next message is read as `/official` or `/cracked`. Only `/abort` leads out.
- **admin_menu_prompt.** The admin names a user and gets a prompt that describes
  himself: `InitialHandle` passes on the actor of the message
  (`private-admin-commands.go:171`) and not `selectedUser`, although the help text
  asks to "confirm the user" with the selected user's description (`:233`). The
  property is about prompts that arrived; an admin may also confirm without having got
  any, which is not held against the code. ActedOnNamed shows that the action still
  hits a user with the number or with a present or former username the admin wrote —
  former, because `tg_users` learns of a new name only from its bearer. `0` and a bare
  `@` are zero values, for which GORM finds the first user: the admin himself or one
  with a smaller number. There the prompt would have been the only warning.
- **overseer_shutdown.** `/shutdown` interrupts Java, and `process.go:20` bounds by a
  timeout what an unwilling end may take; Java does end (JavaEnds). The overseer ends
  when `waitEnd`'s `Wait` has returned, and that waits for the goroutine that copies
  commands to Java's stdin, which notices Java's end only by writing a further
  command, from the operator or the account manager. And when it does, its one result
  may go to the `Wait` of `InterruptAndKill` instead. Both calls of `Wait` wait for
  the process until then; neither returns early.

Fairness. ChatDispatch: weak fairness per goroutine, since Go runs every goroutine
that can go on and its mutexes do not starve a waiter; it assumes that handling an
update ends, that is, that Telegram, SQLite and the overseer answer or fail. Nothing
is assumed of new updates or of a signal. AccountSync: weak fairness of the bot's
ticker, the manager and Java's reading; strong fairness of the two receive branches,
because `select` picks at random among the ready ones and is ready for them again and
again; no fairness of failures, deaths or of a restart, as docker-compose restarts the
overseer only when it exits with an error. UpdatesPump: weak fairness of the poller,
the proxy (its two branches: once there are no more updates only the context is
ready), `main` and the loop; none of users, signals, crashes and restarts. AdminMenu:
weak fairness of the statements of a message that has come; NamesConverge adds itself
that a user goes on writing, and that his messages come through, which no code can
ensure. Overseer: weak fairness of each goroutine while the process runs, of Java's
reading while it lives and of the timer of `InterruptAndKill`; not of Java's ending,
since it may ignore an interrupt, nor of anybody calling `Exec` or `/shutdown`.
MinecraftLogins and ActorStatus state safety only and assume nothing.

The overseer runs disable the deadlock check, because an overseer that has ended or
that hangs as above really stops, and what must not stop is said by their liveness
properties. All others check it: ChatDispatch and UpdatesPump stutter explicitly once
the bot is down for good.

## 4. What is proved

Eight modules of proofs hold 40 theorems; each of the properties named below is proved
for every value of the constants that the named assumptions admit.

For every set of sessions and every number of updates (ChatDispatchProofs) the six
safety properties of chat_dispatch follow from one inductive invariant `IInv`. None of
them is inductive: that a session is serial depends on who holds its lock
(`HandlerLock`), on which handler the table gives out (`Using`, `BusyIsEntry`) and on
the map lock having one holder (`MapLock`); that the table does not leak, on each idle
entry having a goroutine that will look at it (`EntryWatched`); that the bot ends
quiet, on what `wg` counts (`WgCounts`, by cardinalities). Assumed are
`SessionsAssumption` and `MaxUpdatesAssumption` only. `DispatchIsPumped` joins the
module to UpdatesPump, which has the dispatcher as one loop: under a mapping to a bot
whose `Run` has returned, with all updates in the channel, each step is one of
UpdatesPump or a stutter. The steps in question are `Handle` and `Done`: main is told
of the end only when the proxy holds nothing (`EndsInTurn`, `WgCounts`). That the loop
takes an update in the end, UpdatesPump's fairness of `Handle`, is EveryUpdateHandled,
which TLC checks.

For every set of actors and finite sets of chats and logins (MinecraftLoginsProofs,
`HandlersAssumption`) TypeOK and OwnersAccepted follow from `BaseInv`, whose core is
that acceptance read by `AssignMinecraftLogin` is never taken back. The limit is counted
when it is checked and a login taken several statements later, so the schema, which
allows an actor several Telegram users, and the finding above, which gives a session
two handlers, let it be exceeded. LimitRespected says by how much: an actor who never
becomes an admin owns at most its limit and one login more for each `ChatHandler`
beyond the first. Inductive is `RoomCounted`, which counts the messages that are about
to take a login (`Takers`) with the logins owned. The bound is tight: with two chats
and a limit of one TLC reaches two logins. PasswordsFromOwner and HandedOverByOwner
follow from `CheckedStill`: what a message has found of its login stays so under every
step but another handler's `SaveRow` of that login, since `UpdateRow` takes no login
that has an owner. Of one `ChatHandler` for each actor (`OneChatEach`) more is proved:
the limit itself holds (`LimitKeptByOneChat`), and nothing is ever given back in
between (`ChecksHoldByOneChat`), because two messages that have found the same login
to be their actor's are the same.

For every set of actors, chats and sessions and any number of messages, renamings,
errors and restarts (ActorStatusProofs) TypeOK, AdminsWereTagged and AccessHasGround
follow from `IInv`. Neither of the two properties is inductive, because
`UpdateActorStatus` decides on what it reads and writes columns later, and commands
check permission and act later: `Pending` says that a username a message carries, a
plan to set `is_admin` and a passed check come from somebody who was tagged, and a
plan to accept from one who has a reason. It stays true under the steps of others
since reasons and origins only grow (`Grows`, `GroundKept`) and since no step makes a
message rely on anything that is false then (`Justified`, one lemma per kind of step).
Assumed are `NoneAssumption`, `ActorOfAssumption`, `ChatOfAssumption` and
`BoundsAssumption`.

Under the same assumptions ActorClaimsProofs shows GrantedIsAccepted and StatusSettles,
by the invariant `CInv`. That access was granted is seen again by the deferred
`UpdateActorStatus`, since a claim is only ever added to (`Granting`). What the columns
settle to needs for each step of a clean message what it knows of its actor's row
(`Settling`) — what `UpdateActorStatus` has computed is still right when it is written
(`Deciding`), and after the first of the two they agree with the username
(`FirstDone`). That no other session interferes is one lemma about all steps
(`SessionIsLocal`): a step leaves the work of others alone, and of other actors' rows
it takes nothing away.

MinecraftLogins takes for granted how statuses change meanwhile, by its actions
`Accept`, `SetAdmin` and `Ban`. `StatusesAsAssumed` discharges this: ActorStatus
implements MinecraftLogins without chats of its own, an instance whose parameter `T`
holds the actors in AdminTags, as long as nobody outside `T` gets a username of
AdminTags. Without this hypothesis TLC refutes it.

AccountSync implements Whitelist (AccountSyncProofs, WhitelistKept) for every set of
lists, logins and passwords, every pipe and any number of failures: an inductive
invariant (`FromDatabase`) says that the manager's memory and the requests on their
way come from lists the database had, so that each step is one of Whitelist or a
stutter. TypeOK needs besides that what is to be registered is a
password (`Registering`). LastPasswordWins follows from `PasswordInv`: until a death
the pipe holds each registration right behind the removal of its login
(`RemovedFirst`, `RemovedLast`), and what is no longer in the manager's memory is in
force or will be by a command that none about the same login follows (`Settling`).

For every buffer, number of updates and of starts (UpdatesPumpProofs,
`BoundsAssumption`) TypeOK, ClearOutrun and EachOnceInOrder hold. The last is not
inductive: `Pumped` says where this run's updates are — handled, held by the proxy, in
the channel, dropped — and that those not yet pushed are the ones from `offset` on,
`Sending` that the proxy holds an update exactly while it sends; every step moves one
update from the head of a queue to the end of the next. ClearOutrun needs that `main`
saw a channel that was not empty.

For every set of users, sessions and names and every size of a page (AdminMenuProofs)
all five invariants of admin_menu hold. UsersActors counts: a session is `Settled`
when it will create no actor any more, each actor but the first settles a session that
was not, so that there are no more of a user's actors than of his sessions
(`Counted`), however his first messages overlap. ActedOnNamed rests on `Borne` — a
name in the table or in a message has been borne by its user — and on references that
stay true as rows and names are only added (`Named`). With the zero values the first
row is the admin's or one with a smaller number, because his own row exists before his
first message is handled (`RowsOwn`). EveryoneListed and
PanicNeedsLostEnd follow from `Listing`: all up to the present page were sent or lost,
and a list still open at its last page has lost its end.

For every set of calls, all their lines and every pipe (OverseerProofs) TypeOK,
NoOrphanJava and SerialConsole hold. NoOrphanJava follows from `Processes`: only
Java's exit lets either `Wait` go on, whichever gets the one result. SerialConsole
excepts a line only where it is the one at which its call was cut off (`Stray`): the
writer goroutine of such a call may write that line later, anywhere, and no other. It
is not inductive: `SerialInv` says that the holder of `cmdMu` is the only call that
writes (`Holder`), that a line left in `writers` is of a call that was cut off at it
or is the one the writer waits for (`Blocked`) and has not been written (`Unwritten`),
that the lines in the console come before the one their call is at (`Earlier`), and
that what stands behind a line of the writer's is its own or stray (`WriterLast`).
`InOrder` and `Apart` are the two halves of SerialConsole.

Only model-checked are all liveness properties, since fairness is beyond the prover,
and the four violations, which are traces.

## 5. What is not modelled, and the plan

Not modelled: the text of messages; Telegram's command menus and the `tgtypes`
wrappers, which keep no state; the editing of `server.properties` and the static files
under `/mods/`; the HTTP request and hash of `mojang`; reading configuration; the
migration of the schema at start; and `cmd/modssetup`, a sequential tool of the
image's build. Its cache carries a success flag that nothing sets, so that every run
downloads everything anew: there is no state from which a second run could go wrong.

Observed while modelling, without a run since no later step of the program depends on
it:

- `ApproveChat` (`perms.go:555`) drops the error of its update, and the admin sees a
  thumbs up.
- The error with which Java ended is only logged (`process.go:94`), so that the
  overseer exits with status 0 and `restart: on-failure` (`docker-compose.yml:26` in
  the root of the repository) does not start it again after a crash of Java.
- The HTTP client of the bot has no timeout (`db-auth-executor.go:413`). ChatDispatch
  assumes that handling an update ends; with an overseer whose Java does not read its
  console it need not.

What is left, in this order:

1. **SharedSession** — ChatDispatch and MinecraftLogins composed: how many handlers
   the stale cleanup can give a session, and so by how much a limit may be exceeded.
   LimitRespected has the second half, for a number of handlers that is given.
2. **AdminMenu with ActorStatus** — what approving, rejecting and banning a user do
   while he creates his row; the interface today is that either module leaves the
   other's state open.
3. **The console** — AccountSync and Overseer each say what becomes of a command when
   Java dies, the one for its own commands, the other for any call of `Exec`; a common
   abstract specification that both implement would tie them together, as
   `StatusesAsAssumed` and `DispatchIsPumped` tie the modules of the bot.
