--------------------------- MODULE MinecraftLogins ---------------------------
(***************************************************************************)
(* How Telegram users take, give back and protect Minecraft logins: the    *)
(* conversations of tgbot/private-commands.go, the checks of               *)
(* permsengine/perms.go and the statements authdb sends to the database.   *)
(*                                                                         *)
(* A ChatHandler works on one message at a time; between two database      *)
(* statements of one message any other ChatHandler may run.  A read of an  *)
(* actor with its associations (GetActor) is one step.  Acceptance, bans   *)
(* and admin rights are changed by other sessions and are environment      *)
(* actions here.                                                           *)
(***************************************************************************)
EXTENDS Integers, FiniteSets

CONSTANTS
  Actors,
  Logins,
  Handlers,     \* the ChatHandlers of private chats
  actorOf,      \* the actor whose private chat a ChatHandler serves
  limitOf,      \* custom or default limit of logins; negative is no limit
  AdminTagged,  \* actors with a Telegram account in AdminTags
  NoActor, NoLogin

ASSUME NoneAssumption == NoActor \notin Actors /\ NoLogin \notin Logins
ASSUME HandlersAssumption == IsFiniteSet(Handlers)
ASSUME ActorOfAssumption == actorOf \in [Handlers -> Actors]
ASSUME LimitAssumption == limitOf \in [Actors -> Int]
ASSUME LoginsAssumption == IsFiniteSet(Logins)

VARIABLES
  rows,        \* the minecraft_accounts there is a row for
  owner,       \* their actor_id
  online,      \* those whose IsOnline is set
  accepted, banned, admins,
  conv,        \* per handler: its conversation
  pc,          \* per handler: the step of the message it works on
  arg,         \* per handler: the login of that step
  official,    \* per handler: the isOnline of that step
  told,        \* history: the handlers whose last answer was "taken, enter another"
  released     \* history: the handlers at work on a login that another
               \* conversation has given back since they found it the actor's

vars == <<rows, owner, online, accepted, banned, admins, conv, pc, arg, official, told,
          released>>
accounts == <<rows, owner, online>>
statuses == <<accepted, banned, admins>>
working == <<conv, pc, arg, official, told, released>>

\* PrivateChatHandler, or no handler at all, behaves as the main menu.
Menu == [kind |-> "menu", login |-> NoLogin, known |-> FALSE]
\* AddMinecraftLoginHandler: enteredLogin, and whether onlineId was found.
Adding(l, k) == [kind |-> "add", login |-> l, known |-> k]
Revoking == [kind |-> "revoke", login |-> NoLogin, known |-> FALSE]
Repassword == [kind |-> "password", login |-> NoLogin, known |-> FALSE]

Conversations ==
  {Menu, Revoking, Repassword} \cup
  {Adding(l, k) : l \in Logins \cup {NoLogin}, k \in BOOLEAN}

Steps == {"idle", "mayAdd", "check", "find", "create", "update", "mayRevoke", "save",
          "mayPassword", "post"}

TypeOK ==
  /\ rows \subseteq Logins
  /\ owner \in [Logins -> Actors \cup {NoActor}]
  /\ online \subseteq Logins
  /\ accepted \subseteq Actors
  /\ banned \subseteq Actors
  /\ admins \subseteq Actors
  /\ conv \in [Handlers -> Conversations]
  /\ pc \in [Handlers -> Steps]
  /\ arg \in [Handlers -> Logins \cup {NoLogin}]
  /\ official \in [Handlers -> BOOLEAN]
  /\ told \subseteq Handlers /\ released \subseteq Handlers

Init ==
  /\ rows = {} /\ online = {}
  /\ owner = [l \in Logins |-> NoActor]
  /\ accepted = {} /\ banned = {} /\ admins = {}
  /\ conv = [h \in Handlers |-> Menu]
  /\ pc = [h \in Handlers |-> "idle"]
  /\ arg = [h \in Handlers |-> NoLogin]
  /\ official = [h \in Handlers |-> FALSE]
  /\ told = {} /\ released = {}

Owned(a) == {l \in Logins : owner[l] = a}

-----------------------------------------------------------------------------
Leave(h, c) ==
  /\ pc' = [pc EXCEPT ![h] = "idle"]
  /\ conv' = [conv EXCEPT ![h] = c]
  /\ arg' = [arg EXCEPT ![h] = NoLogin]
  /\ official' = [official EXCEPT ![h] = FALSE]

\* A message ends with another conversation in place, or by an error, after
\* which handleChatMessageUpdate leaves currentHandler as it was.
EndWith(h, c) == Leave(h, c) /\ released' = released \ {h}
EndByError(h) == EndWith(h, conv[h])

GoOn(h, step) ==
  /\ pc' = [pc EXCEPT ![h] = step]
  /\ UNCHANGED <<conv, arg, official, released>>

\* The message needs database statements about login l.
Begin(h, c, step, l, isOnline) ==
  /\ pc' = [pc EXCEPT ![h] = step]
  /\ conv' = [conv EXCEPT ![h] = c]
  /\ arg' = [arg EXCEPT ![h] = l]
  /\ official' = [official EXCEPT ![h] = isOnline]
  /\ UNCHANGED released

\* A new message reaches the handler; what it answered before is history.
Message(h, kind) ==
  /\ pc[h] = "idle"
  /\ conv[h].kind = kind
  /\ told' = told \ {h}
  /\ UNCHANGED <<accounts, statuses>>

\* A step of the message at work that reads the database.
Reading(h, step) ==
  /\ pc[h] = step
  /\ UNCHANGED <<accounts, statuses, told>>

\* handleLoginExists: the user is asked for another login, the handler stays.
Taken(h) == EndByError(h) /\ told' = told \cup {h}

\* /abort, in any conversation.
Abort(h) == Message(h, conv[h].kind) /\ EndWith(h, Menu)

\* checkAccepted and the limit, as CheckAddMinecraftLoginPermission joins them.
Limit(a) == IF a \in admins THEN -1 ELSE limitOf[a]
NotAccepted(a) == a \notin accepted
Banned(a) == a \in accepted /\ a \in banned

\* The limit as the number of logins an actor may exceed.
ExceededPast(a) ==
  /\ a \in accepted /\ a \notin banned
  /\ Limit(a) >= 0 /\ Cardinality(Owned(a)) > Limit(a)

Exceeded(a) ==
  /\ a \in accepted /\ a \notin banned
  /\ Limit(a) >= 0 /\ Cardinality(Owned(a)) >= Limit(a)

MayAdd(a) == ~NotAccepted(a) /\ ~Banned(a) /\ ~Exceeded(a)

\* /add_minecraft_login puts the new handler in place, whose InitialHandle
\* checks the permission.
AskAdd(h) ==
  /\ Message(h, "menu")
  /\ Begin(h, Adding(NoLogin, FALSE), "mayAdd", NoLogin, FALSE)

\* InitialHandle has no answer for a ban: that error leaves the handler there.
CheckFirst(h) ==
  LET a == actorOf[h]
  IN /\ Reading(h, "mayAdd")
     /\ \/ (NotAccepted(a) \/ Exceeded(a)) /\ EndWith(h, Menu)
        \/ MayAdd(a) /\ EndWith(h, conv[h])
        \/ Banned(a) /\ EndByError(h)

\* processLogin of a login without owner: Mojang is asked whether a licensed
\* account has the name; the answer may be no, yes, or not come.
EnterFree(h, l) ==
  /\ Message(h, "add")
  /\ conv[h].login = NoLogin
  /\ owner[l] = NoActor
  /\ \/ Begin(h, Adding(l, FALSE), "check", l, FALSE)
     \/ \E known \in BOOLEAN : EndWith(h, Adding(l, known))

EnterOwn(h, l) ==
  /\ Message(h, "add")
  /\ conv[h].login = NoLogin
  /\ owner[l] = actorOf[h]
  /\ EndWith(h, Menu)

EnterTaken(h, l) ==
  /\ pc[h] = "idle"
  /\ conv[h].kind = "add" /\ conv[h].login = NoLogin
  /\ owner[l] \in Actors \ {actorOf[h]}
  /\ Taken(h)
  /\ UNCHANGED <<accounts, statuses>>

\* A variant with a bug: no test that a login has been entered.
ChooseUnentered(h, isOnline) ==
  /\ Message(h, "add")
  /\ IF isOnline /\ ~conv[h].known
     THEN EndWith(h, Menu)
     ELSE Begin(h, conv[h], "check", conv[h].login, isOnline)

\* processIsOnline: /official and /cracked.
Choose(h, isOnline) ==
  /\ Message(h, "add")
  /\ conv[h].login # NoLogin
  /\ IF isOnline /\ ~conv[h].known
     THEN EndWith(h, Menu)
     ELSE Begin(h, conv[h], "check", conv[h].login, isOnline)

\* AssignMinecraftLogin begins with the same check.
CheckAgain(h) ==
  LET a == actorOf[h]
  IN /\ Reading(h, "check")
     /\ \/ MayAdd(a) /\ GoOn(h, "find")
        \/ (NotAccepted(a) \/ Exceeded(a)) /\ EndWith(h, Menu)
        \/ Banned(a) /\ EndByError(h)

\* AddMinecraftLogin: find the row, create it if it is missing, and take it if
\* it has no owner.
FindRow(h) ==
  /\ Reading(h, "find")
  /\ GoOn(h, IF arg[h] \in rows THEN "update" ELSE "create")

CreateRow(h) ==
  /\ pc[h] = "create"
  /\ \/ /\ arg[h] \in rows         \* gorm.ErrDuplicatedKey
        /\ Taken(h) /\ UNCHANGED rows
     \/ /\ arg[h] \notin rows
        /\ rows' = rows \cup {arg[h]}
        /\ GoOn(h, "update") /\ UNCHANGED told
  /\ UNCHANGED <<owner, online, statuses>>

Assign(h, a) ==
  /\ owner' = [owner EXCEPT ![arg[h]] = a]
  /\ online' = IF official[h] THEN online \cup {arg[h]} ELSE online \ {arg[h]}
  /\ IF official[h] THEN EndWith(h, Menu) ELSE GoOn(h, "mayPassword")
  /\ UNCHANGED <<rows, statuses, told>>

\* The update without "actor_id IS NULL".
UpdateAny(h) == pc[h] = "update" /\ Assign(h, actorOf[h])

UpdateRow(h) ==
  /\ pc[h] = "update"
  /\ \/ owner[arg[h]] = NoActor /\ Assign(h, actorOf[h])
     \/ owner[arg[h]] # NoActor /\ Taken(h) /\ UNCHANGED <<accounts, statuses>>

\* SetPassword: the check first.  A login that is not the actor's ends a
\* /newpassword conversation and is an error after adding.
CheckPassword(h) ==
  /\ Reading(h, "mayPassword")
  /\ \/ owner[arg[h]] = actorOf[h] /\ GoOn(h, "post")
     \/ owner[arg[h]] # actorOf[h] /\ conv[h].kind = "password" /\ EndWith(h, Menu)
     \/ owner[arg[h]] # actorOf[h] /\ conv[h].kind = "add" /\ EndByError(h)

\* The request to the overseer, whose answer may be lost or an error.
Post(h) ==
  /\ Reading(h, "post")
  /\ EndWith(h, Menu) \/ EndByError(h)

\* /remove_minecraft_login and /newpassword: InitialHandle goes back to the
\* menu when the actor has no logins.
AskWhich(h, c) ==
  /\ Message(h, "menu")
  /\ EndWith(h, IF Owned(actorOf[h]) = {} THEN Menu ELSE c)

\* A message these two conversations cannot use makes InitialHandle run again.
AskAgain(h) ==
  /\ conv[h].kind \in {"revoke", "password"}
  /\ Message(h, conv[h].kind)
  /\ EndWith(h, IF Owned(actorOf[h]) = {} THEN Menu ELSE conv[h])

\* RevokeMinecraftLoginHandler.HandleUpdate.
EnterRevoked(h, l) ==
  /\ Message(h, "revoke")
  /\ IF l \in rows THEN Begin(h, conv[h], "mayRevoke", l, FALSE) ELSE EndWith(h, Menu)

\* ErrorNotYourLogin is answered and then returned as an error.
CheckRevoke(h) ==
  /\ Reading(h, "mayRevoke")
  /\ \/ owner[arg[h]] = actorOf[h] /\ GoOn(h, "save")
     \/ owner[arg[h]] # actorOf[h] /\ EndByError(h)

\* The handlers whose message has found login l to be the actor's.
HaveFound(l) == {h \in Handlers : arg[h] = l /\ pc[h] \in {"save", "mayPassword", "post"}}

\* db.Save writes every column of an account that has nothing but its id,
\* whoever owns it by now.
SaveRow(h) ==
  /\ pc[h] = "save"
  /\ owner' = [owner EXCEPT ![arg[h]] = NoActor]
  /\ online' = online \ {arg[h]}
  /\ Leave(h, Menu)
  /\ released' = (released \cup HaveFound(arg[h])) \ {h}
  /\ UNCHANGED <<rows, statuses, told>>

\* NewPasswordHandler without the refusal of official accounts.
PasswordAnyOwn(h, l) ==
  /\ Message(h, "password")
  /\ IF owner[l] = actorOf[h]
     THEN Begin(h, conv[h], "mayPassword", l, FALSE)
     ELSE EndWith(h, Menu)

\* NewPasswordHandler.HandleUpdate, on the actor read when the message came.
EnterPassworded(h, l) ==
  /\ Message(h, "password")
  /\ IF owner[l] = actorOf[h] /\ l \notin online
     THEN Begin(h, conv[h], "mayPassword", l, FALSE)
     ELSE EndWith(h, Menu)

\* A database statement fails: every caller hands the error up.
DbError(h) ==
  /\ pc[h] \notin {"idle", "post"}
  /\ EndByError(h)
  /\ UNCHANGED <<accounts, statuses, told>>

\* UpdateActorStatus called with doRemove.
AcceptOrRemove(a) ==
  /\ accepted' = IF a \in accepted THEN accepted \ {a} ELSE accepted \cup {a}
  /\ UNCHANGED <<accounts, banned, admins, working>>

\* UpdateActorStatus in any session: it never takes acceptance back, and the
\* admin flag follows the Telegram username.
Accept(a) ==
  /\ accepted' = accepted \cup {a}
  /\ UNCHANGED <<accounts, banned, admins, working>>

SetAdmin(a) ==
  /\ a \in AdminTagged
  /\ admins' = admins \cup {a} \/ admins' = admins \ {a}
  /\ UNCHANGED <<accounts, accepted, banned, working>>

\* An admin's /ban_user; nothing lifts a ban.
Ban(a) ==
  /\ banned' = banned \cup {a}
  /\ UNCHANGED <<accounts, accepted, admins, working>>

\* The bot's process dies and is started again: conversations are memory.
Restart ==
  /\ conv' = [h \in Handlers |-> Menu]
  /\ pc' = [h \in Handlers |-> "idle"]
  /\ arg' = [h \in Handlers |-> NoLogin]
  /\ official' = [h \in Handlers |-> FALSE]
  /\ told' = {} /\ released' = {}
  /\ UNCHANGED <<accounts, statuses>>

AddStep(h) ==
  \/ AskAdd(h) \/ CheckFirst(h)
  \/ \E l \in Logins : EnterFree(h, l) \/ EnterOwn(h, l) \/ EnterTaken(h, l)
  \/ \E isOnline \in BOOLEAN : Choose(h, isOnline)
  \/ CheckAgain(h) \/ FindRow(h) \/ CreateRow(h) \/ UpdateRow(h)

RevokeStep(h) ==
  \/ AskWhich(h, Revoking)
  \/ \E l \in Logins : EnterRevoked(h, l)
  \/ CheckRevoke(h) \/ SaveRow(h)

PasswordStep(h) ==
  \/ AskWhich(h, Repassword)
  \/ \E l \in Logins : EnterPassworded(h, l)
  \/ CheckPassword(h) \/ Post(h)

Next ==
  \/ \E h \in Handlers :
       AddStep(h) \/ RevokeStep(h) \/ PasswordStep(h) \/ Abort(h) \/ AskAgain(h) \/ DbError(h)
  \/ \E a \in Actors : Accept(a) \/ SetAdmin(a) \/ Ban(a)
  \/ Restart

Spec == Init /\ [][Next]_vars

-----------------------------------------------------------------------------
HandlersOf(a) == {h \in Handlers : actorOf[h] = a}
Taking(h) == pc[h] \in {"find", "create", "update"}
Takers(a) == {h \in HandlersOf(a) : Taking(h)}

\* The limit is read in one statement and the login taken in another, so several
\* conversations of one actor may all find room for the same last login.  What
\* holds: an actor who never is an admin exceeds its limit by one login for each of
\* its conversations but the first at most, those about to be taken included.
LimitRespected ==
  \A a \in Actors \ AdminTagged :
    limitOf[a] >= 0 /\ HandlersOf(a) # {} =>
      Cardinality(Owned(a)) + Cardinality(Takers(a))
        <= limitOf[a] + Cardinality(HandlersOf(a)) - 1

\* Only users with access hold logins: acceptance, once read by
\* AssignMinecraftLogin, is still there when the login is taken and ever after.
OwnersAccepted == \A l \in Logins : owner[l] # NoActor => owner[l] \in accepted

\* A login leaves its owner only by a /remove_minecraft_login, and then it is free:
\* AddMinecraftLogin's conditional update never takes one that is owned.  The
\* command is the owner's own; RevokeMinecraftLogin's unconditional Save hits a login
\* that has changed hands since its check only if another conversation gave the
\* login back in between.
HandedOverByOwner ==
  [][\A l \in Logins :
       owner[l] # NoActor /\ owner'[l] # owner[l] =>
         /\ owner'[l] = NoActor
         /\ \E h \in Handlers :
              /\ arg[h] = l /\ pc[h] = "save"
              /\ actorOf[h] = owner[l] \/ h \in released]_vars

\* The overseer is asked to set a password only for a login that the asking
\* actor owns, and only for an offline account, unless another conversation gave
\* the login back during the message: CheckSetPasswordPermission does not look at
\* the online flag, and nothing is locked while the request is sent.
PasswordsFromOwner ==
  \A h \in Handlers :
    pc[h] = "post" =>
      \/ owner[arg[h]] = actorOf[h] /\ arg[h] \notin online
      \/ h \in released

\* handleLoginExists tells the user that the login is taken and to enter
\* another one: the conversation then is one that takes a login.
TakenAsksForAnother == \A h \in told : conv[h].login = NoLogin
=============================================================================
