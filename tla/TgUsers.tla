------------------------------- MODULE TgUsers -------------------------------
(***************************************************************************)
(* The table of Telegram users, as every message of theirs writes it and   *)
(* as admins look somebody up in it (mcauth/authdb/db-auth-executor.go,    *)
(* called by handleChatMessageUpdate of tgbot/tg-bot.go).  A user's first  *)
(* message creates his row and an actor; several chats of one user are not *)
(* serial, so that two messages may both be the first.                     *)
(*                                                                         *)
(* Names are in lower case, as the code compares them.  What a message     *)
(* does once its actor is read is left to other modules.                   *)
(*                                                                         *)
(* External: Telegram, in which a username has one bearer at a time, and   *)
(* GORM, for which a field that is zero is neither a condition nor written *)
(* by Updates.                                                             *)
(***************************************************************************)
EXTENDS Naturals, Sequences, FiniteSets, FiniteSetsExt

CONSTANTS
  Users,       \* Telegram's ids: numbers, the order of First
  Names,
  NoName,      \* of a user without username, and of "@" alone
  Sessions,    \* a user in a chat
  UserOf,      \* the user of a session
  Known,       \* the user that is in the database already
  MaxRenames   \* bound on the changes of usernames

ASSUME UsersAssumption == IsFiniteSet(Users) /\ Users \subseteq Nat \ {0} /\ Known \in Users
ASSUME NamesAssumption == NoName \notin Names
ASSUME SessionsAssumption == IsFiniteSet(Sessions) /\ UserOf \in [Sessions -> Users]
ASSUME RenamesAssumption == MaxRenames \in Nat

VARIABLES
  bears,     \* the username each user has in Telegram
  borne,     \* history: <<user, username>> of all times
  renames,
  actors,    \* the actors by their ids: the user each was created for
  actorId,   \* tg_users.actor_id; NoActor where there is no row
  lower,     \* tg_users.last_lower_username
  pc,        \* the statement a session's message is at
  carried,   \* the username it carries
  actor      \* the actor it is handled for

telegram == <<bears, borne, renames>>
table == <<actors, actorId, lower>>
message == <<pc, carried, actor>>
usersVars == <<telegram, table, message>>

NoActor == 0
Ids == 1 .. Cardinality(Sessions) + 1
Username == Names \cup {NoName}

UsersTypeOK ==
  /\ bears \in [Users -> Username] /\ borne \subseteq Users \X Username
  /\ renames \in 0 .. MaxRenames
  /\ actors \in Seq(Users) /\ Len(actors) \in Ids
  /\ actorId \in [Users -> {NoActor} \cup DOMAIN actors]
  /\ lower \in [Users -> Username]
  /\ pc \in [Sessions -> {"idle", "find", "create", "update", "read", "handle"}]
  /\ carried \in [Sessions -> Username]
  /\ actor \in [Sessions -> {NoActor} \cup DOMAIN actors]

Bears(u, n) == n = NoName \/ \A v \in Users \ {u} : bears[v] # n

\* The known user has been seen with his username or with a former one.
UsersInit ==
  /\ bears \in [Users -> Username] /\ \A u \in Users : Bears(u, bears[u])
  /\ \E n \in Username :
       /\ borne = {<<u, bears[u]>> : u \in Users} \cup {<<Known, n>>}
       /\ lower = [u \in Users |-> IF u = Known THEN n ELSE NoName]
  /\ renames = 0
  /\ actors = <<Known>>
  /\ actorId = [u \in Users |-> IF u = Known THEN 1 ELSE NoActor]
  /\ pc = [s \in Sessions |-> "idle"]
  /\ carried = [s \in Sessions |-> NoName]
  /\ actor = [s \in Sessions |-> NoActor]

-----------------------------------------------------------------------------
\* Users.

\* A user takes a username that is free, or gives up the one he has.
Rename(u, n) ==
  /\ renames < MaxRenames /\ n # bears[u] /\ Bears(u, n)
  /\ renames' = renames + 1
  /\ bears' = [bears EXCEPT ![u] = n]
  /\ borne' = borne \cup {<<u, n>>}
  /\ UNCHANGED <<table, message>>

Message(s) ==
  /\ pc[s] = "idle"
  /\ pc' = [pc EXCEPT ![s] = "find"]
  /\ carried' = [carried EXCEPT ![s] = bears[UserOf[s]]]
  /\ UNCHANGED <<telegram, table, actor>>

-----------------------------------------------------------------------------
\* UpdateTgUserInfo.

\* A fault: what is looked for is a row with the username of the message.
FindByName(s) ==
  /\ pc[s] = "find"
  /\ pc' = [pc EXCEPT ![s] = IF lower[UserOf[s]] # carried[s] THEN "create" ELSE "update"]
  /\ UNCHANGED <<telegram, table, carried, actor>>

Find(s) ==
  /\ pc[s] = "find"
  /\ pc' = [pc EXCEPT ![s] = IF actorId[UserOf[s]] = NoActor THEN "create" ELSE "update"]
  /\ UNCHANGED <<telegram, table, carried, actor>>

NewActor(u) ==
  /\ actors' = Append(actors, u)
  /\ actorId' = [actorId EXCEPT ![u] = Len(actors) + 1]

\* createTgUserWithActor, one transaction; the row gets no LastLowerUsername.
\* Where a message in another chat has been faster, it rolls back with
\* ErrDuplicatedKey, which is passed over, or gives the row to its own actor:
\* GORM saves associations with ON CONFLICT, which the code does not count on.
Create(s) ==
  LET u == UserOf[s]
  IN /\ pc[s] = "create"
     /\ pc' = [pc EXCEPT ![s] = "read"]
     /\ \/ NewActor(u)
        \/ actorId[u] # NoActor /\ UNCHANGED <<actors, actorId>>
     /\ UNCHANGED <<telegram, lower, carried, actor>>

\* A fault: only LastSeenInfo is updated.
UpdateInfo(s) ==
  /\ pc[s] = "update"
  /\ pc' = [pc EXCEPT ![s] = "read"]
  /\ UNCHANGED <<telegram, table, carried, actor>>

Update(s) ==
  /\ pc[s] = "update"
  /\ pc' = [pc EXCEPT ![s] = "read"]
  /\ lower' = [lower EXCEPT ![UserOf[s]] = IF carried[s] = NoName THEN @ ELSE carried[s]]
  /\ UNCHANGED <<telegram, actors, actorId, carried, actor>>

\* Any statement may fail; the message is dropped then.
StatementFails(s) ==
  /\ pc[s] \in {"find", "create", "update", "read"}
  /\ pc' = [pc EXCEPT ![s] = "idle"]
  /\ carried' = [carried EXCEPT ![s] = NoName]
  /\ UNCHANGED <<telegram, table, actor>>

ReadActor(s) ==
  /\ pc[s] = "read"
  /\ pc' = [pc EXCEPT ![s] = "handle"]
  /\ actor' = [actor EXCEPT ![s] = actorId[UserOf[s]]]
  /\ UNCHANGED <<telegram, table, carried>>

Handled(s) ==
  /\ pc[s] = "handle"
  /\ pc' = [pc EXCEPT ![s] = "idle"]
  /\ actor' = [actor EXCEPT ![s] = NoActor]
  /\ carried' = [carried EXCEPT ![s] = NoName]
  /\ UNCHANGED <<telegram, table>>

\* The bot ends wherever it is, and what it was handling is not repeated.
BotRestarts ==
  /\ pc' = [s \in Sessions |-> "idle"]
  /\ actor' = [s \in Sessions |-> NoActor]
  /\ carried' = [s \in Sessions |-> NoName]
  /\ UNCHANGED <<telegram, table>>

Step(s) == Find(s) \/ Create(s) \/ Update(s) \/ ReadActor(s)

-----------------------------------------------------------------------------
\* Lookups.

First(users) == IF users = {} THEN NoActor ELSE actorId[Min(users)]
Rows == {u \in Users : actorId[u] # NoActor}

GetActorByTgUserName(n) == First({u \in Rows : n = NoName \/ lower[u] = n})

GetActorByTgUser(id) == First({u \in Rows : id = 0 \/ u = id})
=============================================================================
