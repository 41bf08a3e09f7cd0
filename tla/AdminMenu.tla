------------------------------ MODULE AdminMenu ------------------------------
(***************************************************************************)
(* An admin's conversations about other users in his private chat:         *)
(* UserActionHandler and ListUsersHandler of                               *)
(* tgbot/private-admin-commands.go with the wrapper around them            *)
(* (tgbot/common-commands.go) and handleChatMessageUpdate (tgbot/          *)
(* tg-bot.go), while the users write, take and give up usernames: TgUsers. *)
(*                                                                         *)
(* Every message to Telegram may fail.  HandleUpdate changes the handler's *)
(* fields before InitialHandle sends anything, and an error of either      *)
(* leaves the conversation open.  What approving, rejecting and banning do *)
(* is ActorStatus.                                                         *)
(***************************************************************************)
EXTENDS TgUsers

CONSTANTS
  AdminChat,  \* the admin's session
  PageSize    \* actorsPageSize

ASSUME AdminAssumption == AdminChat \in Sessions /\ UserOf[AdminChat] = Known
ASSUME PageAssumption == PageSize \in Nat \ {0}

VARIABLES
  menu,      \* currentHandler: "main" or none, UserActionHandler, ListUsersHandler
  selected,  \* selectedUser, NoActor before
  ref,       \* history: how the admin referred to him
  described, \* the actor in the confirmation prompt he has seen last
  acted,     \* history: the last action, on whom and how he was referred to
  total,     \* Len(selectedUsers): all actors there were; 0 before
  page,      \* pageNumber
  said,      \* the end of the last list: "told", or the bot's "panic"
  shown,     \* history: the actors on the pages the admin got of it,
  lost,      \* those on pages that were only sent in vain,
  endLost    \* and whether the last page or the word that it is did not arrive

acting == <<selected, ref, described, acted>>
listing == <<total, page, said, shown, lost, endLost>>
vars == <<usersVars, menu, acting, listing>>

\* A reference is a number or begins with @; 0 and a bare @ are among them.
Refs == [by : {"id"}, id : Users \cup {0}] \cup [by : {"name"}, name : Username]
NoRef == [by |-> "none"]
Unacted == [ref |-> NoRef, actor |-> NoActor]

TypeOK ==
  /\ UsersTypeOK
  /\ menu \in {"main", "user", "list"}
  /\ selected \in {NoActor} \cup DOMAIN actors /\ ref \in Refs \cup {NoRef}
  /\ described \in {NoActor} \cup DOMAIN actors
  /\ acted.ref \in Refs \cup {NoRef} /\ acted.actor \in {NoActor} \cup DOMAIN actors
  /\ total \in 0 .. Len(actors) /\ page * PageSize \in 0 .. total
  /\ said \in {"", "told", "panic"}
  /\ shown \subseteq 1 .. total /\ lost \subseteq 1 .. total
  /\ endLost \in BOOLEAN

Init ==
  /\ UsersInit
  /\ menu = "main"
  /\ selected = NoActor /\ ref = NoRef /\ described = NoActor /\ acted = Unacted
  /\ total = 0 /\ page = 0 /\ said = ""
  /\ shown = {} /\ lost = {} /\ endLost = FALSE

\* The admin's message is one of those below.
Admin == Handled(AdminChat)

\* The fields of a handler that has just been made.
Begin ==
  /\ selected' = NoActor /\ ref' = NoRef /\ described' = NoActor /\ acted' = Unacted
  /\ total' = 0 /\ page' = 0 /\ said' = ""
  /\ shown' = {} /\ lost' = {} /\ endLost' = FALSE

\* Nothing known, a message that cannot be sent, a user who is not found, an
\* error of the permissions engine: the handler stays as it is.
Ignored ==
  /\ Admin
  /\ UNCHANGED <<menu, acting, listing>>

-----------------------------------------------------------------------------
\* UserActionHandler.

\* /approve_user, /reject_user, /ban_user.
BeginAction ==
  /\ Admin /\ menu = "main"
  /\ menu' = "user" /\ Begin

\* promptForConfirmation gets the actor of the message.  If it does not arrive, the
\* admin still has what he had seen before; NoActor after Begin.
PromptForConfirmation == described' \in {described, actor[AdminChat]}

Lookup(r) == IF r.by = "id" THEN GetActorByTgUser(r.id) ELSE GetActorByTgUserName(r.name)

SelectUser(r) ==
  /\ Admin /\ menu = "user" /\ selected = NoActor
  /\ Lookup(r) # NoActor
  /\ selected' = Lookup(r) /\ ref' = r
  /\ PromptForConfirmation
  /\ UNCHANGED <<menu, acted, listing>>

\* /help, /start or any other message: the prompt is repeated.
Reprompt ==
  /\ Admin /\ menu = "user" /\ selected # NoActor
  /\ PromptForConfirmation
  /\ UNCHANGED <<menu, selected, ref, acted, listing>>

\* A fault: the arguments of AdminVerifyActor are swapped.
ConfirmSwapped ==
  /\ Admin /\ menu = "user" /\ selected # NoActor
  /\ acted' = [ref |-> ref, actor |-> actor[AdminChat]]
  /\ menu' = "main"
  /\ UNCHANGED <<selected, ref, described, listing>>

\* /confirm.
Confirm ==
  /\ Admin /\ menu = "user" /\ selected # NoActor
  /\ acted' = [ref |-> ref, actor |-> selected]
  /\ menu' = "main"
  /\ UNCHANGED <<selected, ref, described, listing>>

-----------------------------------------------------------------------------
\* ListUsersHandler.

\* A fault: all lists have one handler, which keeps its page number.
BeginListAgain ==
  /\ Admin /\ menu = "main"
  /\ menu' = "list" /\ total' = 0
  /\ said' = "" /\ shown' = {} /\ lost' = {} /\ endLost' = FALSE
  /\ UNCHANGED <<acting, page>>

\* /list_users.
BeginList ==
  /\ Admin /\ menu = "main"
  /\ menu' = "list" /\ Begin

On(n, p) == (p * PageSize + 1) .. Min({n, (p + 1) * PageSize})

\* A fault: isFinalPage is not true to begin with.
NeverFinal(n, p) == FALSE

\* A fault: the last page is one actor too early.
FinalEarly(n, p) == n <= (p + 1) * PageSize + 1

IsFinal(n, p) == n <= (p + 1) * PageSize

\* InitialHandle with sendUsersList.  After the last page the bot says that it
\* was the last, and only if that is sent the conversation ends.
SendPage(n, p) ==
  /\ total' = n /\ page' = p
  /\ \/ /\ lost' = lost \cup (On(n, p) \ shown)
        /\ endLost' = (endLost \/ IsFinal(n, p))
        /\ UNCHANGED <<menu, said, shown>>
     \/ /\ shown' = shown \cup On(n, p)
        /\ lost' = lost \ On(n, p)
        /\ \/ ~IsFinal(n, p) /\ UNCHANGED <<menu, said, endLost>>
           \/ IsFinal(n, p) /\ endLost' = TRUE /\ UNCHANGED <<menu, said>>
           \/ IsFinal(n, p) /\ menu' = "main" /\ said' = "told" /\ UNCHANGED endLost

\* /all takes the actors there are.
SelectAllUsers ==
  /\ Admin /\ menu = "list" /\ total = 0
  /\ SendPage(Len(actors), 0)
  /\ UNCHANGED acting

\* /help, /start and any other message repeat the page.
ResendPage ==
  /\ Admin /\ menu = "list" /\ total # 0
  /\ SendPage(total, page)
  /\ UNCHANGED acting

NextPage ==
  /\ Admin /\ menu = "list" /\ total # 0
  /\ (page + 1) * PageSize <= total
  /\ SendPage(total, page + 1)
  /\ UNCHANGED acting

\* The slice of the page begins behind the end of the list; nothing recovers
\* from the panic.
NextPanics ==
  /\ pc[AdminChat] = "handle" /\ menu = "list" /\ total # 0
  /\ (page + 1) * PageSize > total
  /\ BotRestarts
  /\ said' = "panic" /\ menu' = "main"
  /\ UNCHANGED <<acting, total, page, shown, lost, endLost>>

-----------------------------------------------------------------------------
\* /abort.
Abort ==
  /\ Admin
  /\ menu' = "main" /\ Begin

Restart ==
  /\ BotRestarts
  /\ menu' = "main" /\ Begin

UsersNext ==
  \/ \E u \in Users, n \in Username : Rename(u, n)
  \/ \E s \in Sessions : Message(s) \/ Step(s) \/ StatementFails(s)
  \/ \E s \in Sessions \ {AdminChat} : Handled(s)

AdminNext ==
  \/ Ignored \/ Abort
  \/ BeginAction \/ Reprompt \/ Confirm \/ \E r \in Refs : SelectUser(r)
  \/ BeginList \/ SelectAllUsers \/ ResendPage \/ NextPage \/ NextPanics

Next ==
  \/ UsersNext /\ UNCHANGED <<menu, acting, listing>>
  \/ AdminNext
  \/ Restart

\* A message that has come is handled: its statements are executed.
Fairness == \A s \in Sessions : WF_usersVars(Step(s) \/ Handled(s))

Spec == Init /\ [][Next]_vars /\ Fairness

-----------------------------------------------------------------------------
\* A row belongs to an actor that was created for its user, whatever messages raced
\* to create it, and a user never gets more actors than he has chats: only messages
\* that overlap with his first one create another.
UsersActors ==
  \A u \in Users :
    /\ actorId[u] # NoActor => actors[actorId[u]] = u
    /\ Cardinality({i \in DOMAIN actors : actors[i] = u})
         <= Cardinality({s \in Sessions : UserOf[s] = u})

\* The admin's /confirm approves, rejects or bans an actor of the user whose number
\* he wrote or of one who has borne the username he wrote, although users, rows and
\* names change while he is asked.  Only with 0 or a bare @, for which First finds the
\* first row, he acts on somebody he has not named: on himself or on a user with a
\* smaller number, whose row was there before.
ActedOnNamed ==
  LET r == acted.ref
      u == actors[acted.actor]
  IN acted # Unacted =>
       \/ r.by = "id" /\ r.id = u
       \/ r.by = "name" /\ r.name # NoName /\ <<u, r.name>> \in borne
       \/ r \in {[by |-> "id", id |-> 0], [by |-> "name", name |-> NoName]} /\ u <= Known

\* When the bot has said that a list ends, every actor there was at its beginning
\* was on a page the admin got or on one that Telegram did not deliver, however
\* often he asked for help or went on in spite of an error.
EveryoneListed == said = "told" => 1 .. total = shown \cup lost

\* /next can only make the bot panic when the last page of the list, or the word that
\* it was the last, has not arrived.
PanicNeedsLostEnd == said = "panic" => endLost

\* As long as a user goes on writing, his username of the day gets stored in the end,
\* so that others lose it only to somebody who has stopped writing.
NamesConverge ==
  \A u \in Users :
    ([]<><<\E s \in Sessions : UserOf[s] = u /\ Handled(s)>>_pc) =>
      <>[](actorId[u] # NoActor /\ (bears[u] = NoName \/ lower[u] = bears[u]))

\* What GetHelpDescription announces ("confirm the user", with the selected user's
\* description): the prompt that an admin has got and confirms was about the user on
\* whom the action is.  Prompts that did not arrive are left out.
ConfirmedIsDescribed == [][Confirm /\ described # NoActor => described = selected]_vars
=============================================================================
