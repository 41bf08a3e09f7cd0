----------------------------- MODULE AccountSync -----------------------------
(***************************************************************************)
(* How the accounts and passwords of the bot's database reach Minecraft:   *)
(* the bot posts the whole whitelist once a second and a password whenever *)
(* one is generated (tgbot/tg-bot.go, permsengine/perms.go, authdb); the   *)
(* AccountManager of the server overseer keeps the last ones it received   *)
(* in memory and, on its own ticker, feeds passwords to the Java console   *)
(* and rewrites whitelist.json (mcserver/account-manager.go).              *)
(*                                                                         *)
(* Requests may fail with the body lost, or delivered late; the Java       *)
(* process may die, and the overseer ends when it notices.  The Java       *)
(* server itself, which reads its console in order, is external.           *)
(***************************************************************************)
EXTENDS Naturals, Sequences

CONSTANTS
  Logins,
  Whitelists,    \* the sets of account specs the database goes through
  Passwords,     \* the passwords the bot generates, each once
  NoPassword,
  Missing, Torn, \* whitelist.json does not exist, is cut short by a write
  PipeCapacity,  \* bound: commands the console pipe holds
  MaxChanges, MaxErrors, MaxDeaths   \* bounds on what the environment does

\* MinecraftAccountSpec: the player id is the offline or the online one.
Specs == Logins \X {"offline", "online"}
OfflineSpec(l) == <<l, "offline">>

ASSUME WhitelistsAssumption == Whitelists \subseteq SUBSET Specs
ASSUME PasswordsAssumption == NoPassword \notin Passwords
ASSUME FilesAssumption == Missing # Torn /\ \A w \in SUBSET Specs : w # Missing /\ w # Torn
ASSUME BoundsAssumption ==
  /\ PipeCapacity \in Nat \ {0}
  /\ MaxChanges \in Nat /\ MaxErrors \in Nat /\ MaxDeaths \in Nat

VARIABLES
  want,          \* accounts of accepted actors without bans, in the database
  wanted,        \* history: every value of want
  posting,       \* setWhitelist waits for an answer
  body,          \* the whitelist it sent
  whitelistReq,  \* bodies in handleSetWhitelist, blocked on the channel
  passwordReq,   \* <<login, password>> in handleSetPasswords, likewise
  sent,          \* passwords generated so far
  neededSet, needed,    \* neededAccounts, nil until neededSet
  toSet,         \* accountPasswordsToSet
  mgr,           \* accountManagerLoop: its select, or a step of its tick
  todo,          \* keys left of the range in setPasswords
  cur,           \* the account it is at
  console,       \* commands Java has not read yet
  server,        \* "up"; Java "dead" and its death not known, or a command
                 \* written since ("nudged"); known, so all is going "down"
  file,          \* whitelist.json
  listed,        \* the whitelist Java has in memory
  auth,          \* the password each offline account is registered with
  lastPassword,  \* history: the one received last for it
  changes, errors, deaths

bot == <<posting, body>>
requests == <<whitelistReq, passwordReq>>
memory == <<neededSet, needed, toSet>>
loop == <<mgr, todo, cur>>
pipe == <<console, server>>
java == <<listed, auth>>
history == <<wanted, lastPassword>>
counters == <<sent, changes, errors, deaths>>
vars == <<want, bot, requests, memory, loop, pipe, java, file, history, counters>>

Commands == [op : {"reload"}] \cup [op : {"remove"}, login : Logins]
            \cup [op : {"register"}, login : Logins, password : Passwords]

TypeOK ==
  /\ want \in Whitelists /\ wanted \subseteq Whitelists
  /\ posting \in BOOLEAN /\ body \in Whitelists \cup {{}}
  /\ whitelistReq \subseteq Whitelists
  /\ passwordReq \subseteq Logins \X Passwords
  /\ sent \subseteq Passwords
  /\ neededSet \in BOOLEAN /\ needed \in Whitelists \cup {{}}
  /\ toSet \in [Logins -> Passwords \cup {NoPassword}]
  /\ mgr \in {"select", "passwords", "register", "check", "write", "reload"}
  /\ todo \subseteq Logins /\ cur \in Logins
  /\ console \in Seq(Commands) /\ Len(console) <= PipeCapacity
  /\ server \in {"up", "dead", "nudged", "down"}
  /\ file \in Whitelists \cup {{}, Missing, Torn}
  /\ listed \in Whitelists \cup {{}}
  /\ auth \in [Logins -> Passwords \cup {NoPassword}]
  /\ lastPassword \in [Logins -> Passwords \cup {NoPassword}]
  /\ changes \in 0 .. MaxChanges /\ errors \in 0 .. MaxErrors /\ deaths \in 0 .. MaxDeaths

Intact == file \notin {Missing, Torn}

\* A first start: Java has not written its whitelist.json yet.
Init ==
  /\ want \in Whitelists /\ wanted = {want}
  /\ posting = FALSE /\ body = {}
  /\ whitelistReq = {} /\ passwordReq = {} /\ sent = {}
  /\ neededSet = FALSE /\ needed = {}
  /\ toSet = [l \in Logins |-> NoPassword]
  /\ mgr = "select" /\ todo = {} /\ cur \in Logins
  /\ console = <<>> /\ server = "up"
  /\ file = Missing /\ listed = {}
  /\ auth = [l \in Logins |-> NoPassword]
  /\ lastPassword = [l \in Logins |-> NoPassword]
  /\ changes = 0 /\ errors = 0 /\ deaths = 0

-----------------------------------------------------------------------------
\* The bot.

\* Logins are taken and revoked, actors accepted and banned.
ChangeWant(w) ==
  /\ changes < MaxChanges
  /\ w # want
  /\ want' = w
  /\ wanted' = wanted \cup {w}
  /\ changes' = changes + 1
  /\ UNCHANGED <<bot, requests, memory, loop, pipe, java, file, lastPassword,
                 sent, errors, deaths>>

\* The ticker reads the database and posts the accounts; a tick during the
\* post is dropped, and without a server the connection is refused.
Post ==
  /\ ~posting /\ server # "down"
  /\ posting' = TRUE
  /\ body' = want
  /\ whitelistReq' = whitelistReq \cup {want}
  /\ UNCHANGED <<want, passwordReq, memory, loop, pipe, java, file, history, counters>>

Answered ==
  /\ posting
  /\ body \notin whitelistReq
  /\ posting' = FALSE
  /\ UNCHANGED <<want, body, requests, memory, loop, pipe, java, file, history, counters>>

\* The connection breaks; the handler at the other end may be waiting still.
PostFails ==
  /\ posting
  /\ errors < MaxErrors
  /\ errors' = errors + 1
  /\ posting' = FALSE
  /\ whitelistReq' \in {whitelistReq, whitelistReq \ {body}}
  /\ UNCHANGED <<want, body, passwordReq, memory, loop, pipe, java, file, history,
                 sent, changes, deaths>>

\* SetPassword of a conversation.
PostPassword(l, p) ==
  /\ server # "down"
  /\ p \notin sent
  /\ sent' = sent \cup {p}
  /\ passwordReq' = passwordReq \cup {<<l, p>>}
  /\ UNCHANGED <<want, bot, whitelistReq, memory, loop, pipe, java, file, history,
                 changes, errors, deaths>>

-----------------------------------------------------------------------------
\* The account manager.

ReceiveWhitelist ==
  /\ mgr = "select"
  /\ \E w \in whitelistReq : needed' = w /\ whitelistReq' = whitelistReq \ {w}
  /\ neededSet' = TRUE
  /\ UNCHANGED <<want, bot, passwordReq, toSet, loop, pipe, java, file, history, counters>>

ReceivePassword ==
  /\ mgr = "select"
  /\ \E r \in passwordReq :
       /\ toSet' = [toSet EXCEPT ![r[1]] = r[2]]
       /\ lastPassword' = [lastPassword EXCEPT ![r[1]] = r[2]]
       /\ passwordReq' = passwordReq \ {r}
  /\ UNCHANGED <<want, bot, whitelistReq, neededSet, needed, loop, pipe, java, file,
                 wanted, counters>>

\* A fault: updateAccountState without its check for nil.
TickUnset ==
  /\ mgr = "select"
  /\ mgr' = "passwords"
  /\ todo' = {l \in Logins : toSet[l] # NoPassword}
  /\ UNCHANGED <<want, bot, requests, memory, cur, pipe, java, file, history, counters>>

\* updateAccountState does nothing before the first whitelist has come.
Tick ==
  /\ mgr = "select"
  /\ neededSet
  /\ mgr' = "passwords"
  /\ todo' = {l \in Logins : toSet[l] # NoPassword}
  /\ UNCHANGED <<want, bot, requests, memory, cur, pipe, java, file, history, counters>>

\* A fault: the pipe is written without waiting for room.
ExecUnblocked(cmd) ==
  \/ server = "up" /\ console' = Append(console, cmd) /\ UNCHANGED server
  \/ server = "dead" /\ server' = "nudged" /\ UNCHANGED console

\* A command goes into the pipe to the console once there is room.  The first
\* after Java's death is taken as well, and lost: the goroutine that copies the
\* pipe to Java's stdin gets the error, and only then command.Wait returns.
Exec(cmd) ==
  \/ /\ server = "up" /\ Len(console) < PipeCapacity
     /\ console' = Append(console, cmd) /\ UNCHANGED server
  \/ server = "dead" /\ server' = "nudged" /\ UNCHANGED console

\* The next ones wait until the context is cancelled, and fail.
ExecFails == server = "down" /\ UNCHANGED pipe

\* A fault: an account that is not needed loses its new password.
ForgetPassword(l) ==
  /\ mgr = "passwords"
  /\ l \in todo /\ OfflineSpec(l) \notin needed
  /\ todo' = todo \ {l}
  /\ toSet' = [toSet EXCEPT ![l] = NoPassword]
  /\ UNCHANGED <<want, bot, requests, neededSet, needed, mgr, cur, pipe, java, file,
                 history, counters>>

\* setPasswords, one account of its range: passwords of accounts that are not
\* needed, or needed with their online id, wait.
SkipPassword(l) ==
  /\ mgr = "passwords"
  /\ l \in todo /\ OfflineSpec(l) \notin needed
  /\ todo' = todo \ {l}
  /\ UNCHANGED <<want, bot, requests, memory, mgr, cur, pipe, java, file, history, counters>>

\* A fault: an account is registered without removing it first.
KeepAuth(l) ==
  /\ mgr = "passwords"
  /\ l \in todo /\ OfflineSpec(l) \in needed
  /\ todo' = todo \ {l}
  /\ mgr' = "register" /\ cur' = l
  /\ UNCHANGED <<want, bot, requests, memory, pipe, java, file, history, counters>>

RemoveAuth(l) ==
  /\ mgr = "passwords"
  /\ l \in todo /\ OfflineSpec(l) \in needed
  /\ todo' = todo \ {l}
  /\ \/ /\ Exec([op |-> "remove", login |-> l])
        /\ mgr' = "register" /\ cur' = l
     \/ ExecFails /\ UNCHANGED <<mgr, cur>>
  /\ UNCHANGED <<want, bot, requests, memory, java, file, history, counters>>

Register ==
  /\ mgr = "register"
  /\ mgr' = "passwords"
  /\ \/ /\ Exec([op |-> "register", login |-> cur, password |-> toSet[cur]])
        /\ toSet' = [toSet EXCEPT ![cur] = NoPassword]
     \/ ExecFails /\ UNCHANGED toSet
  /\ UNCHANGED <<want, bot, requests, neededSet, needed, todo, cur, java, file, history, counters>>

PasswordsDone ==
  /\ mgr = "passwords" /\ todo = {}
  /\ mgr' = "check"
  /\ UNCHANGED <<want, bot, requests, memory, todo, cur, pipe, java, file, history, counters>>

\* A fault: a whitelist.json that cannot be parsed ends the check.
CheckParsed ==
  /\ mgr = "check"
  /\ \/ file \in {Missing, Torn, needed} /\ mgr' = "select" /\ UNCHANGED file
     \/ file \notin {Missing, Torn, needed} /\ mgr' = "write" /\ file' = Torn
  /\ UNCHANGED <<want, bot, requests, memory, todo, cur, pipe, java, history, counters>>

\* checkAccounts: nothing to do when the file has these accounts, and nothing
\* is done when it cannot be read; the first half of os.WriteFile truncates.
Check ==
  /\ mgr = "check"
  /\ \/ file \in {Missing, needed} /\ mgr' = "select" /\ UNCHANGED file
     \/ file \notin {Missing, needed} /\ mgr' = "write" /\ file' = Torn
  /\ UNCHANGED <<want, bot, requests, memory, todo, cur, pipe, java, history, counters>>

Write ==
  /\ mgr = "write"
  /\ file' = needed
  /\ mgr' = "reload"
  /\ UNCHANGED <<want, bot, requests, memory, todo, cur, pipe, java, history, counters>>

\* The file is cut short.
WriteFails ==
  /\ mgr = "write"
  /\ errors < MaxErrors
  /\ errors' = errors + 1
  /\ mgr' = "select"
  /\ UNCHANGED <<want, bot, requests, memory, todo, cur, pipe, java, file, history,
                 sent, changes, deaths>>

\* Reading the file fails, or opening it to write: it stays as it was.
OpenFails ==
  /\ mgr = "check"
  /\ errors < MaxErrors
  /\ errors' = errors + 1
  /\ mgr' = "select"
  /\ UNCHANGED <<want, bot, requests, memory, todo, cur, pipe, java, file, history,
                 sent, changes, deaths>>

Reload ==
  /\ mgr = "reload"
  /\ mgr' = "select"
  /\ Exec([op |-> "reload"]) \/ ExecFails
  /\ UNCHANGED <<want, bot, requests, memory, todo, cur, java, file, history, counters>>

-----------------------------------------------------------------------------
\* The Java server: external.

\* It makes an empty whitelist.json when it finds none.
JavaCreatesFile ==
  /\ server = "up" /\ file = Missing
  /\ file' = {}
  /\ UNCHANGED <<want, bot, requests, memory, loop, pipe, java, history, counters>>

\* A file it cannot parse leaves its whitelist as it was or empty.
Loaded(old) == IF Intact THEN {file} ELSE {old, {}}

\* An account that is registered has to be removed before it can be again.
JavaReads ==
  /\ server = "up" /\ console # <<>>
  /\ console' = Tail(console)
  /\ LET c == Head(console)
     IN \/ c.op = "reload" /\ listed' \in Loaded(listed) /\ UNCHANGED auth
        \/ /\ c.op = "remove"
           /\ auth' = [auth EXCEPT ![c.login] = NoPassword] /\ UNCHANGED listed
        \/ /\ c.op = "register"
           /\ auth' = [auth EXCEPT ![c.login] = IF @ = NoPassword THEN c.password ELSE @]
           /\ UNCHANGED listed
  /\ UNCHANGED <<want, bot, requests, memory, loop, server, file, history, counters>>

\* The Java process ends, alone or with the overseer and everything.
Die(how) ==
  /\ deaths < MaxDeaths
  /\ deaths' = deaths + 1
  /\ server' = how
  /\ console' = <<>>
  /\ UNCHANGED <<want, bot, requests, memory, loop, java, file, history,
                 sent, changes, errors>>
JavaDies == server = "up" /\ Die("dead")
Crash == server # "down" /\ Die("down")

\* command.Wait returns: no connection is accepted and commands fail from now
\* on, while the account manager, whose context is main's, and the handlers
\* that wait for it go on until main returns.
NoticeDeath ==
  /\ server = "nudged"
  /\ server' = "down"
  /\ UNCHANGED <<want, bot, requests, memory, loop, console, java, file, history, counters>>

\* The operator's commands get into the pipe too.
OtherCommand ==
  /\ server = "dead"
  /\ server' = "nudged"
  /\ UNCHANGED <<want, bot, requests, memory, loop, console, java, file, history, counters>>

\* The overseer has ended wherever its account manager was and is started
\* again: what was in memory is lost, the file and the registrations are kept.
Restart ==
  /\ server = "down"
  /\ server' = "up"
  /\ posting' = FALSE /\ whitelistReq' = {} /\ passwordReq' = {}
  /\ neededSet' = FALSE /\ needed' = {}
  /\ toSet' = [l \in Logins |-> NoPassword]
  /\ mgr' = "select" /\ todo' = {} /\ UNCHANGED cur
  /\ listed' \in Loaded({})
  /\ UNCHANGED <<want, body, console, file, auth, history, counters>>

ManagerStep ==
  \/ Tick \/ PasswordsDone \/ Check \/ Write \/ Register \/ Reload
  \/ \E l \in Logins : SkipPassword(l) \/ RemoveAuth(l)

JavaStep == JavaCreatesFile \/ JavaReads

Next ==
  \/ \E w \in Whitelists : ChangeWant(w)
  \/ Post \/ Answered \/ PostFails
  \/ \E l \in Logins, p \in Passwords : PostPassword(l, p)
  \/ ReceiveWhitelist \/ ReceivePassword
  \/ ManagerStep \/ WriteFails \/ OpenFails
  \/ JavaStep \/ JavaDies \/ Crash \/ NoticeDeath \/ OtherCommand \/ Restart

\* Tickers tick and processes run; nobody has to restart a server.  The select
\* of the manager chooses at random among what is ready, so what is ready again
\* and again is chosen sometime.
Fairness ==
  /\ WF_vars(Post) /\ WF_vars(Answered)
  /\ WF_vars(ManagerStep) /\ WF_vars(JavaCreatesFile) /\ WF_vars(JavaReads)
  /\ WF_vars(NoticeDeath)
  /\ SF_vars(ReceiveWhitelist) /\ SF_vars(ReceivePassword)

Spec == Init /\ [][Next]_vars /\ Fairness

-----------------------------------------------------------------------------
Promise == INSTANCE Whitelist WITH
  Lists <- Whitelists, Absent <- Missing, Cut <- Torn,
  asked <- want, known <- wanted, inForce <- listed

\* Through lost and late requests, restarts and torn files, the file and the list in
\* force take only the steps of Whitelist: the manager never writes accounts the
\* database did not have at some time, not even the empty list of one just restarted.
WhitelistKept == Promise!Spec

\* Until Java dies, an account is registered with the password received last
\* for it, unless that password or a command about it is on the way: removing
\* and registering again never leaves an account unregistered or with an
\* older password.
LastPasswordWins ==
  deaths = 0 =>
    \A l \in Logins :
      \/ toSet[l] # NoPassword
      \/ \E i \in 1 .. Len(console) : console[i].op # "reload" /\ console[i].login = l
      \/ auth[l] = lastPassword[l]

\* Whatever failed on the way, once the database, the network and a server that
\* lives stay as they are, the whitelist in force is the one the database asks
\* for.
WhitelistConverges == <>[](server = "up" => file = want /\ listed = want)

\* A password the manager has received is registered in the end, if its account
\* stays in the database as an offline one, no newer password replaces it and
\* Java lives.
PasswordArrives ==
  \A l \in Logins, p \in Passwords :
    toSet[l] = p ~>
      \/ auth[l] = p
      \/ OfflineSpec(l) \notin want
      \/ toSet[l] \notin {p, NoPassword} \/ lastPassword[l] # p
      \/ server # "up"
=============================================================================
