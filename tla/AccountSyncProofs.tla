-------------------------- MODULE AccountSyncProofs --------------------------
(***************************************************************************)
(* AccountSync implements Whitelist, keeps its types and registers the     *)
(* last password, for every set of logins, whitelists and passwords, every *)
(* capacity of the pipe and any number of errors and deaths.               *)
(***************************************************************************)
EXTENDS AccountSync, TLAPS

\* All whitelists on the way have been in the database, a tick is only under way
\* after the first of them, and between the halves of a write the file is torn.
FromDatabase ==
  /\ want \in wanted
  /\ whitelistReq \subseteq wanted
  /\ neededSet => needed \in wanted
  /\ mgr # "select" => neededSet
  /\ mgr = "write" => file = Torn

USE DEF bot, requests, memory, loop, pipe, java, history, counters, vars

\* The manager begins without a whitelist.
LEMMA InitFromDatabase == Init => FromDatabase
BY DEF Init, FromDatabase

\* A whitelist is taken over only from where one of the database is.
LEMMA FromDatabaseStep == FromDatabase /\ [Next]_vars => FromDatabase'
<1> SUFFICES ASSUME FromDatabase, [Next]_vars
             PROVE  FromDatabase'
  OBVIOUS
<1> USE DEF FromDatabase
<1>1. ASSUME NEW w \in Whitelists, ChangeWant(w) PROVE FromDatabase'
  BY <1>1 DEF ChangeWant
<1>2. CASE Post \/ Answered \/ PostFails
  BY <1>2 DEF Post, Answered, PostFails
<1>3. ASSUME NEW l \in Logins, NEW p \in Passwords, PostPassword(l, p) PROVE FromDatabase'
  BY <1>3 DEF PostPassword
<1>4. CASE ReceiveWhitelist \/ ReceivePassword
  BY <1>4 DEF ReceiveWhitelist, ReceivePassword
<1>5. CASE Tick \/ PasswordsDone \/ Check \/ Write \/ Register \/ Reload
  BY <1>5 DEF Tick, PasswordsDone, Check, Write, Register, Reload
<1>6. ASSUME NEW l \in Logins, SkipPassword(l) \/ RemoveAuth(l) PROVE FromDatabase'
  BY <1>6 DEF SkipPassword, RemoveAuth
<1>7. CASE WriteFails \/ OpenFails
  BY <1>7 DEF WriteFails, OpenFails
<1>8. CASE JavaStep
  BY <1>8, FilesAssumption DEF JavaStep, JavaCreatesFile, JavaReads
<1>9. CASE JavaDies \/ Crash \/ NoticeDeath \/ OtherCommand \/ Restart
  BY <1>9 DEF JavaDies, Crash, Die, NoticeDeath, OtherCommand, Restart
<1>10. CASE UNCHANGED vars
  BY <1>10
<1> QED
  BY <1>1, <1>2, <1>3, <1>4, <1>5, <1>6, <1>7, <1>8, <1>9, <1>10 DEF Next, ManagerStep

\* What can be done to the file and the list in force is what Whitelist allows.
LEMMA PromiseStep == FromDatabase /\ [Next]_vars => [Promise!Next]_(Promise!vars)
<1> SUFFICES ASSUME FromDatabase, [Next]_vars
             PROVE  Promise!Next \/ UNCHANGED <<want, wanted, file, listed>>
  BY DEF Promise!vars
<1> USE DEF FromDatabase
<1>1. ASSUME NEW w \in Whitelists, ChangeWant(w) PROVE Promise!Next
  BY <1>1 DEF ChangeWant, Promise!Ask, Promise!Next
<1>2. CASE Check \/ Write
  <2>1. CASE Check
    BY <2>1 DEF Check, Promise!Truncate, Promise!Next
  <2>2. CASE Write
    BY <2>2 DEF Write, Promise!Complete, Promise!Next
  <2> QED
    BY <1>2, <2>1, <2>2
<1>3. CASE JavaCreatesFile
  BY <1>3 DEF JavaCreatesFile, Promise!Create, Promise!Next
<1>4. CASE JavaReads
  BY <1>4 DEF JavaReads, Loaded, Intact, Promise!Load, Promise!Next
<1>5. CASE Restart
  BY <1>5 DEF Restart, Loaded, Intact, Promise!Load, Promise!Next
<1>6. CASE Post \/ Answered \/ PostFails \/ ReceiveWhitelist \/ ReceivePassword
  BY <1>6 DEF Post, Answered, PostFails, ReceiveWhitelist, ReceivePassword
<1>7. CASE Tick \/ PasswordsDone \/ Register \/ Reload \/ WriteFails \/ OpenFails
  BY <1>7 DEF Tick, PasswordsDone, Register, Reload, WriteFails, OpenFails
<1>8. ASSUME NEW l \in Logins, \/ SkipPassword(l) \/ RemoveAuth(l)
                               \/ \E p \in Passwords : PostPassword(l, p)
      PROVE  UNCHANGED <<want, wanted, file, listed>>
  BY <1>8 DEF SkipPassword, RemoveAuth, PostPassword
<1>9. CASE JavaDies \/ Crash \/ NoticeDeath \/ OtherCommand \/ UNCHANGED vars
  BY <1>9 DEF JavaDies, Crash, Die, NoticeDeath, OtherCommand
<1> QED
  BY <1>1, <1>2, <1>3, <1>4, <1>5, <1>6, <1>7, <1>8, <1>9 DEF Next, ManagerStep, JavaStep

\* AccountSync implements Whitelist: through losses, restarts and torn files the
\* manager never writes, and Java never enforces, what the database did not ask for.
THEOREM ImplementsWhitelist == Spec => WhitelistKept
<1>1. Init => Promise!Init
  BY DEF Init, Promise!Init
<1> QED
  BY InitFromDatabase, FromDatabaseStep, PromiseStep, <1>1, PTL
     DEF Spec, WhitelistKept, Promise!Spec

-----------------------------------------------------------------------------
\* What is to be registered is a password.
Registering ==
  /\ \A l \in todo : toSet[l] # NoPassword
  /\ mgr = "register" => toSet[cur] # NoPassword /\ cur \notin todo

\* The bot's steps and those of the environment, which keep the manager's memory.
LEMMA OutsideTypes ==
  ASSUME TypeOK, Registering,
         \/ Post \/ Answered \/ PostFails
         \/ \E w \in Whitelists : ChangeWant(w)
         \/ \E l \in Logins, p \in Passwords : PostPassword(l, p)
         \/ JavaDies \/ Crash \/ NoticeDeath \/ OtherCommand \/ JavaCreatesFile
         \/ WriteFails \/ OpenFails
  PROVE  TypeOK' /\ Registering'
<1> USE DEF TypeOK, Registering
<1>1. CASE Post \/ Answered
  BY <1>1 DEF Post, Answered
<1>6. CASE PostFails
  <2>1. errors' \in 0 .. MaxErrors
    BY <1>6, BoundsAssumption DEF PostFails
  <2>2. whitelistReq' \subseteq Whitelists
    BY <1>6 DEF PostFails
  <2>3. /\ posting' = FALSE
        /\ UNCHANGED <<want, body, passwordReq, memory, loop, pipe, java, file, history,
                       sent, changes, deaths>>
    BY <1>6 DEF PostFails
  <2>4. TypeOK'
    BY <2>1, <2>2, <2>3
  <2>5. Registering'
    BY <2>3
  <2> QED
    BY <2>4, <2>5
<1>7. CASE WriteFails \/ OpenFails
  BY <1>7, BoundsAssumption DEF WriteFails, OpenFails
<1>2. ASSUME NEW w \in Whitelists, ChangeWant(w) PROVE TypeOK' /\ Registering'
  BY <1>2, BoundsAssumption DEF ChangeWant
<1>3. ASSUME NEW l \in Logins, NEW p \in Passwords, PostPassword(l, p)
      PROVE  TypeOK' /\ Registering'
  BY <1>3 DEF PostPassword
<1>4. ASSUME NEW how \in {"dead", "down"}, Die(how) PROVE TypeOK' /\ Registering'
  <2>1. console' \in Seq(Commands) /\ Len(console') <= PipeCapacity
    BY <1>4, BoundsAssumption DEF Die
  <2>2. deaths' \in 0 .. MaxDeaths
    BY <1>4, BoundsAssumption DEF Die
  <2> QED
    BY <1>4, <2>1, <2>2 DEF Die
<1>5. CASE NoticeDeath \/ OtherCommand \/ JavaCreatesFile
  BY <1>5 DEF NoticeDeath, OtherCommand, JavaCreatesFile
<1> QED
  BY <1>1, <1>2, <1>3, <1>4, <1>5, <1>6, <1>7 DEF JavaDies, Crash

\* Exec keeps the pipe within its capacity.
LEMMA ExecTypes ==
  ASSUME TypeOK, NEW c \in Commands, Exec(c) \/ ExecFails
  PROVE  /\ console' \in Seq(Commands) /\ Len(console') <= PipeCapacity
         /\ server' \in {"up", "dead", "nudged", "down"}
<1>1. PipeCapacity \in Nat
  BY BoundsAssumption
<1>2. console \in Seq(Commands) /\ Len(console) <= PipeCapacity
  BY DEF TypeOK
<1>3. CASE server = "up" /\ Len(console) < PipeCapacity
           /\ console' = Append(console, c) /\ UNCHANGED server
  BY <1>1, <1>2, <1>3
<1>4. CASE server = "dead" /\ server' = "nudged" /\ UNCHANGED console
  BY <1>2, <1>4
<1>5. CASE ExecFails
  BY <1>2, <1>5 DEF ExecFails
<1> QED
  BY <1>3, <1>4, <1>5 DEF Exec

\* The manager's steps.
LEMMA ManagerTypes ==
  ASSUME TypeOK, Registering, FromDatabase, ManagerStep
  PROVE  TypeOK' /\ Registering'
<1>1. CASE Tick \/ PasswordsDone \/ Check \/ Write
  BY <1>1 DEF Tick, PasswordsDone, Check, Write, TypeOK, Registering, FromDatabase
<1>2. ASSUME NEW l \in Logins, SkipPassword(l) PROVE TypeOK' /\ Registering'
  BY <1>2 DEF SkipPassword, TypeOK, Registering
<1>3. ASSUME NEW l \in Logins, RemoveAuth(l) PROVE TypeOK' /\ Registering'
  <2>1. [op |-> "remove", login |-> l] \in Commands
    BY DEF Commands
  <2>2. /\ console' \in Seq(Commands) /\ Len(console') <= PipeCapacity
        /\ server' \in {"up", "dead", "nudged", "down"}
    BY <1>3, <2>1, ExecTypes DEF RemoveAuth
  <2>3. /\ mgr' \in {"passwords", "register"} /\ todo' = todo \ {l}
        /\ cur' \in {cur, l} /\ (mgr' = "register" => cur' = l)
        /\ UNCHANGED <<want, bot, requests, memory, java, file, history, counters>>
    BY <1>3 DEF RemoveAuth, ExecFails
  <2>4. toSet[l] # NoPassword
    BY <1>3 DEF RemoveAuth, Registering
  <2>5. Registering'
    BY <2>3, <2>4 DEF Registering
  <2>6. TypeOK'
    BY <2>2, <2>3 DEF TypeOK
  <2> QED
    BY <2>5, <2>6
<1>4. CASE Register
  <2> DEFINE c == [op |-> "register", login |-> cur, password |-> toSet[cur]]
  <2>1. c \in Commands
    BY <1>4 DEF Register, TypeOK, Registering, Commands
  <2>2. Exec(c) \/ ExecFails
    BY <1>4 DEF Register
  <2>3. /\ console' \in Seq(Commands) /\ Len(console') <= PipeCapacity
        /\ server' \in {"up", "dead", "nudged", "down"}
    BY <2>1, <2>2, ExecTypes
  <2>4. /\ mgr = "register" /\ mgr' = "passwords"
        /\ toSet' = toSet \/ toSet' = [toSet EXCEPT ![cur] = NoPassword]
        /\ UNCHANGED <<want, bot, requests, neededSet, needed, todo, cur, java, file, history,
                      counters>>
    BY <1>4 DEF Register
  <2>5. Registering'
    BY <2>4 DEF Registering, TypeOK
  <2>6. toSet' \in [Logins -> Passwords \cup {NoPassword}]
    BY <2>4 DEF TypeOK
  <2>7. TypeOK'
    BY <2>3, <2>4, <2>6 DEF TypeOK
  <2> QED
    BY <2>5, <2>7
<1>5. CASE Reload
  <2>1. [op |-> "reload"] \in Commands
    BY DEF Commands
  <2>2. /\ console' \in Seq(Commands) /\ Len(console') <= PipeCapacity
        /\ server' \in {"up", "dead", "nudged", "down"}
    BY <1>5, <2>1, ExecTypes DEF Reload
  <2>3. mgr' = "select"
        /\ UNCHANGED <<want, bot, requests, memory, todo, cur, java, file, history, counters>>
    BY <1>5 DEF Reload
  <2> QED
    BY <2>2, <2>3 DEF TypeOK, Registering
<1> QED
  BY <1>1, <1>2, <1>3, <1>4, <1>5 DEF ManagerStep

\* The manager takes a request, Java reads, or the overseer is started again.
LEMMA OtherTypes ==
  ASSUME TypeOK, Registering,
         ReceiveWhitelist \/ ReceivePassword \/ JavaReads \/ Restart
  PROVE  TypeOK' /\ Registering'
<1>1. CASE ReceiveWhitelist
  BY <1>1 DEF ReceiveWhitelist, TypeOK, Registering
<1>2. CASE ReceivePassword
  <2>1. PICK r \in passwordReq :
          /\ toSet' = [toSet EXCEPT ![r[1]] = r[2]]
          /\ lastPassword' = [lastPassword EXCEPT ![r[1]] = r[2]]
          /\ passwordReq' = passwordReq \ {r}
    BY <1>2 DEF ReceivePassword
  <2>2. r[1] \in Logins /\ r[2] \in Passwords /\ r[2] # NoPassword
    BY PasswordsAssumption DEF TypeOK
  <2>3. /\ toSet' \in [Logins -> Passwords \cup {NoPassword}]
        /\ lastPassword' \in [Logins -> Passwords \cup {NoPassword}]
        /\ passwordReq' \subseteq Logins \X Passwords
    BY <2>1, <2>2 DEF TypeOK
  <2>4. mgr = "select" /\ UNCHANGED <<want, bot, whitelistReq, neededSet, needed, loop, pipe,
                                     java, file, wanted, counters>>
    BY <1>2 DEF ReceivePassword
  <2>5. Registering'
    BY <2>1, <2>2, <2>4 DEF Registering, TypeOK
  <2> QED
    BY <2>3, <2>4, <2>5 DEF TypeOK
<1>3. CASE JavaReads
  <2>1. console \in Seq(Commands) /\ console # <<>> /\ console' = Tail(console)
    BY <1>3 DEF JavaReads, TypeOK
  <2>2. console' \in Seq(Commands) /\ Len(console') <= PipeCapacity
    BY <2>1, BoundsAssumption DEF TypeOK
  <2>3. Head(console) \in Commands
    BY <2>1
  <2>4. listed' \in Whitelists \cup {{}}
    BY <1>3 DEF JavaReads, Loaded, Intact, TypeOK
  <2>5. auth' \in [Logins -> Passwords \cup {NoPassword}]
    BY <1>3, <2>3 DEF JavaReads, TypeOK, Commands
  <2>6. UNCHANGED <<want, bot, requests, memory, loop, server, file, history, counters>>
    BY <1>3 DEF JavaReads
  <2>7. Registering'
    BY <2>6 DEF Registering
  <2> QED
    BY <2>2, <2>4, <2>5, <2>6, <2>7 DEF TypeOK
<1>4. CASE Restart
  <2>1. listed' \in Whitelists \cup {{}}
    BY <1>4 DEF Restart, Loaded, Intact, TypeOK
  <2> QED
    BY <1>4, <2>1 DEF Restart, TypeOK, Registering
<1> QED
  BY <1>1, <1>2, <1>3, <1>4

\* The three invariants hold together.
Base == TypeOK /\ Registering /\ FromDatabase

\* All of it holds at the start.
LEMMA InitBase == Init => Base
<1> SUFFICES ASSUME Init PROVE TypeOK /\ Registering
  BY InitFromDatabase DEF Base
<1>1. Len(<<>>) <= PipeCapacity /\ <<>> \in Seq(Commands)
  BY BoundsAssumption
<1>2. 0 \in 0 .. MaxChanges /\ 0 \in 0 .. MaxErrors /\ 0 \in 0 .. MaxDeaths
  BY BoundsAssumption
<1> QED
  BY <1>1, <1>2 DEF Init, TypeOK, Registering

\* Every step keeps it.
LEMMA BaseStep == Base /\ [Next]_vars => Base'
<1> SUFFICES ASSUME Base, [Next]_vars PROVE TypeOK' /\ Registering'
  BY FromDatabaseStep DEF Base
<1>1. CASE UNCHANGED vars
  BY <1>1 DEF Base, TypeOK, Registering
<1> QED
  BY <1>1, OutsideTypes, ManagerTypes, OtherTypes DEF Base, Next, JavaStep

\* The types are kept by every step, and the pipe within its capacity.
THEOREM TypeCorrect == Spec => []TypeOK
BY InitBase, BaseStep, PTL DEF Spec, Base

-----------------------------------------------------------------------------
\* The last password.  The pipe has one writer, so that an account is registered
\* by the command after the one that removed it.
About(c, l) == c.op # "reload" /\ c.login = l
Removal(l) == [op |-> "remove", login |-> l]
Registration(l) == [op |-> "register", login |-> l, password |-> lastPassword[l]]

RemovedFirst ==
  \A i \in 1 .. Len(console) : console[i].op = "register" =>
    IF i = 1 THEN auth[console[i].login] = NoPassword
             ELSE console[i - 1] = Removal(console[i].login)
RemovedLast ==
  mgr = "register" =>
    IF Len(console) = 0 THEN auth[cur] = NoPassword
                        ELSE console[Len(console)] = Removal(cur)
Settling ==
  \A l \in Logins : toSet[l] = NoPassword =>
    \/ auth[l] = lastPassword[l] /\ \A i \in 1 .. Len(console) : ~About(console[i], l)
    \/ \E i \in 1 .. Len(console) :
         /\ console[i] = Registration(l)
         /\ \A k \in 1 .. Len(console) : k > i => ~About(console[k], l)
PasswordInv ==
  deaths = 0 =>
    /\ server = "up"
    /\ \A l \in Logins : toSet[l] \in {NoPassword, lastPassword[l]}
    /\ RemovedFirst /\ RemovedLast /\ Settling

\* What another command at the end of the pipe leaves of it.
LEMMA AppendKeeps ==
  ASSUME TypeOK, RemovedFirst, NEW c \in Commands, console' = Append(console, c),
         UNCHANGED auth,
         c.op = "register" =>
           IF Len(console) = 0 THEN auth[c.login] = NoPassword
                               ELSE console[Len(console)] = Removal(c.login)
  PROVE  /\ RemovedFirst'
         /\ Len(console') = Len(console) + 1 /\ console'[Len(console')] = c
         /\ \A i \in 1 .. Len(console) : console'[i] = console[i]
<1>1. console \in Seq(Commands)
  BY DEF TypeOK
<1>2. /\ Len(console') = Len(console) + 1 /\ console'[Len(console')] = c
      /\ \A i \in 1 .. Len(console) : console'[i] = console[i]
  BY <1>1
<1>3. SUFFICES ASSUME NEW i \in 1 .. Len(console'), console'[i].op = "register"
               PROVE  IF i = 1 THEN auth'[console'[i].login] = NoPassword
                               ELSE console'[i - 1] = Removal(console'[i].login)
  BY <1>2 DEF RemovedFirst, Removal
<1>4. CASE i \in 1 .. Len(console)
  <2>1. i # 1 => i - 1 \in 1 .. Len(console)
    BY <1>1, <1>4
  <2> QED
    BY <1>2, <1>3, <1>4, <2>1 DEF RemovedFirst
<1>5. CASE i = Len(console) + 1
  <2>1. Len(console) \in Nat /\ (i # 1 => Len(console) \in 1 .. Len(console))
    BY <1>1, <1>5
  <2> QED
    BY <1>2, <1>3, <1>5, <2>1
<1> QED
  BY <1>1, <1>2, <1>4, <1>5

\* Removing an account leaves it to be registered.
LEMMA RemoveKeeps ==
  ASSUME Base, PasswordInv, deaths' = 0, NEW l \in Logins, RemoveAuth(l)
  PROVE  PasswordInv'
<1>1. TypeOK /\ deaths = 0 /\ server = "up" /\ toSet[l] # NoPassword
  BY DEF RemoveAuth, PasswordInv, Base, Registering
<1>2. /\ console' = Append(console, Removal(l)) /\ mgr' = "register" /\ cur' = l
      /\ UNCHANGED <<server, toSet, auth, lastPassword>>
  BY <1>1 DEF RemoveAuth, Exec, ExecFails, Removal
<1>3. Removal(l) \in Commands /\ Removal(l).op = "remove" /\ Removal(l).login = l
  BY DEF Removal, Commands
<1>4. /\ RemovedFirst'
      /\ Len(console') = Len(console) + 1 /\ console'[Len(console')] = Removal(l)
      /\ \A i \in 1 .. Len(console) : console'[i] = console[i]
  BY <1>1, <1>2, <1>3, AppendKeeps DEF PasswordInv
<1>5. Len(console) \in Nat
  BY <1>1 DEF TypeOK
<1>6. RemovedLast'
  BY <1>2, <1>4, <1>5 DEF RemovedLast, Removal
<1>7. Settling'
  <2> SUFFICES ASSUME NEW m \in Logins, toSet'[m] = NoPassword
               PROVE  \/ auth'[m] = lastPassword'[m] /\ \A i \in 1 .. Len(console') : ~About(console'[i], m)
                      \/ \E i \in 1 .. Len(console') :
                           /\ console'[i] = Registration(m)'
                           /\ \A k \in 1 .. Len(console') : k > i => ~About(console'[k], m)
    BY DEF Settling
  <2>1. m # l /\ toSet[m] = NoPassword
    BY <1>1, <1>2
  <2>2. \A i \in 1 .. Len(console') : i \in 1 .. Len(console) \/ i = Len(console')
    BY <1>4, <1>5
  <2>3. ~About(console'[Len(console')], m)
    BY <1>3, <1>4, <2>1 DEF About
  <2>4. \A i \in 1 .. Len(console) : About(console'[i], m) <=> About(console[i], m)
    BY <1>4 DEF About
  <2>5. Registration(m)' = Registration(m)
    BY <1>2 DEF Registration
  <2>6. CASE auth[m] = lastPassword[m] /\ \A i \in 1 .. Len(console) : ~About(console[i], m)
    BY <1>2, <2>2, <2>3, <2>4, <2>6
  <2>7. ASSUME NEW i \in 1 .. Len(console), console[i] = Registration(m),
               \A k \in 1 .. Len(console) : k > i => ~About(console[k], m)
        PROVE  \E j \in 1 .. Len(console') :
                 /\ console'[j] = Registration(m)'
                 /\ \A k \in 1 .. Len(console') : k > j => ~About(console'[k], m)
    BY <1>4, <1>5, <2>2, <2>3, <2>4, <2>5, <2>7
  <2> QED
    BY <1>1, <2>1, <2>6, <2>7 DEF PasswordInv, Settling
<1> QED
  BY <1>1, <1>2, <1>4, <1>6, <1>7 DEF PasswordInv

\* Registering it puts the last password at the end of the pipe.
LEMMA RegisterKeeps ==
  ASSUME Base, PasswordInv, deaths' = 0, Register
  PROVE  PasswordInv'
<1> DEFINE c == [op |-> "register", login |-> cur, password |-> toSet[cur]]
<1>1. /\ TypeOK /\ deaths = 0 /\ server = "up" /\ mgr = "register" /\ cur \in Logins
      /\ toSet[cur] # NoPassword /\ toSet[cur] = lastPassword[cur]
  BY DEF Register, PasswordInv, Base, Registering, TypeOK
<1>2. /\ console' = Append(console, c) /\ mgr' = "passwords"
      /\ toSet' = [toSet EXCEPT ![cur] = NoPassword]
      /\ UNCHANGED <<server, auth, lastPassword, cur>>
  BY <1>1 DEF Register, Exec, ExecFails
<1>3. c \in Commands /\ c.op = "register" /\ c.login = cur /\ c = Registration(cur)
  BY <1>1 DEF Commands, TypeOK, Registration
<1>4. IF Len(console) = 0 THEN auth[cur] = NoPassword
                          ELSE console[Len(console)] = Removal(cur)
  BY <1>1 DEF PasswordInv, RemovedLast
<1>5. /\ RemovedFirst'
      /\ Len(console') = Len(console) + 1 /\ console'[Len(console')] = c
      /\ \A i \in 1 .. Len(console) : console'[i] = console[i]
  <2> HIDE DEF c
  <2> QED
    BY <1>1, <1>2, <1>3, <1>4, AppendKeeps DEF PasswordInv
<1>6. Len(console) \in Nat
  BY <1>1 DEF TypeOK
<1>7. Settling'
  <2> SUFFICES ASSUME NEW m \in Logins, toSet'[m] = NoPassword
               PROVE  \/ auth'[m] = lastPassword'[m] /\ \A i \in 1 .. Len(console') : ~About(console'[i], m)
                      \/ \E i \in 1 .. Len(console') :
                           /\ console'[i] = Registration(m)'
                           /\ \A k \in 1 .. Len(console') : k > i => ~About(console'[k], m)
    BY DEF Settling
  <2>1. Registration(m)' = Registration(m)
    BY <1>2 DEF Registration
  <2>2. \A i \in 1 .. Len(console') : i \in 1 .. Len(console) \/ i = Len(console')
    BY <1>5, <1>6
  <2>3. CASE m = cur
    <3>1. Len(console') \in 1 .. Len(console') /\ console'[Len(console')] = Registration(m)'
      BY <1>3, <1>5, <1>6, <2>1, <2>3
    <3>2. \A k \in 1 .. Len(console') : ~(k > Len(console'))
      BY <1>5, <1>6
    <3> QED
      BY <3>1, <3>2
  <2>4. CASE m # cur
    <3>1. toSet[m] = NoPassword
      BY <1>1, <1>2, <2>4 DEF TypeOK
    <3>2. ~About(console'[Len(console')], m)
      BY <1>3, <1>5, <2>4 DEF About
    <3>3. \A i \in 1 .. Len(console) : About(console'[i], m) <=> About(console[i], m)
      BY <1>5 DEF About
    <3>4. CASE auth[m] = lastPassword[m] /\ \A i \in 1 .. Len(console) : ~About(console[i], m)
      BY <1>2, <2>2, <3>2, <3>3, <3>4
    <3>5. ASSUME NEW i \in 1 .. Len(console), console[i] = Registration(m),
                 \A k \in 1 .. Len(console) : k > i => ~About(console[k], m)
          PROVE  \E j \in 1 .. Len(console') :
                   /\ console'[j] = Registration(m)'
                   /\ \A k \in 1 .. Len(console') : k > j => ~About(console'[k], m)
      BY <1>5, <1>6, <2>1, <2>2, <3>2, <3>3, <3>5
    <3> QED
      BY <1>1, <3>1, <3>4, <3>5 DEF PasswordInv, Settling
  <2> QED
    BY <2>3, <2>4
<1>8. \A l \in Logins : toSet'[l] \in {NoPassword, lastPassword'[l]}
  BY <1>1, <1>2 DEF PasswordInv, TypeOK
<1> QED
  BY <1>1, <1>2, <1>5, <1>7, <1>8 DEF PasswordInv, RemovedLast

\* Reloading the whitelist is about no account.
LEMMA ReloadKeeps ==
  ASSUME Base, PasswordInv, deaths' = 0, Reload
  PROVE  PasswordInv'
<1> DEFINE c == [op |-> "reload"]
<1>1. TypeOK /\ deaths = 0 /\ server = "up"
  BY DEF Reload, PasswordInv, Base
<1>2. /\ console' = Append(console, c) /\ mgr' = "select"
      /\ UNCHANGED <<server, toSet, auth, lastPassword>>
  BY <1>1 DEF Reload, Exec, ExecFails
<1>3. c \in Commands /\ c.op = "reload"
  BY DEF Commands
<1>4. /\ RemovedFirst'
      /\ Len(console') = Len(console) + 1 /\ console'[Len(console')] = c
      /\ \A i \in 1 .. Len(console) : console'[i] = console[i]
  <2> HIDE DEF c
  <2> QED
    BY <1>1, <1>2, <1>3, AppendKeeps DEF PasswordInv
<1>5. Len(console) \in Nat
  BY <1>1 DEF TypeOK
<1>6. Settling'
  <2> SUFFICES ASSUME NEW m \in Logins, toSet'[m] = NoPassword
               PROVE  \/ auth'[m] = lastPassword'[m] /\ \A i \in 1 .. Len(console') : ~About(console'[i], m)
                      \/ \E i \in 1 .. Len(console') :
                           /\ console'[i] = Registration(m)'
                           /\ \A k \in 1 .. Len(console') : k > i => ~About(console'[k], m)
    BY DEF Settling
  <2>1. Registration(m)' = Registration(m) /\ toSet[m] = NoPassword
    BY <1>2 DEF Registration
  <2>2. \A i \in 1 .. Len(console') : i \in 1 .. Len(console) \/ i = Len(console')
    BY <1>4, <1>5
  <2>3. ~About(console'[Len(console')], m)
    BY <1>3, <1>4 DEF About
  <2>4. \A i \in 1 .. Len(console) : About(console'[i], m) <=> About(console[i], m)
    BY <1>4 DEF About
  <2>5. CASE auth[m] = lastPassword[m] /\ \A i \in 1 .. Len(console) : ~About(console[i], m)
    BY <1>2, <2>2, <2>3, <2>4, <2>5
  <2>6. ASSUME NEW i \in 1 .. Len(console), console[i] = Registration(m),
               \A k \in 1 .. Len(console) : k > i => ~About(console[k], m)
        PROVE  \E j \in 1 .. Len(console') :
                 /\ console'[j] = Registration(m)'
                 /\ \A k \in 1 .. Len(console') : k > j => ~About(console'[k], m)
    BY <1>4, <1>5, <2>1, <2>2, <2>3, <2>4, <2>6
  <2> QED
    BY <1>1, <2>1, <2>5, <2>6 DEF PasswordInv, Settling
<1> QED
  BY <1>1, <1>2, <1>4, <1>6 DEF PasswordInv, RemovedLast

\* Java takes the first command: a registration finds the account removed.
LEMMA ReadsKeeps ==
  ASSUME Base, PasswordInv, deaths' = 0, JavaReads
  PROVE  PasswordInv'
<1>1. /\ TypeOK /\ deaths = 0 /\ server = "up"
      /\ UNCHANGED <<server, toSet, lastPassword, mgr, cur>>
  BY DEF JavaReads, PasswordInv, Base
<1>2. /\ console \in Seq(Commands) /\ console # <<>> /\ console' = Tail(console)
      /\ auth \in [Logins -> Passwords \cup {NoPassword}]
  BY <1>1 DEF JavaReads, TypeOK
<1>3. /\ Len(console) \in Nat \ {0} /\ Len(console') = Len(console) - 1
      /\ \A i \in 1 .. Len(console') : console'[i] = console[i + 1] /\ i + 1 \in 1 .. Len(console)
      /\ Head(console) = console[1] /\ console[1] \in Commands /\ 1 \in 1 .. Len(console)
  BY <1>2
<1>4. \A m \in Logins : ~About(console[1], m) => auth'[m] = auth[m]
  BY <1>2, <1>3 DEF JavaReads, About, Commands
<1>5. \A m \in Logins : console[1] = Removal(m) => auth'[m] = NoPassword
  BY <1>2, <1>3 DEF JavaReads, Removal
<1>6. ASSUME NEW m \in Logins, console[1] = Registration(m)
      PROVE  auth'[m] = lastPassword[m]
  <2>1. auth[m] = NoPassword
    BY <1>1, <1>3, <1>6 DEF PasswordInv, RemovedFirst, Registration
  <2>2. /\ console[1].op = "register" /\ console[1].login = m
        /\ console[1].password = lastPassword[m]
    BY <1>6 DEF Registration
  <2> QED
    BY <1>2, <1>3, <2>1, <2>2 DEF JavaReads
<1>7. RemovedFirst'
  <2> SUFFICES ASSUME NEW i \in 1 .. Len(console'), console'[i].op = "register"
               PROVE  IF i = 1 THEN auth'[console'[i].login] = NoPassword
                               ELSE console'[i - 1] = Removal(console'[i].login)
    BY DEF RemovedFirst, Removal
  <2>1. /\ console'[i] = console[i + 1] /\ i + 1 \in 1 .. Len(console) /\ i + 1 # 1
        /\ i \in 1 .. Len(console) /\ (i + 1) - 1 = i
    BY <1>3
  <2>2. console[i] = Removal(console'[i].login)
    BY <1>1, <2>1 DEF PasswordInv, RemovedFirst
  <2>3. console'[i].login \in Logins
    BY <1>2, <2>1 DEF Commands
  <2>4. CASE i = 1
    BY <1>5, <2>2, <2>3, <2>4
  <2>5. CASE i # 1
    <3>1. i - 1 \in 1 .. Len(console') /\ (i - 1) + 1 = i
      BY <2>5, <1>3
    <3> QED
      BY <1>3, <2>2, <2>5, <3>1
  <2> QED
    BY <2>4, <2>5
<1>8. RemovedLast'
  <2> SUFFICES ASSUME mgr = "register"
               PROVE  IF Len(console') = 0 THEN auth'[cur] = NoPassword
                                           ELSE console'[Len(console')] = Removal(cur)
    BY <1>1 DEF RemovedLast, Removal
  <2>1. console[Len(console)] = Removal(cur) /\ cur \in Logins
    BY <1>1, <1>3 DEF PasswordInv, RemovedLast, TypeOK
  <2>2. CASE Len(console') = 0
    <3>1. Len(console) = 1
      BY <1>3, <2>2
    <3>2. console[1] = Removal(cur)
      BY <2>1, <3>1
    <3>3. auth'[cur] = NoPassword
      BY <1>5, <2>1, <3>2
    <3> QED
      BY <2>2, <3>3
  <2>3. CASE Len(console') # 0
    <3>1. Len(console') \in 1 .. Len(console') /\ Len(console') + 1 = Len(console)
      BY <1>3, <2>3
    <3> QED
      BY <1>3, <2>1, <2>3, <3>1
  <2> QED
    BY <2>2, <2>3
<1>9. Settling'
  <2> SUFFICES ASSUME NEW m \in Logins, toSet'[m] = NoPassword
               PROVE  \/ auth'[m] = lastPassword'[m] /\ \A i \in 1 .. Len(console') : ~About(console'[i], m)
                      \/ \E i \in 1 .. Len(console') :
                           /\ console'[i] = Registration(m)'
                           /\ \A k \in 1 .. Len(console') : k > i => ~About(console'[k], m)
    BY DEF Settling
  <2>1. /\ Registration(m)' = Registration(m) /\ toSet[m] = NoPassword
        /\ lastPassword'[m] = lastPassword[m]
    BY <1>1 DEF Registration
  <2>2. CASE auth[m] = lastPassword[m] /\ \A i \in 1 .. Len(console) : ~About(console[i], m)
    <3>1. auth'[m] = auth[m]
      BY <1>3, <1>4, <2>2
    <3>2. \A i \in 1 .. Len(console') : ~About(console'[i], m)
      BY <1>3, <2>2
    <3> QED
      BY <2>1, <2>2, <3>1, <3>2
  <2>3. ASSUME NEW i \in 1 .. Len(console), console[i] = Registration(m),
               \A k \in 1 .. Len(console) : k > i => ~About(console[k], m)
        PROVE  \/ auth'[m] = lastPassword'[m] /\ \A k \in 1 .. Len(console') : ~About(console'[k], m)
               \/ \E j \in 1 .. Len(console') :
                    /\ console'[j] = Registration(m)'
                    /\ \A k \in 1 .. Len(console') : k > j => ~About(console'[k], m)
    <3>1. CASE i = 1
      <4>1. auth'[m] = lastPassword'[m]
        BY <1>6, <2>1, <2>3, <3>1
      <4>2. ASSUME NEW k \in 1 .. Len(console') PROVE ~About(console'[k], m)
        <5>1. k + 1 \in 1 .. Len(console) /\ k + 1 > i /\ console'[k] = console[k + 1]
          BY <1>3, <3>1
        <5> QED
          BY <2>3, <5>1
      <4> QED
        BY <4>1, <4>2
    <3>2. CASE i # 1
      <4>1. i - 1 \in 1 .. Len(console') /\ (i - 1) + 1 = i
        BY <1>3, <3>2
      <4>2. console'[i - 1] = Registration(m)'
        BY <1>3, <2>1, <2>3, <4>1
      <4>3. ASSUME NEW k \in 1 .. Len(console'), k > i - 1 PROVE ~About(console'[k], m)
        <5>1. k + 1 \in 1 .. Len(console) /\ k + 1 > i /\ console'[k] = console[k + 1]
          BY <1>3, <4>3
        <5> QED
          BY <2>3, <5>1
      <4> QED
        BY <4>1, <4>2, <4>3
    <3> QED
      BY <3>1, <3>2
  <2> QED
    BY <1>1, <2>1, <2>2, <2>3 DEF PasswordInv, Settling
<1> QED
  BY <1>1, <1>7, <1>8, <1>9 DEF PasswordInv

\* A password that comes is the last one, and is to be set.
LEMMA ReceiveKeeps ==
  ASSUME Base, PasswordInv, deaths' = 0, ReceivePassword
  PROVE  PasswordInv'
<1>1. /\ TypeOK /\ deaths = 0 /\ mgr = "select"
      /\ UNCHANGED <<server, console, auth, mgr, cur>>
  BY DEF ReceivePassword, PasswordInv, Base
<1>2. PICK r \in passwordReq :
        /\ toSet' = [toSet EXCEPT ![r[1]] = r[2]]
        /\ lastPassword' = [lastPassword EXCEPT ![r[1]] = r[2]]
  BY DEF ReceivePassword
<1>3. r[1] \in Logins /\ r[2] # NoPassword
  BY <1>1, PasswordsAssumption DEF TypeOK
<1>4. /\ toSet'[r[1]] = r[2] /\ lastPassword'[r[1]] = r[2]
      /\ \A m \in Logins \ {r[1]} : toSet'[m] = toSet[m] /\ lastPassword'[m] = lastPassword[m]
  BY <1>1, <1>2, <1>3 DEF TypeOK
<1>5. \A l \in Logins : toSet'[l] \in {NoPassword, lastPassword'[l]}
  BY <1>1, <1>4 DEF PasswordInv
<1>6. Settling'
  <2> SUFFICES ASSUME NEW m \in Logins, toSet'[m] = NoPassword
               PROVE  \/ auth'[m] = lastPassword'[m] /\ \A i \in 1 .. Len(console') : ~About(console'[i], m)
                      \/ \E i \in 1 .. Len(console') :
                           /\ console'[i] = Registration(m)'
                           /\ \A k \in 1 .. Len(console') : k > i => ~About(console'[k], m)
    BY DEF Settling
  <2>1. m # r[1] /\ toSet[m] = NoPassword /\ lastPassword'[m] = lastPassword[m]
    BY <1>3, <1>4
  <2>2. Registration(m)' = Registration(m)
    BY <2>1 DEF Registration
  <2> QED
    BY <1>1, <2>1, <2>2 DEF PasswordInv, Settling
<1> QED
  BY <1>1, <1>5, <1>6 DEF PasswordInv, RemovedFirst, RemovedLast, Removal

\* Steps that leave the pipe, the registrations and the passwords alone.
LEMMA IdleKeeps ==
  ASSUME PasswordInv, deaths' = 0 => deaths = 0,
         deaths' = 0 => UNCHANGED <<server, console, auth, toSet, lastPassword>>,
         deaths' = 0 => mgr' # "register" \/ UNCHANGED <<mgr, cur>>
  PROVE  PasswordInv'
<1> SUFFICES ASSUME deaths' = 0
             PROVE  /\ server' = "up"
                    /\ \A l \in Logins : toSet'[l] \in {NoPassword, lastPassword'[l]}
                    /\ RemovedFirst' /\ RemovedLast' /\ Settling'
  BY DEF PasswordInv
<1> USE DEF PasswordInv
<1>1. RemovedFirst' /\ RemovedLast'
  BY DEF RemovedFirst, RemovedLast, Removal
<1>2. Settling'
  BY DEF Settling, Registration, About
<1> QED
  BY <1>1, <1>2

\* Every step keeps the last passwords.
LEMMA PasswordStep == Base /\ PasswordInv /\ [Next]_vars => PasswordInv'
<1> SUFFICES ASSUME Base, PasswordInv, [Next]_vars PROVE PasswordInv'
  OBVIOUS
<1>1. deaths \in Nat /\ deaths' \in Nat
  BY BaseStep, BoundsAssumption DEF Base, TypeOK
<1>2. ASSUME deaths' # 0 PROVE PasswordInv'
  BY <1>2 DEF PasswordInv
<1>3. CASE UNCHANGED vars
  BY <1>3, IdleKeeps
<1>4. ASSUME NEW w \in Whitelists, ChangeWant(w) PROVE PasswordInv'
  BY <1>4, IdleKeeps DEF ChangeWant
<1>5. CASE Post \/ Answered \/ PostFails \/ ReceiveWhitelist
  BY <1>5, IdleKeeps DEF Post, Answered, PostFails, ReceiveWhitelist
<1>6. ASSUME NEW l \in Logins, NEW p \in Passwords, PostPassword(l, p) PROVE PasswordInv'
  BY <1>6, IdleKeeps DEF PostPassword
<1>7. CASE \/ Tick \/ PasswordsDone \/ Check \/ Write \/ WriteFails \/ OpenFails
           \/ JavaCreatesFile
  BY <1>7, IdleKeeps
  DEF Tick, PasswordsDone, Check, Write, WriteFails, OpenFails, JavaCreatesFile
<1>8. ASSUME NEW l \in Logins, SkipPassword(l) PROVE PasswordInv'
  BY <1>8, IdleKeeps DEF SkipPassword
<1>9. CASE JavaDies \/ Crash
  <2>1. deaths' # 0
    BY <1>1, <1>9 DEF JavaDies, Crash, Die
  <2> QED
    BY <1>2, <2>1
<1>10. CASE NoticeDeath \/ OtherCommand \/ Restart
  <2>1. deaths' = deaths /\ server # "up"
    BY <1>10 DEF NoticeDeath, OtherCommand, Restart
  <2> QED
    BY <2>1 DEF PasswordInv
<1>11. ASSUME NEW l \in Logins, RemoveAuth(l) PROVE PasswordInv'
  BY <1>2, <1>11, RemoveKeeps
<1> QED
  BY <1>2, <1>3, <1>4, <1>5, <1>6, <1>7, <1>8, <1>9, <1>10, <1>11,
     RegisterKeeps, ReloadKeeps, ReadsKeeps, ReceiveKeeps
     DEF Next, ManagerStep, JavaStep

\* Until Java dies no account is left unregistered or with an older password,
\* whatever is received, lost or late, for any number of accounts and passwords.
THEOREM LastPasswordCorrect == Spec => []LastPasswordWins
<1>1. Init => PasswordInv
  BY DEF Init, PasswordInv, RemovedFirst, RemovedLast, Settling
<1>2. PasswordInv => LastPasswordWins
  <2> SUFFICES ASSUME Settling, NEW l \in Logins, toSet[l] = NoPassword,
                      NEW i \in 1 .. Len(console), console[i] = Registration(l)
               PROVE  console[i].op # "reload" /\ console[i].login = l
    BY DEF PasswordInv, LastPasswordWins, Settling
  <2> QED
    BY DEF Registration
<1> QED
  BY <1>1, <1>2, InitBase, BaseStep, PasswordStep, PTL DEF Spec
=============================================================================
