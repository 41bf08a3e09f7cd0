----------------------- MODULE MinecraftLoginsProofs -----------------------
(***************************************************************************)
(* The safety properties of MinecraftLogins for any number of actors,      *)
(* ChatHandlers and logins and any limits, and what is left of their       *)
(* exceptions when one ChatHandler works for each actor: limits are kept,  *)
(* and what was checked of a login holds when it is acted on.              *)
(***************************************************************************)
EXTENDS MinecraftLogins, FiniteSetTheorems, TLAPS

OneChatEach == \A g, h \in Handlers : actorOf[g] = actorOf[h] => g = h

\* Steps that have a login to work on.
WithLogin == {"check", "find", "create", "update", "mayRevoke", "save", "mayPassword", "post"}

WorksOnLogin == \A h \in Handlers : pc[h] \in WithLogin => arg[h] \in Logins

\* updateAdminStatus compares with AdminTags.
AdminsTagged == admins \subseteq AdminTagged

\* Acceptance, once checked, stays until the login is taken.
TakersAccepted == \A h \in Handlers : Taking(h) => actorOf[h] \in accepted

\* What holds however many ChatHandlers an actor has.
BaseInv ==
  /\ TypeOK
  /\ WorksOnLogin
  /\ AdminsTagged
  /\ TakersAccepted
  /\ OwnersAccepted

\* Who never is an admin and has a limit.
Limited(a) == a \notin AdminTagged /\ limitOf[a] >= 0

\* Each ChatHandler may have found room for the same last login.
Most(a) ==
  IF HandlersOf(a) = {} THEN limitOf[a] ELSE limitOf[a] + Cardinality(HandlersOf(a)) - 1

\* A login is counted when the limit has been checked for it: as a message on
\* its way to take it and then as one that is owned.
RoomCounted ==
  \A a \in Actors :
    Limited(a) => Cardinality(Owned(a)) + Cardinality(Takers(a)) <= Most(a)

\* What a message has found of the login it works on is so, or another conversation
\* has given the login back.
StillOwned(h) == pc[h] \in {"save", "mayPassword", "post"} => owner[arg[h]] = actorOf[h]
StillOffline(h) == pc[h] \in {"mayPassword", "post"} => arg[h] \notin online
CheckedStill ==
  \A h \in Handlers : h \in released \/ (StillOwned(h) /\ StillOffline(h))
CheckedStrictly ==
  \A h \in Handlers : h \notin released /\ StillOwned(h) /\ StillOffline(h)

-----------------------------------------------------------------------------
HandlerStep(h) ==
  AddStep(h) \/ RevokeStep(h) \/ PasswordStep(h) \/ Abort(h) \/ AskAgain(h) \/ DbError(h)

WorkTypeOK ==
  /\ conv \in [Handlers -> Conversations]
  /\ pc \in [Handlers -> Steps]
  /\ arg \in [Handlers -> Logins \cup {NoLogin}]
  /\ official \in [Handlers -> BOOLEAN]

\* The conversations a message can end with.
LEMMA ConversationTypes ==
  /\ Menu \in Conversations /\ Revoking \in Conversations /\ Repassword \in Conversations
  /\ \A l \in Logins \cup {NoLogin}, k \in BOOLEAN : Adding(l, k) \in Conversations
BY DEF Conversations

\* The login a conversation has been told is a login or none.
LEMMA ConversationLogin ==
  ASSUME NEW c \in Conversations
  PROVE  c.login \in Logins \cup {NoLogin}
BY DEF Conversations, Menu, Revoking, Repassword, Adding

\* The three ways a step of a message leaves the handler keep the types.
LEMMA LeaveTypes ==
  ASSUME WorkTypeOK, NEW h \in Handlers, NEW c \in Conversations, Leave(h, c)
  PROVE  WorkTypeOK'
BY DEF WorkTypeOK, Leave, Steps

\* Likewise when the message goes on with its next statement.
LEMMA GoOnTypes ==
  ASSUME WorkTypeOK, NEW h \in Handlers, NEW step \in Steps, GoOn(h, step)
  PROVE  WorkTypeOK'
BY DEF WorkTypeOK, GoOn

\* Likewise when its first statement is begun.
LEMMA BeginTypes ==
  ASSUME WorkTypeOK, NEW h \in Handlers, NEW c \in Conversations, NEW step \in Steps,
         NEW l \in Logins \cup {NoLogin}, NEW b \in BOOLEAN, Begin(h, c, step, l, b)
  PROVE  WorkTypeOK'
BY DEF WorkTypeOK, Begin

\* One message's steps touch no other handler's work.
LEMMA OthersUntouched ==
  ASSUME TypeOK, NEW h \in Handlers, HandlerStep(h), NEW g \in Handlers, g # h
  PROVE  pc'[g] = pc[g] /\ arg'[g] = arg[g] /\ (g \in released => g \in released')
<1> USE DEF TypeOK, Leave, EndWith, EndByError, GoOn, Begin, Taken, Message, Reading
<1>1. CASE AddStep(h)
  BY <1>1 DEF AddStep, AskAdd, CheckFirst, EnterFree, EnterOwn, EnterTaken, Choose,
     CheckAgain, FindRow, CreateRow, UpdateRow, Assign
<1>2. CASE RevokeStep(h)
  BY <1>2 DEF RevokeStep, AskWhich, EnterRevoked, CheckRevoke, SaveRow
<1>3. CASE PasswordStep(h)
  BY <1>3 DEF PasswordStep, AskWhich, EnterPassworded, CheckPassword, Post
<1>4. CASE Abort(h) \/ AskAgain(h) \/ DbError(h)
  BY <1>4 DEF Abort, AskAgain, DbError
<1> QED
  BY <1>1, <1>2, <1>3, <1>4 DEF HandlerStep

\* Owners and online flags change in two steps only: a login without owner is
\* taken, or the login of a revocation is freed.
LEMMA OwnershipSteps ==
  ASSUME TypeOK, NEW h \in Handlers, HandlerStep(h)
  PROVE  /\ UNCHANGED statuses
         /\ \/ UNCHANGED <<owner, online>>
            \/ pc[h] = "update" /\ owner[arg[h]] = NoActor /\ Assign(h, actorOf[h])
            \/ SaveRow(h)
<1> USE DEF TypeOK, Leave, EndWith, EndByError, GoOn, Begin, Taken, Message, Reading, accounts, statuses
<1>1. CASE AddStep(h)
  BY <1>1 DEF AddStep, AskAdd, CheckFirst, EnterFree, EnterOwn, EnterTaken, Choose,
     CheckAgain, FindRow, CreateRow, UpdateRow, Assign
<1>2. CASE RevokeStep(h)
  BY <1>2 DEF RevokeStep, AskWhich, EnterRevoked, CheckRevoke, SaveRow
<1>3. CASE PasswordStep(h)
  BY <1>3 DEF PasswordStep, AskWhich, EnterPassworded, CheckPassword, Post
<1>4. CASE Abort(h) \/ AskAgain(h) \/ DbError(h)
  BY <1>4 DEF Abort, AskAgain, DbError
<1> QED
  BY <1>1, <1>2, <1>3, <1>4 DEF HandlerStep

\* The three statements of AddMinecraftLogin come after the permission check
\* and after each other, and owners do not change on the way.
LEMMA TakingSteps ==
  ASSUME TypeOK, NEW h \in Handlers, HandlerStep(h), Taking(h)'
  PROVE  /\ UNCHANGED <<owner, online>>
         /\ Taking(h) \/ (pc[h] = "check" /\ MayAdd(actorOf[h]))
<1> USE DEF TypeOK, Leave, EndWith, EndByError, GoOn, Begin, Taken, Message, Reading, accounts, Taking
<1>1. CASE AddStep(h)
  BY <1>1 DEF AddStep, AskAdd, CheckFirst, EnterFree, EnterOwn, EnterTaken, Choose,
     CheckAgain, FindRow, CreateRow, UpdateRow, Assign
<1>2. CASE RevokeStep(h)
  BY <1>2 DEF RevokeStep, AskWhich, EnterRevoked, CheckRevoke, SaveRow
<1>3. CASE PasswordStep(h)
  BY <1>3 DEF PasswordStep, AskWhich, EnterPassworded, CheckPassword, Post
<1>4. CASE Abort(h) \/ AskAgain(h) \/ DbError(h)
  BY <1>4 DEF Abort, AskAgain, DbError
<1> QED
  BY <1>1, <1>2, <1>3, <1>4 DEF HandlerStep

\* A step that needs a login is given one.
LEMMA WithLoginSteps ==
  ASSUME TypeOK, WorksOnLogin, NEW h \in Handlers, HandlerStep(h), pc'[h] \in WithLogin
  PROVE  arg'[h] \in Logins
<1> USE ConversationLogin
    DEF TypeOK, WorksOnLogin, WithLogin, Leave, EndWith, EndByError, GoOn, Begin, Taken, Message, Reading
<1>1. CASE AddStep(h)
  BY <1>1 DEF AddStep, AskAdd, CheckFirst, EnterFree, EnterOwn, EnterTaken, Choose,
     CheckAgain, FindRow, CreateRow, UpdateRow, Assign
<1>2. CASE RevokeStep(h)
  BY <1>2 DEF RevokeStep, AskWhich, EnterRevoked, CheckRevoke, SaveRow
<1>3. CASE PasswordStep(h)
  BY <1>3 DEF PasswordStep, AskWhich, EnterPassworded, CheckPassword, Post
<1>4. CASE Abort(h) \/ AskAgain(h) \/ DbError(h)
  BY <1>4 DEF Abort, AskAgain, DbError
<1> QED
  BY <1>1, <1>2, <1>3, <1>4 DEF HandlerStep

\* Revocations and password requests start from a check of the owner.
LEMMA CheckedSteps ==
  ASSUME TypeOK, WorksOnLogin, CheckedStill, NEW h \in Handlers, HandlerStep(h)
  PROVE  h \in released' \/ (StillOwned(h)' /\ StillOffline(h)')
<1> USE ActorOfAssumption
    DEF TypeOK, WorksOnLogin, WithLogin, CheckedStill, StillOwned, StillOffline, Leave, EndWith, EndByError, GoOn, Begin, Taken,
        Message, Reading, accounts
<1>1. CASE AddStep(h)
  BY <1>1 DEF AddStep, AskAdd, CheckFirst, EnterFree, EnterOwn, EnterTaken, Choose,
     CheckAgain, FindRow, CreateRow, UpdateRow, Assign
<1>2. CASE RevokeStep(h)
  BY <1>2 DEF RevokeStep, AskWhich, EnterRevoked, CheckRevoke, SaveRow
<1>3. CASE PasswordStep(h)
  BY <1>3 DEF PasswordStep, AskWhich, EnterPassworded, CheckPassword, Post
<1>4. CASE Abort(h) \/ AskAgain(h) \/ DbError(h)
  BY <1>4 DEF Abort, AskAgain, DbError
<1> QED
  BY <1>1, <1>2, <1>3, <1>4 DEF HandlerStep

\* How a step of a message leaves its handler.
Leaves(h) ==
  \/ \E c \in Conversations : Leave(h, c)
  \/ \E step \in Steps : GoOn(h, step)
  \/ \E c \in Conversations, step \in Steps, l \in Logins \cup {NoLogin}, b \in BOOLEAN :
       Begin(h, c, step, l, b)

\* However a message leaves its handler, the types are kept.
LEMMA LeavesTypes ==
  ASSUME TypeOK, NEW h \in Handlers, Leaves(h)
  PROVE  WorkTypeOK'
<1>1. WorkTypeOK
  BY DEF TypeOK, WorkTypeOK
<1> QED
  BY <1>1, LeaveTypes, GoOnTypes, BeginTypes DEF Leaves

\* Every step of a message ends it, goes on with it or begins its statements.
LEMMA HandlerStepLeaves ==
  ASSUME TypeOK, NEW h \in Handlers, HandlerStep(h)
  PROVE  Leaves(h)
<1> USE ConversationTypes DEF Leaves, EndWith
<1>1. conv[h] \in Conversations /\ conv[h].login \in Logins \cup {NoLogin}
  BY ConversationLogin DEF TypeOK
<1>2. CASE AskAdd(h)
  BY <1>2 DEF AskAdd, Steps
<1>3. CASE CheckFirst(h) \/ CheckAgain(h)
  BY <1>1, <1>3 DEF CheckFirst, CheckAgain, EndByError, Steps
<1>4. ASSUME NEW l \in Logins, EnterFree(h, l) \/ EnterOwn(h, l) \/ EnterTaken(h, l)
      PROVE  Leaves(h)
  BY <1>1, <1>4 DEF EnterFree, EnterOwn, EnterTaken, Taken, EndByError, Steps
<1>5. ASSUME NEW b \in BOOLEAN, Choose(h, b) PROVE Leaves(h)
  BY <1>1, <1>5 DEF Choose, Steps
<1>6. CASE FindRow(h) \/ CreateRow(h)
  BY <1>1, <1>6 DEF FindRow, CreateRow, Taken, EndByError, Steps
<1>7. CASE UpdateRow(h) \/ SaveRow(h)
  BY <1>1, <1>7 DEF UpdateRow, Assign, Taken, EndByError, SaveRow, Steps
<1>8. CASE AskWhich(h, Revoking) \/ AskWhich(h, Repassword) \/ AskAgain(h) \/ Abort(h) \/ DbError(h)
  BY <1>1, <1>8 DEF AskWhich, AskAgain, Abort, DbError, EndByError
<1>9. ASSUME NEW l \in Logins, EnterRevoked(h, l) \/ EnterPassworded(h, l) PROVE Leaves(h)
  BY <1>1, <1>9 DEF EnterRevoked, EnterPassworded, Steps
<1>10. CASE CheckRevoke(h) \/ CheckPassword(h) \/ Post(h)
  BY <1>1, <1>10 DEF CheckRevoke, CheckPassword, Post, EndByError, Steps
<1> QED
  BY <1>2, <1>3, <1>4, <1>5, <1>6, <1>7, <1>8, <1>9, <1>10
     DEF HandlerStep, AddStep, RevokeStep, PasswordStep

\* A step of a message keeps the types of rows and of what is remembered.
LEMMA RowsTypes ==
  ASSUME TypeOK, WorksOnLogin, NEW h \in Handlers, HandlerStep(h)
  PROVE  rows' \subseteq Logins /\ told' \subseteq Handlers /\ released' \subseteq Handlers
<1> USE DEF TypeOK, WorksOnLogin, WithLogin, EndWith, EndByError, GoOn, Begin, HaveFound, Taken,
        Message, Reading, accounts
<1>1. CASE AddStep(h)
  BY <1>1 DEF AddStep, AskAdd, CheckFirst, EnterFree, EnterOwn, EnterTaken, Choose,
     CheckAgain, FindRow, CreateRow, UpdateRow, Assign
<1>2. CASE RevokeStep(h)
  BY <1>2 DEF RevokeStep, AskWhich, EnterRevoked, CheckRevoke, SaveRow
<1>3. CASE PasswordStep(h)
  BY <1>3 DEF PasswordStep, AskWhich, EnterPassworded, CheckPassword, Post
<1>4. CASE Abort(h) \/ AskAgain(h) \/ DbError(h)
  BY <1>4 DEF Abort, AskAgain, DbError
<1> QED
  BY <1>1, <1>2, <1>3, <1>4 DEF HandlerStep

-----------------------------------------------------------------------------
\* A bot that starts with an empty database satisfies BaseInv.
LEMMA InitBaseInv == Init => BaseInv
<1> SUFFICES ASSUME Init PROVE BaseInv
  OBVIOUS
<1>1. Menu \in Conversations
  BY ConversationTypes
<1>2. TypeOK
  BY <1>1 DEF Init, TypeOK, Steps
<1> QED
  BY <1>2 DEF Init, BaseInv, WorksOnLogin, WithLogin, AdminsTagged, TakersAccepted, Taking,
     OwnersAccepted

\* A message's step keeps BaseInv.
LEMMA BaseInvHandlerStep ==
  ASSUME BaseInv, NEW h \in Handlers, HandlerStep(h)
  PROVE  BaseInv'
<1> USE DEF BaseInv
<1>1. /\ WorkTypeOK'
      /\ rows' \subseteq Logins /\ told' \subseteq Handlers /\ released' \subseteq Handlers
  BY HandlerStepLeaves, LeavesTypes, RowsTypes
<1>2. /\ accepted' = accepted /\ banned' = banned /\ admins' = admins
      /\ \/ UNCHANGED <<owner, online>>
         \/ pc[h] = "update" /\ owner[arg[h]] = NoActor /\ Assign(h, actorOf[h])
         \/ SaveRow(h)
  BY OwnershipSteps DEF statuses
<1>3. owner' \in [Logins -> Actors \cup {NoActor}] /\ online' \subseteq Logins
  BY <1>2, ActorOfAssumption DEF TypeOK, WorksOnLogin, WithLogin, Assign, SaveRow
<1>4. TypeOK'
  BY <1>1, <1>2, <1>3 DEF TypeOK, WorkTypeOK
<1>5. WorksOnLogin'
  BY OthersUntouched, WithLoginSteps DEF WorksOnLogin
<1>6. AdminsTagged'
  BY <1>2 DEF AdminsTagged
<1>7. TakersAccepted'
  <2> SUFFICES ASSUME NEW g \in Handlers, Taking(g)' PROVE actorOf[g] \in accepted
    BY <1>2 DEF TakersAccepted
  <2>1. CASE g = h
    BY <2>1, TakingSteps DEF TakersAccepted, MayAdd, NotAccepted
  <2>2. CASE g # h
    BY <2>2, OthersUntouched DEF TakersAccepted, Taking
  <2> QED
    BY <2>1, <2>2
<1>8. OwnersAccepted'
  <2>1. CASE pc[h] = "update" /\ Assign(h, actorOf[h])
    <3>1. actorOf[h] \in accepted /\ arg[h] \in Logins
      BY <2>1 DEF TakersAccepted, Taking, WorksOnLogin, WithLogin
    <3> QED
      BY <1>2, <2>1, <3>1 DEF OwnersAccepted, Assign, TypeOK
  <2>2. CASE SaveRow(h) \/ UNCHANGED <<owner, online>>
    BY <1>2, <2>2 DEF OwnersAccepted, SaveRow, TypeOK
  <2> QED
    BY <1>2, <2>1, <2>2
<1> QED
  BY <1>4, <1>5, <1>6, <1>7, <1>8

\* So does whatever any conversation, an admin or a restart does next.
LEMMA BaseInvStep == BaseInv /\ [Next]_vars => BaseInv'
<1> SUFFICES ASSUME BaseInv, [Next]_vars PROVE BaseInv'
  OBVIOUS
<1> USE DEF BaseInv, TypeOK, WorksOnLogin, AdminsTagged, TakersAccepted, Taking, OwnersAccepted,
        accounts, statuses, working
<1>1. ASSUME NEW h \in Handlers, HandlerStep(h) PROVE BaseInv'
  BY <1>1, BaseInvHandlerStep
<1>2. ASSUME NEW a \in Actors, Accept(a) PROVE BaseInv'
  BY <1>2 DEF Accept
<1>3. ASSUME NEW a \in Actors, SetAdmin(a) PROVE BaseInv'
  BY <1>3 DEF SetAdmin
<1>4. ASSUME NEW a \in Actors, Ban(a) PROVE BaseInv'
  BY <1>4 DEF Ban
<1>5. CASE Restart
  <2>1. Menu \in Conversations
    BY ConversationTypes
  <2> QED
    BY <1>5, <2>1 DEF Restart, Steps, WithLogin
<1>6. CASE UNCHANGED vars
  BY <1>6 DEF vars
<1> QED
  BY <1>1, <1>2, <1>3, <1>4, <1>5, <1>6 DEF Next, HandlerStep

-----------------------------------------------------------------------------
\* The logins of an actor are finitely many, and fewer of them count less.
LEMMA OwnedFinite ==
  \A a : IsFiniteSet(Owned(a)) /\ Cardinality(Owned(a)) \in Nat
<1> TAKE a
<1>1. Owned(a) \subseteq Logins
  BY DEF Owned
<1> QED
  BY <1>1, LoginsAssumption, FS_Subset, FS_CardinalityType

\* An actor that is given no login does not hold more than before.
LEMMA OwnedShrinks ==
  ASSUME NEW a, Owned(a)' \subseteq Owned(a)
  PROVE  Cardinality(Owned(a))' <= Cardinality(Owned(a)) /\ Cardinality(Owned(a))' \in Nat
<1>1. IsFiniteSet(Owned(a)') /\ Cardinality(Owned(a)') <= Cardinality(Owned(a))
  BY OwnedFinite, FS_Subset
<1> QED
  BY <1>1, FS_CardinalityType

\* A step of a message gives a login to its own actor at most.
LEMMA OthersOwnNoMore ==
  ASSUME BaseInv, NEW h \in Handlers, HandlerStep(h), NEW a \in Actors, a # actorOf[h]
  PROVE  Cardinality(Owned(a))' <= Cardinality(Owned(a)) /\ Cardinality(Owned(a))' \in Nat
<1>1. Owned(a)' \subseteq Owned(a)
  BY OwnershipSteps, NoneAssumption DEF BaseInv, TypeOK, Owned, Assign, SaveRow
<1> QED
  BY <1>1, OwnedShrinks

\* Taking a login adds one.
LEMMA TakingAddsOne ==
  ASSUME BaseInv, NEW h \in Handlers, pc[h] = "update", owner[arg[h]] = NoActor,
         Assign(h, actorOf[h])
  PROVE  Cardinality(Owned(actorOf[h]))' = Cardinality(Owned(actorOf[h])) + 1
<1>1. arg[h] \in Logins /\ actorOf[h] \in Actors
  BY ActorOfAssumption DEF BaseInv, WorksOnLogin, WithLogin
<1>2. arg[h] \notin Owned(actorOf[h])
  BY <1>1, NoneAssumption DEF Owned
<1>3. Owned(actorOf[h])' = Owned(actorOf[h]) \cup {arg[h]}
  BY <1>1 DEF BaseInv, TypeOK, Owned, Assign
<1> QED
  BY <1>2, <1>3, OwnedFinite, FS_AddElement

\* So are the messages of an actor that are about to take one.
LEMMA TakersFinite ==
  \A a : /\ IsFiniteSet(HandlersOf(a)) /\ Cardinality(HandlersOf(a)) \in Nat
         /\ IsFiniteSet(Takers(a)) /\ Cardinality(Takers(a)) \in Nat
         /\ Cardinality(Takers(a)) <= Cardinality(HandlersOf(a))
<1> TAKE a
<1>1. HandlersOf(a) \subseteq Handlers /\ Takers(a) \subseteq HandlersOf(a)
  BY DEF HandlersOf, Takers
<1>2. IsFiniteSet(HandlersOf(a))
  BY <1>1, HandlersAssumption, FS_Subset
<1>3. IsFiniteSet(Takers(a)) /\ Cardinality(Takers(a)) <= Cardinality(HandlersOf(a))
  BY <1>1, <1>2, FS_Subset
<1> QED
  BY <1>2, <1>3, FS_CardinalityType

\* They are all there can be.
LEMMA TakersBounded ==
  \A a : /\ IsFiniteSet(Takers(a)') /\ Cardinality(Takers(a))' \in Nat
         /\ Cardinality(Takers(a))' <= Cardinality(HandlersOf(a))
<1> TAKE a
<1>1. Takers(a)' \subseteq HandlersOf(a)
  BY DEF HandlersOf, Takers
<1>2. IsFiniteSet(Takers(a)') /\ Cardinality(Takers(a)') <= Cardinality(HandlersOf(a))
  BY <1>1, TakersFinite, FS_Subset
<1> QED
  BY <1>2, FS_CardinalityType

\* An actor none of whose messages comes to take a login has no more of them.
LEMMA TakersShrink ==
  ASSUME NEW a, Takers(a)' \subseteq Takers(a)
  PROVE  Cardinality(Takers(a))' <= Cardinality(Takers(a)) /\ Cardinality(Takers(a))' \in Nat
<1>1. IsFiniteSet(Takers(a)') /\ Cardinality(Takers(a)') <= Cardinality(Takers(a))
  BY TakersFinite, FS_Subset
<1> QED
  BY <1>1, FS_CardinalityType

\* A message that takes its login is no longer on its way to one.
LEMMA TakingEnds ==
  ASSUME BaseInv, NEW h \in Handlers, HandlerStep(h), pc[h] = "update", Assign(h, actorOf[h])
  PROVE  Cardinality(Takers(actorOf[h]))' = Cardinality(Takers(actorOf[h])) - 1
<1>1. pc'[h] \in {"idle", "mayPassword"}
  BY DEF BaseInv, TypeOK, Assign, EndWith, Leave, GoOn
<1>2. \A g \in Handlers \ {h} : pc'[g] = pc[g]
  BY OthersUntouched DEF BaseInv
<1>3. h \in Takers(actorOf[h]) /\ Takers(actorOf[h])' = Takers(actorOf[h]) \ {h}
  BY <1>1, <1>2 DEF Takers, HandlersOf, Taking
<1> QED
  BY <1>3, TakersFinite, FS_RemoveElement

\* Before the first message nobody takes or holds anything.
LEMMA InitRoomCounted == Init => RoomCounted
<1> SUFFICES ASSUME Init, NEW a \in Actors, Limited(a)
             PROVE  Cardinality(Owned(a)) + Cardinality(Takers(a)) <= Most(a)
  BY DEF RoomCounted
<1>1. Owned(a) = {}
  BY NoneAssumption DEF Init, Owned
<1>2. Takers(a) = {}
  BY DEF Init, Takers, HandlersOf, Taking
<1>3. Cardinality(Owned(a)) = 0 /\ Cardinality(Takers(a)) = 0
  BY <1>1, <1>2, FS_EmptySet
<1>4. limitOf[a] \in Int /\ limitOf[a] >= 0
  BY LimitAssumption DEF Limited
<1>5. HandlersOf(a) # {} => Cardinality(HandlersOf(a)) >= 1
  BY TakersFinite, FS_EmptySet
<1> QED
  BY <1>3, <1>4, <1>5, TakersFinite DEF Most

\* The check of the limit finds room for one login more.
LEMMA CheckFindsRoom ==
  ASSUME BaseInv, NEW a \in Actors, Limited(a), MayAdd(a)
  PROVE  Cardinality(Owned(a)) <= limitOf[a] - 1
<1>1. Limit(a) = limitOf[a] /\ limitOf[a] \in Int /\ limitOf[a] >= 0
  BY LimitAssumption DEF Limit, Limited, BaseInv, AdminsTagged
<1> QED
  BY <1>1, OwnedFinite DEF MayAdd, NotAccepted, Banned, Exceeded

\* A message's step keeps the count: the check adds a message that is to take a
\* login when there is room for one, and taking it turns it into a login.
LEMMA RoomCountedHandlerStep ==
  ASSUME BaseInv, RoomCounted, NEW h \in Handlers, HandlerStep(h)
  PROVE  RoomCounted'
<1> SUFFICES ASSUME NEW a \in Actors, Limited(a)
             PROVE  Cardinality(Owned(a))' + Cardinality(Takers(a))' <= Most(a)
  BY DEF RoomCounted, Limited, Most, HandlersOf
<1>1. PICK owned, takers, most \in Int :
        /\ owned = Cardinality(Owned(a)) /\ takers = Cardinality(Takers(a)) /\ most = Most(a)
        /\ owned + takers <= most
  BY OwnedFinite, TakersFinite, LimitAssumption DEF RoomCounted, Most
<1>2. \A g \in Handlers \ {h} : pc'[g] = pc[g]
  BY OthersUntouched DEF BaseInv
<1>3. TypeOK /\ actorOf[h] \in Actors
  BY ActorOfAssumption DEF BaseInv
<1>4. CASE a # actorOf[h]
  <2>1. Cardinality(Owned(a))' <= owned /\ Cardinality(Owned(a))' \in Nat
    BY <1>1, <1>4, OthersOwnNoMore
  <2>2. Takers(a)' = Takers(a)
    BY <1>2, <1>4 DEF Takers, HandlersOf, Taking
  <2>3. Cardinality(Takers(a))' = takers
    BY <1>1, <2>2
  <2> QED
    BY <1>1, <2>1, <2>3
<1>5. CASE a = actorOf[h] /\ pc[h] = "update" /\ owner[arg[h]] = NoActor /\ Assign(h, a)
  <2>1. Cardinality(Owned(a))' = owned + 1
    BY <1>1, <1>5, TakingAddsOne
  <2>2. Cardinality(Takers(a))' = takers - 1
    BY <1>1, <1>5, TakingEnds
  <2> QED
    BY <1>1, <2>1, <2>2
<1>6. CASE a = actorOf[h] /\ (UNCHANGED <<owner, online>> \/ SaveRow(h))
  <2>1. Owned(a)' \subseteq Owned(a)
    BY <1>3, <1>6, NoneAssumption DEF SaveRow, Owned, TypeOK
  <2>2. Cardinality(Owned(a))' <= owned /\ Cardinality(Owned(a))' \in Nat
    BY <1>1, <2>1, OwnedShrinks
  <2>3. CASE Takers(a)' \subseteq Takers(a)
    <3>1. Cardinality(Takers(a))' <= takers /\ Cardinality(Takers(a))' \in Nat
      BY <1>1, <2>3, TakersShrink
    <3> QED
      BY <1>1, <2>2, <3>1
  <2>4. CASE ~(Takers(a)' \subseteq Takers(a))
    <3>1. Taking(h)' /\ ~Taking(h) /\ h \in HandlersOf(a)
      BY <1>2, <1>6, <2>4 DEF Takers, HandlersOf, Taking
    <3>2. MayAdd(a)
      BY <1>3, <1>6, <3>1, TakingSteps
    <3>3. owned <= limitOf[a] - 1
      BY <1>1, <3>2, CheckFindsRoom
    <3>4. PICK chats \in Nat : chats = Cardinality(HandlersOf(a))
      BY TakersFinite
    <3>5. Cardinality(Takers(a))' <= chats /\ Cardinality(Takers(a))' \in Nat
      BY <3>4, TakersBounded
    <3>6. most = limitOf[a] + chats - 1 /\ limitOf[a] \in Int
      BY <1>1, <3>1, <3>4, LimitAssumption DEF Most
    <3> QED
      BY <1>1, <2>2, <3>3, <3>5, <3>6
  <2> QED
    BY <2>3, <2>4
<1>7. \/ UNCHANGED <<owner, online>>
      \/ pc[h] = "update" /\ owner[arg[h]] = NoActor /\ Assign(h, actorOf[h])
      \/ SaveRow(h)
  BY <1>3, OwnershipSteps
<1> QED
  BY <1>4, <1>5, <1>6, <1>7

\* A restart forgets the messages on their way, everything else leaves the
\* count alone.
LEMMA RoomCountedStep == BaseInv /\ RoomCounted /\ [Next]_vars => RoomCounted'
<1> SUFFICES ASSUME BaseInv, RoomCounted, [Next]_vars PROVE RoomCounted'
  OBVIOUS
<1>1. ASSUME NEW h \in Handlers, HandlerStep(h) PROVE RoomCounted'
  BY <1>1, RoomCountedHandlerStep
<1>2. CASE UNCHANGED owner /\ (UNCHANGED pc \/ Restart)
  <2> SUFFICES ASSUME NEW a \in Actors, Limited(a)
               PROVE  Cardinality(Owned(a))' + Cardinality(Takers(a))' <= Most(a)
    BY DEF RoomCounted, Limited, Most, HandlersOf
  <2>1. Owned(a)' = Owned(a) /\ Takers(a)' \subseteq Takers(a)
    BY <1>2 DEF Owned, Takers, HandlersOf, Taking, Restart
  <2>2. Cardinality(Takers(a))' <= Cardinality(Takers(a)) /\ Cardinality(Takers(a))' \in Nat
    BY <2>1, TakersShrink
  <2>3. Cardinality(Owned(a))' = Cardinality(Owned(a))
    BY <2>1
  <2>4. Most(a) \in Int /\ Cardinality(Owned(a)) + Cardinality(Takers(a)) <= Most(a)
    BY TakersFinite, LimitAssumption DEF RoomCounted, Most
  <2> QED
    BY <2>2, <2>3, <2>4, OwnedFinite, TakersFinite
<1>3. ASSUME NEW a \in Actors, Accept(a) \/ SetAdmin(a) \/ Ban(a) PROVE RoomCounted'
  BY <1>2, <1>3 DEF Accept, SetAdmin, Ban, accounts, working
<1>4. CASE Restart
  BY <1>2, <1>4 DEF Restart, accounts
<1>5. CASE UNCHANGED vars
  BY <1>2, <1>5 DEF vars
<1> QED
  BY <1>1, <1>3, <1>4, <1>5 DEF Next, HandlerStep

-----------------------------------------------------------------------------
\* What a message has checked of a login stays, unless another conversation gives
\* the login back: nobody takes a login that has an owner.
LEMMA CheckedHandlerStep ==
  ASSUME BaseInv, CheckedStill, NEW h \in Handlers, HandlerStep(h)
  PROVE  CheckedStill'
<1>1. TypeOK /\ WorksOnLogin
  BY DEF BaseInv
<1>2. \/ UNCHANGED <<owner, online>>
      \/ pc[h] = "update" /\ owner[arg[h]] = NoActor /\ Assign(h, actorOf[h])
      \/ SaveRow(h)
  BY <1>1, OwnershipSteps
<1> SUFFICES ASSUME NEW g \in Handlers, g \notin released'
             PROVE  StillOwned(g)' /\ StillOffline(g)'
  BY DEF CheckedStill
<1>3. CASE g = h
  BY <1>1, <1>3, CheckedSteps
<1>4. CASE g # h
  <2>1. pc'[g] = pc[g] /\ arg'[g] = arg[g] /\ g \notin released
    BY <1>1, <1>4, OthersUntouched
  <2>2. StillOwned(g) /\ StillOffline(g)
    BY <2>1 DEF CheckedStill
  <2>3. CASE UNCHANGED <<owner, online>>
    BY <2>1, <2>2, <2>3 DEF StillOwned, StillOffline
  <2>4. CASE pc[h] = "update" /\ owner[arg[h]] = NoActor /\ Assign(h, actorOf[h])
    <3>1. SUFFICES ASSUME pc[g] \in {"save", "mayPassword", "post"}
                   PROVE  StillOwned(g)' /\ StillOffline(g)'
      BY <2>1 DEF StillOwned, StillOffline
    <3>2. owner[arg[g]] = actorOf[g] /\ actorOf[g] \in Actors
      BY <2>2, <3>1, ActorOfAssumption DEF StillOwned
    <3>3. arg[g] # arg[h]
      BY <2>4, <3>2, NoneAssumption
    <3> QED
      BY <1>1, <2>1, <2>2, <2>4, <3>3 DEF StillOwned, StillOffline, Assign, TypeOK
  <2>5. CASE SaveRow(h)
    <3>1. SUFFICES ASSUME pc[g] \in {"save", "mayPassword", "post"}
                   PROVE  StillOwned(g)' /\ StillOffline(g)'
      BY <2>1 DEF StillOwned, StillOffline
    <3>2. arg[g] # arg[h]
      BY <1>4, <2>5, <3>1 DEF SaveRow, HaveFound
    <3> QED
      BY <1>1, <2>1, <2>2, <2>5, <3>2 DEF StillOwned, StillOffline, SaveRow, TypeOK
  <2> QED
    BY <1>2, <2>3, <2>4, <2>5
<1> QED
  BY <1>3, <1>4

\* And so under every step of the system.
LEMMA CheckedStep == BaseInv /\ CheckedStill /\ [Next]_vars => CheckedStill'
<1> SUFFICES ASSUME BaseInv, CheckedStill, [Next]_vars PROVE CheckedStill'
  OBVIOUS
<1>1. ASSUME NEW h \in Handlers, HandlerStep(h) PROVE CheckedStill'
  BY <1>1, CheckedHandlerStep
<1>2. CASE UNCHANGED <<owner, online, pc, arg, released>>
  BY <1>2 DEF CheckedStill, StillOwned, StillOffline
<1>3. ASSUME NEW a \in Actors, Accept(a) \/ SetAdmin(a) \/ Ban(a) PROVE CheckedStill'
  BY <1>2, <1>3 DEF Accept, SetAdmin, Ban, accounts, working
<1>4. CASE Restart
  BY <1>4 DEF Restart, CheckedStill, StillOwned, StillOffline
<1>5. CASE UNCHANGED vars
  BY <1>2, <1>5 DEF vars
<1> QED
  BY <1>1, <1>3, <1>4, <1>5 DEF Next, HandlerStep

\* Only a revocation adds to released.
LEMMA ReleasedSteps ==
  ASSUME NEW h \in Handlers, HandlerStep(h)
  PROVE  released' \subseteq released \/ SaveRow(h)
<1> USE DEF EndWith, EndByError, GoOn, Begin, Taken, Message, Reading
<1>1. CASE AddStep(h)
  BY <1>1 DEF AddStep, AskAdd, CheckFirst, EnterFree, EnterOwn, EnterTaken, Choose,
     CheckAgain, FindRow, CreateRow, UpdateRow, Assign
<1>2. CASE RevokeStep(h)
  BY <1>2 DEF RevokeStep, AskWhich, EnterRevoked, CheckRevoke
<1>3. CASE PasswordStep(h)
  BY <1>3 DEF PasswordStep, AskWhich, EnterPassworded, CheckPassword, Post
<1>4. CASE Abort(h) \/ AskAgain(h) \/ DbError(h)
  BY <1>4 DEF Abort, AskAgain, DbError
<1> QED
  BY <1>1, <1>2, <1>3, <1>4 DEF HandlerStep

\* With one ChatHandler for each actor nobody gives back a login that another message
\* has found to be its actor's.
LEMMA StrictStep ==
  ASSUME OneChatEach
  PROVE  BaseInv /\ CheckedStrictly /\ [Next]_vars => CheckedStrictly'
<1> SUFFICES ASSUME BaseInv, CheckedStrictly, [Next]_vars PROVE CheckedStrictly'
  OBVIOUS
<1>0. CheckedStill /\ released = {}
  BY DEF CheckedStrictly, CheckedStill, BaseInv, TypeOK
<1>1. ASSUME NEW h \in Handlers, SaveRow(h) PROVE released' = {}
  <2>1. owner[arg[h]] = actorOf[h]
    BY <1>1 DEF CheckedStrictly, StillOwned, SaveRow
  <2>2. \A g \in HaveFound(arg[h]) : g = h
    BY <2>1 DEF HaveFound, CheckedStrictly, StillOwned, OneChatEach
  <2> QED
    BY <1>0, <1>1, <2>2 DEF SaveRow
<1>2. ASSUME NEW h \in Handlers, HandlerStep(h) PROVE released' = {}
  BY <1>0, <1>1, <1>2, ReleasedSteps
<1>3. ASSUME NEW a \in Actors, Accept(a) \/ SetAdmin(a) \/ Ban(a) PROVE released' = {}
  BY <1>0, <1>3 DEF Accept, SetAdmin, Ban, working
<1>4. ASSUME Restart \/ UNCHANGED vars PROVE released' = {}
  BY <1>0, <1>4 DEF Restart, vars
<1>5. released' = {}
  BY <1>2, <1>3, <1>4 DEF Next, HandlerStep
<1>6. CheckedStill'
  BY <1>0, CheckedStep
<1> QED
  BY <1>5, <1>6 DEF CheckedStill, CheckedStrictly

-----------------------------------------------------------------------------
\* Types and acceptance of owners need no proviso about ChatHandlers.
THEOREM BaseInvariance == Spec => []BaseInv
BY InitBaseInv, BaseInvStep, PTL DEF Spec

\* The types are kept by every step of every conversation.
THEOREM TypeCorrect == Spec => []TypeOK
<1>1. BaseInv => TypeOK
  BY DEF BaseInv
<1> QED
  BY BaseInvariance, <1>1, PTL

\* Whoever holds a login has access: also with several ChatHandlers for one
\* actor, because UpdateActorStatus never takes acceptance back.
THEOREM OwnersHaveAccess == Spec => []OwnersAccepted
<1>1. BaseInv => OwnersAccepted
  BY DEF BaseInv
<1> QED
  BY BaseInvariance, <1>1, PTL

\* The limit is checked in one statement and the login taken in another, but what
\* has been checked is counted until then.
THEOREM RoomInvariance == Spec => []RoomCounted
BY InitRoomCounted, RoomCountedStep, BaseInvariance, PTL DEF Spec

\* Several ChatHandlers work for an actor if it has several Telegram users, or if a
\* late cleanup removed the entry of a handler in use.  By how much the limit can be
\* exceeded then: one login for each ChatHandler but the first, no more.
THEOREM LimitIsRespected == Spec => []LimitRespected
<1>1. RoomCounted => LimitRespected
  BY DEF RoomCounted, LimitRespected, Limited, Most
<1> QED
  BY RoomInvariance, <1>1, PTL

\* Who never is an admin holds no more logins than the limit.
WithinLimit ==
  \A a \in Actors : Limited(a) => Cardinality(Owned(a)) <= limitOf[a]

\* So the limit itself is kept if the dispatcher lets one ChatHandler work for each
\* actor.
THEOREM LimitKeptByOneChat ==
  ASSUME OneChatEach
  PROVE  Spec => []WithinLimit
<1>1. ASSUME RoomCounted, NEW a \in Actors, Limited(a)
      PROVE  Cardinality(Owned(a)) <= limitOf[a]
  <2>1. Most(a) = limitOf[a]
    <3>1. CASE HandlersOf(a) # {}
      <4>1. PICK h : HandlersOf(a) = {h}
        BY <3>1 DEF HandlersOf, OneChatEach
      <4>2. Cardinality(HandlersOf(a)) = 1
        BY <4>1, FS_Singleton
      <4> QED
        BY <3>1, <4>2, LimitAssumption DEF Most
    <3> QED
      BY <3>1 DEF Most
  <2>2. Cardinality(Owned(a)) + Cardinality(Takers(a)) <= limitOf[a]
    BY <1>1, <2>1 DEF RoomCounted
  <2> QED
    BY <2>2, OwnedFinite, TakersFinite, LimitAssumption
<1>2. RoomCounted => WithinLimit
  BY <1>1 DEF WithinLimit
<1> QED
  BY RoomInvariance, <1>2, PTL

\* What a message has checked of a login is still true when it acts on it, unless
\* another conversation gave the login back.
THEOREM CheckedInvariance == Spec => []CheckedStill
<1>1. Init => CheckedStill
  BY DEF Init, CheckedStill, StillOwned, StillOffline
<1> QED
  BY <1>1, CheckedStep, BaseInvariance, PTL DEF Spec

\* With one ChatHandler for each actor that exception never happens: who revokes a
\* login or asks for its password owns it.
THEOREM ChecksHoldByOneChat ==
  ASSUME OneChatEach
  PROVE  Spec => []CheckedStrictly
<1>1. Init => CheckedStrictly
  BY DEF Init, CheckedStrictly, StillOwned, StillOffline
<1>2. BaseInv /\ CheckedStrictly /\ [Next]_vars => CheckedStrictly'
  BY StrictStep
<1> QED
  BY <1>1, <1>2, BaseInvariance, PTL DEF Spec

\* Passwords are requested by owners of offline logins, unless another conversation
\* gave the login back during the message.
THEOREM PasswordRequestsAreOwners == Spec => []PasswordsFromOwner
<1>1. CheckedStill => PasswordsFromOwner
  BY DEF CheckedStill, StillOwned, StillOffline, PasswordsFromOwner
<1> QED
  BY CheckedInvariance, <1>1, PTL

\* A login leaves its owner by a revocation only, and by the owner's unless another
\* conversation gave the login back since that revocation was checked.
THEOREM OwnersHandOver == Spec => HandedOverByOwner
<1> DEFINE A == \A l \in Logins :
       owner[l] # NoActor /\ owner'[l] # owner[l] =>
         /\ owner'[l] = NoActor
         /\ \E h \in Handlers :
              /\ arg[h] = l /\ pc[h] = "save"
              /\ actorOf[h] = owner[l] \/ h \in released
<1>1. BaseInv /\ CheckedStill /\ [Next]_vars => [A]_vars
  <2> SUFFICES ASSUME BaseInv, CheckedStill, Next, NEW l \in Logins,
                      owner[l] # NoActor, owner'[l] # owner[l]
               PROVE  /\ owner'[l] = NoActor
                      /\ \E h \in Handlers :
                           /\ arg[h] = l /\ pc[h] = "save"
                           /\ actorOf[h] = owner[l] \/ h \in released
    OBVIOUS
  <2>1. PICK h \in Handlers : HandlerStep(h)
    BY DEF Next, HandlerStep, Accept, SetAdmin, Ban, Restart, accounts
  <2>2. TypeOK
    BY DEF BaseInv
  <2>3. SaveRow(h) /\ arg[h] = l
    BY <2>1, <2>2, OwnershipSteps DEF Assign, SaveRow, TypeOK
  <2> QED
    BY <2>2, <2>3 DEF SaveRow, CheckedStill, StillOwned, TypeOK
<1>2. Spec => [][A]_vars
  BY <1>1, BaseInvariance, CheckedInvariance, PTL DEF Spec
<1> QED
  BY <1>2 DEF HandedOverByOwner
=============================================================================
