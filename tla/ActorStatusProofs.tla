-------------------------- MODULE ActorStatusProofs --------------------------
(***************************************************************************)
(* Who becomes accepted or an admin has a reason for it: AdminsWereTagged  *)
(* and AccessHasGround of ActorStatus, for every set of actors, chats and  *)
(* sessions and any number of messages.                                    *)
(*                                                                         *)
(* Reasons are only added, so that what one read of the database justified *)
(* still holds when a later statement acts on it: Pending says what each   *)
(* step of a message in progress may rely on.                              *)
(*                                                                         *)
(* The last theorem composes: what MinecraftLogins lets happen to statuses *)
(* is all that the steps of ActorStatus do to them.                        *)
(***************************************************************************)
EXTENDS ActorStatus, TLAPS

Conversations == [kind : {"none", "menu", "adminMenu", "access"} \cup ActionTypes,
                  actor : Actors \cup {NoActor}]
Plans == [accept : BOOLEAN, admin : {"keep", "set", "clear"}]

WorkTypeOK ==
  /\ conv \in [Sessions -> Conversations]
  /\ pc \in [Sessions -> Steps]
  /\ again \in [Sessions -> BOOLEAN]
  /\ carried \in [Sessions -> BOOLEAN]
  /\ snap \in [Sessions -> [admin : BOOLEAN, accepted : BOOLEAN]]
  /\ plan \in [Sessions -> Plans]

TableTypeOK ==
  /\ tagged \subseteq Actors /\ seenTagged \subseteq Actors
  /\ admins \subseteq Actors /\ accepted \subseteq Actors
  /\ entered \subseteq Actors /\ banned \subseteq Actors
  /\ verifiedBy \in [Actors -> SUBSET Actors]
  /\ seenIn \in [Actors -> SUBSET Chats]
  /\ approvedBy \in [Chats -> Actors \cup {NoActor}]
  /\ everTagged \subseteq Actors
  /\ everVerifiedBy \in [Actors -> SUBSET Actors]

HistoryTypeOK ==
  /\ messages \in 0 .. MaxMessages
  /\ renames \in 0 .. MaxRenames /\ errors \in 0 .. MaxErrors
  /\ granted \subseteq Sessions /\ clean \subseteq Sessions /\ owed \subseteq Sessions

\* Every trace of an admin in the database goes back to a name in AdminTags.
Origins ==
  /\ tagged \subseteq everTagged /\ seenTagged \subseteq everTagged
  /\ admins \subseteq everTagged
  /\ \A a \in Actors : verifiedBy[a] \subseteq everVerifiedBy[a]
  /\ \A a \in Actors : everVerifiedBy[a] \subseteq everTagged
  /\ \A c \in Chats : approvedBy[c] # NoActor => approvedBy[c] \in everTagged

Ground(a) == Claims(a) \/ a \in everTagged \/ everVerifiedBy[a] # {}
Grounded == \A a \in accepted : Ground(a)

\* What a message in progress relies on.
Pending ==
  \A s \in Sessions :
    /\ carried[s] => actorOf[s] \in everTagged
    /\ plan[s].admin = "set" => actorOf[s] \in everTagged
    /\ pc[s] = "act" => actorOf[s] \in everTagged
    /\ pc[s] = "accept" => Ground(actorOf[s])

\* A group chat has no conversation, actors are seen in group chats only, and
\* what is carried out has been selected.
Selected ==
  \A s \in Sessions :
    /\ ~Private(s) => conv[s] = NoConv
    /\ pc[s] = "seen" => ~Private(s)
    /\ pc[s] \in {"check", "act"} /\ conv[s].kind \in ActionTypes => conv[s].actor \in Actors

WorkOK == WorkTypeOK /\ Selected

IInv ==
  /\ WorkOK /\ TableTypeOK /\ HistoryTypeOK
  /\ Origins /\ Grounded /\ Pending

\* What a step makes a message rely on is true when the step is taken.
Justified ==
  /\ WorkOK'
  /\ \A t \in Sessions :
       /\ carried'[t] => carried[t] \/ actorOf[t] \in everTagged
       /\ plan'[t].admin = "set" => plan[t].admin = "set" \/ actorOf[t] \in everTagged
       /\ pc'[t] = "act" => pc[t] = "act" \/ actorOf[t] \in everTagged
       /\ pc'[t] = "accept" => pc[t] = "accept" \/ Ground(actorOf[t])

\* Reasons are only added.
Grows ==
  /\ everTagged \subseteq everTagged'
  /\ \A a \in Actors : everVerifiedBy[a] \subseteq everVerifiedBy'[a]
  /\ entered \subseteq entered'
  /\ \A a \in Actors : seenIn[a] \subseteq seenIn'[a]
  /\ ApprovedChats \subseteq ApprovedChats'

\* The type invariant in the three parts the steps disturb separately.
LEMMA TypeParts == TypeOK <=> WorkTypeOK /\ TableTypeOK /\ HistoryTypeOK
  BY DEF TypeOK, WorkTypeOK, TableTypeOK, HistoryTypeOK, Conversations, Plans

-----------------------------------------------------------------------------
\* The conversations that handlers are replaced by.
LEMMA ConversationTypes ==
  /\ NoConv \in Conversations /\ Access \in Conversations
  /\ \A b \in BOOLEAN : MenuFor(b) \in Conversations
  /\ \A k \in ActionTypes, a \in Actors \cup {NoActor} : Action(k, a) \in Conversations
  BY DEF Conversations, NoConv, Access, MenuFor, Action

\* A plan and a snapshot nobody has made yet.
LEMMA EmptyTypes == NoPlan \in Plans /\ NoSnap \in [admin : BOOLEAN, accepted : BOOLEAN]
  BY DEF NoPlan, NoSnap, Plans

\* The end of the message proper.
LEMMA HandledJustified ==
  ASSUME WorkOK, NEW s \in Sessions, NEW c \in Conversations, Handled(s, c),
         Private(s) \/ c = NoConv \/ c = conv[s]
  PROVE  Justified
<1>1. /\ conv' = [conv EXCEPT ![s] = c]
      /\ pc' = [pc EXCEPT ![s] = "status"]
      /\ again' = [again EXCEPT ![s] = TRUE]
      /\ UNCHANGED <<carried, snap, plan>>
  BY DEF Handled, GoTo
<1>2. WorkTypeOK'
  BY <1>1 DEF WorkOK, WorkTypeOK, Steps
<1>3. \A t \in Sessions : /\ conv'[t] = IF t = s THEN c ELSE conv[t]
                          /\ pc'[t] = IF t = s THEN "status" ELSE pc[t]
  BY <1>1 DEF WorkOK, WorkTypeOK
<1>4. Selected'
  BY <1>3 DEF WorkOK, Selected, Private
<1> QED
  BY <1>1, <1>2, <1>3, <1>4 DEF WorkOK, Justified

\* Another statement of the message.
LEMMA GoOnJustified ==
  ASSUME WorkOK, NEW s \in Sessions, NEW step \in Steps, GoOn(s, step),
         step \notin {"accept", "seen"}, step = "act" => actorOf[s] \in everTagged,
         step \in {"check", "act"} /\ conv[s].kind \in ActionTypes => conv[s].actor \in Actors
  PROVE  Justified
<1>1. pc' = [pc EXCEPT ![s] = step] /\ UNCHANGED <<conv, again, carried, snap, plan>>
  BY DEF GoOn, GoTo
<1>2. WorkTypeOK'
  BY <1>1 DEF WorkOK, WorkTypeOK
<1>3. \A t \in Sessions : pc'[t] = IF t = s THEN step ELSE pc[t]
  BY <1>1 DEF WorkOK, WorkTypeOK
<1>4. Selected'
  BY <1>1, <1>3 DEF WorkOK, Selected, Private
<1> QED
  BY <1>1, <1>2, <1>3, <1>4 DEF WorkOK, Justified

\* What UpdateActorStatus had computed is forgotten.
LEMMA PlanDropped ==
  ASSUME WorkTypeOK, NEW s \in Sessions, plan' = [plan EXCEPT ![s] = NoPlan]
  PROVE  /\ plan' \in [Sessions -> Plans]
         /\ \A t \in Sessions : plan'[t].admin = "set" => plan[t].admin = "set"
<1>1. plan \in [Sessions -> Plans] /\ NoPlan \in Plans /\ NoPlan.admin # "set"
  BY EmptyTypes DEF WorkTypeOK, NoPlan
<1>2. \A t \in Sessions : plan'[t] = IF t = s THEN NoPlan ELSE plan[t]
  BY <1>1
<1>3. plan' \in [Sessions -> Plans]
  BY <1>1
<1> QED
  BY <1>1, <1>2, <1>3

\* A step that leaves the conversations alone and goes on to no decision.
LEMMA PcKeepsSelected ==
  ASSUME WorkOK, NEW s \in Sessions, conv' = conv,
         NEW step \in Steps \ {"check", "act"}, GoTo(s, step),
         step = "seen" => ~Private(s)
  PROVE  Selected' /\ \A t \in Sessions : pc'[t] = IF t = s THEN step ELSE pc[t]
<1>1. \A t \in Sessions : pc'[t] = IF t = s THEN step ELSE pc[t]
  BY DEF WorkOK, WorkTypeOK, GoTo
<1> QED
  BY <1>1 DEF WorkOK, Selected, Private

\* The end of a message.
LEMMA FinishJustified ==
  ASSUME WorkOK, NEW s \in Sessions, Finish(s), conv' = conv
  PROVE  Justified
<1>1. /\ plan' \in [Sessions -> Plans]
      /\ \A t \in Sessions : plan'[t].admin = "set" => plan[t].admin = "set"
  BY PlanDropped DEF Finish, WorkOK
<1>2. WorkTypeOK'
  BY <1>1, EmptyTypes DEF WorkOK, WorkTypeOK, Finish, GoTo, Steps
<1>3. Selected' /\ \A t \in Sessions : pc'[t] = IF t = s THEN "idle" ELSE pc[t]
  BY PcKeepsSelected DEF Finish, Steps
<1>4. \A t \in Sessions : carried'[t] => carried[t]
  BY DEF WorkOK, WorkTypeOK, Finish
<1> QED
  BY <1>1, <1>2, <1>3, <1>4 DEF WorkOK, Justified

\* The end of UpdateActorStatus.
LEMMA AfterStatusJustified ==
  ASSUME WorkOK, NEW s \in Sessions, AfterStatus(s), conv' = conv
  PROVE  Justified
<1>1. CASE again[s]
  BY <1>1, FinishJustified DEF AfterStatus
<1>2. CASE ~again[s]
  <2>1. /\ plan' \in [Sessions -> Plans]
        /\ \A t \in Sessions : plan'[t].admin = "set" => plan[t].admin = "set"
    BY <1>2, PlanDropped DEF AfterStatus, WorkOK
  <2>2. WorkTypeOK'
    BY <1>2, <2>1 DEF WorkOK, WorkTypeOK, AfterStatus, GoTo, Steps
  <2>3. Selected' /\ \A t \in Sessions : pc'[t] = IF t = s THEN "handle" ELSE pc[t]
    BY <1>2, PcKeepsSelected DEF AfterStatus, Steps
  <2> QED
    BY <1>2, <2>1, <2>2, <2>3 DEF WorkOK, Justified, AfterStatus
<1> QED
  BY <1>1, <1>2

\* A reason, once there, stays.
LEMMA GroundKept ==
  ASSUME Grows, NEW a \in Actors, Ground(a)
  PROVE  Ground(a)'
  BY DEF Grows, Ground, Claims

\* So what a message relies on stays true while others change the tables.
LEMMA PendingKept ==
  ASSUME Pending, Grows, Justified
  PROVE  Pending'
<1> SUFFICES ASSUME NEW s \in Sessions
             PROVE  /\ carried'[s] => actorOf[s] \in everTagged'
                    /\ plan'[s].admin = "set" => actorOf[s] \in everTagged'
                    /\ pc'[s] = "act" => actorOf[s] \in everTagged'
                    /\ pc'[s] = "accept" => Ground(actorOf[s])'
  BY DEF Pending
<1>1. actorOf[s] \in Actors
  BY ActorOfAssumption
<1>2. pc'[s] = "accept" => Ground(actorOf[s])'
  BY <1>1, GroundKept DEF Pending, Justified
<1> QED
  BY <1>2 DEF Pending, Justified, Grows

Tables == <<users, status, reasons, banned, origins>>

\* A step of a message that changes no table.
LEMMA SilentStep ==
  ASSUME IInv, Justified, UNCHANGED Tables, HistoryTypeOK'
  PROVE  IInv'
<1>1. Grows /\ TableTypeOK' /\ Origins' /\ Grounded'
  BY DEF IInv, Tables, users, status, reasons, origins, Grows, TableTypeOK, Origins,
         Grounded, Ground, Claims, ApprovedChats
<1> QED
  BY <1>1, PendingKept DEF IInv, Justified

-----------------------------------------------------------------------------
\* The message itself and what it may do without a table.
LEMMA MessageStepKeeps ==
  ASSUME IInv, NEW s \in Sessions, MessageStep(s)
  PROVE  IInv'
<1> USE DEF IInv
<1>1. HistoryTypeOK' /\ UNCHANGED Tables /\ WorkOK
  BY DEF MessageStep, MenuOther, AskAccess, Abort, Repeat, EnterPassword, Confirm, AskAction,
         SelectUser, PublicOther, AskApproveChat, Handling, HistoryTypeOK, Tables, counters, claims
<1>2. conv[s] \in Conversations /\ snap[s].admin \in BOOLEAN
  BY DEF WorkOK, WorkTypeOK
<1>3. ASSUME NEW c \in Conversations, Handled(s, c), Private(s) \/ c = NoConv
      PROVE  Justified
  BY <1>1, <1>3, HandledJustified
<1>4. ~Private(s) => conv[s] = NoConv
  BY DEF WorkOK, Selected
<1> SUFFICES Justified
  BY <1>1, SilentStep
<1>5. CASE MenuOther(s)
  BY <1>2, <1>3, <1>5, ConversationTypes DEF MenuOther, InMenu, Handled, GoTo
<1>6. CASE AskAccess(s)
  BY <1>3, <1>6, ConversationTypes DEF AskAccess, InMenu, Handled, GoTo
<1>7. CASE Abort(s)
  BY <1>3, <1>7, ConversationTypes DEF Abort, Handled, GoTo
<1>8. CASE Repeat(s)
  BY <1>2, <1>3, <1>8, ConversationTypes DEF Repeat, Handled, GoTo
<1>9. CASE EnterPassword(s)
  BY <1>1, <1>9, GoOnJustified DEF EnterPassword, Steps, GoOn, GoTo
<1>10. CASE Confirm(s)
  BY <1>1, <1>2, <1>10, GoOnJustified DEF Confirm, Steps, Conversations, GoOn, GoTo
<1>11. CASE \E k \in ActionTypes : AskAction(s, k)
  BY <1>3, <1>11, ConversationTypes DEF AskAction, InMenu, Handled, GoTo
<1>12. CASE \E b \in Actors : SelectUser(s, b)
  <2>1. conv[s].kind \in ActionTypes => Private(s)
    BY <1>4 DEF NoConv, ActionTypes
  <2> QED
    BY <1>3, <1>12, <2>1, ConversationTypes DEF SelectUser, Handled, GoTo
<1>13. CASE PublicOther(s)
  BY <1>3, <1>13, ConversationTypes DEF PublicOther, Handled, GoTo
<1>14. CASE AskApproveChat(s)
  <2>1. conv[s].kind \notin ActionTypes
    BY <1>4, <1>14 DEF AskApproveChat, NoConv, ActionTypes
  <2> QED
    BY <1>1, <1>14, <2>1, GoOnJustified DEF AskApproveChat, Steps, GoOn, GoTo
<1> QED
  BY <1>5, <1>6, <1>7, <1>8, <1>9, <1>10, <1>11, <1>12, <1>13, <1>14 DEF MessageStep

\* GetActor; errors; the check of the permission; the process starting anew.
LEMMA GetActorKeeps ==
  ASSUME IInv, NEW s \in Sessions, GetActorByTgUser(s)
  PROVE  IInv'
<1>1. HistoryTypeOK' /\ UNCHANGED Tables /\ WorkOK
  BY DEF IInv, GetActorByTgUser, HistoryTypeOK, Tables, counters, claims
<1>2. PICK step \in {"status", "seen"} : GoTo(s, step) /\ (step = "seen" => ~Private(s))
  BY DEF GetActorByTgUser, GoTo
<1>3. Selected' /\ \A t \in Sessions : pc'[t] = IF t = s THEN step ELSE pc[t]
  BY <1>1, <1>2, PcKeepsSelected DEF GetActorByTgUser, Steps
<1>4. WorkTypeOK'
  BY <1>1 DEF WorkOK, WorkTypeOK, GetActorByTgUser, GoTo, Steps
<1> QED
  BY <1>1, <1>3, <1>4, SilentStep DEF GetActorByTgUser, WorkOK, Justified

\* A failing statement changes no table.
LEMMA FailsKeeps ==
  ASSUME IInv, NEW s \in Sessions, LoadFails(s) \/ StatusFails(s) \/ HandleFails(s)
  PROVE  IInv'
<1>1. UNCHANGED Tables /\ WorkOK
  BY DEF IInv, LoadFails, StatusFails, HandleFails, Fails, Tables
<1>2. HistoryTypeOK'
  BY BoundsAssumption
  DEF IInv, LoadFails, StatusFails, HandleFails, Fails, Errs, HistoryTypeOK
<1>3. CASE LoadFails(s)
  BY <1>1, <1>2, <1>3, FinishJustified, SilentStep DEF LoadFails
<1>4. CASE StatusFails(s)
  BY <1>1, <1>2, <1>4, AfterStatusJustified, SilentStep DEF StatusFails
<1>5. CASE HandleFails(s)
  <2>1. conv[s] \in Conversations /\ Handled(s, conv[s])
    BY <1>1, <1>5 DEF HandleFails, WorkOK, WorkTypeOK
  <2>2. Justified
    BY <1>1, <2>1, HandledJustified
  <2> QED
    BY <1>1, <1>2, <2>2, SilentStep
<1> QED
  BY <1>3, <1>4, <1>5

\* Nothing a message relied on survives its process.
LEMMA RestartKeeps ==
  ASSUME IInv, Restart
  PROVE  IInv'
<1>1. UNCHANGED Tables /\ HistoryTypeOK'
  BY DEF IInv, Restart, Tables, HistoryTypeOK, counters
<1>2. WorkTypeOK'
  BY EmptyTypes, ConversationTypes DEF Restart, WorkTypeOK, Steps
<1>3. Selected'
  BY DEF Restart, Selected, Private
<1>4. \A t \in Sessions : ~carried'[t] /\ plan'[t].admin # "set" /\ pc'[t] = "idle"
  BY DEF Restart, NoPlan
<1> QED
  BY <1>1, <1>2, <1>3, <1>4, SilentStep DEF Justified, WorkOK

-----------------------------------------------------------------------------
\* Whoever was accepted keeps the ground.
LEMMA GroundedKept ==
  ASSUME TableTypeOK, Grounded, Grows, accepted' = accepted
  PROVE  Grounded'
<1> SUFFICES ASSUME NEW a \in accepted
             PROVE  Ground(a)'
  BY DEF Grounded
<1> QED
  BY GroundKept DEF TableTypeOK, Grounded

\* A username is taken or given up.
LEMMA RenameKeeps ==
  ASSUME IInv, NEW a \in Actors, Rename(a)
  PROVE  IInv'
<1>1. Justified
  BY DEF IInv, Rename, work, Justified, WorkOK, WorkTypeOK, Selected, Private
<1>2. TableTypeOK' /\ Grows
  BY DEF IInv, TableTypeOK, Rename, Grows, status, reasons, ApprovedChats
<1>3. HistoryTypeOK'
  BY BoundsAssumption DEF IInv, HistoryTypeOK, Rename
<1>4. Origins'
  BY DEF IInv, Origins, Rename, status, reasons
<1>5. Grounded'
  BY <1>2, GroundedKept DEF IInv, Rename, status
<1> QED
  BY <1>1, <1>2, <1>3, <1>4, <1>5, PendingKept DEF IInv, Justified

\* A message carries the username of its moment.
LEMMA BeginKeeps ==
  ASSUME IInv, NEW s \in Sessions, Begin(s)
  PROVE  IInv'
<1>1. UNCHANGED Tables /\ WorkOK
  BY DEF IInv, Begin, Tables
<1>2. HistoryTypeOK'
  BY BoundsAssumption DEF IInv, HistoryTypeOK, Begin
<1>3. Selected' /\ \A t \in Sessions : pc'[t] = IF t = s THEN "user" ELSE pc[t]
  BY <1>1, PcKeepsSelected DEF Begin, Steps
<1>4. WorkTypeOK'
  BY <1>1 DEF WorkOK, WorkTypeOK, Begin, GoTo, Steps
<1>5. \A t \in Sessions : carried'[t] => carried[t] \/ actorOf[t] \in everTagged
  BY DEF IInv, WorkOK, WorkTypeOK, Origins, Begin
<1> QED
  BY <1>1, <1>2, <1>3, <1>4, <1>5, SilentStep DEF Begin, Justified, WorkOK

\* LastSeenInfo is what some message carried.
LEMMA UpdateTgUserInfoKeeps ==
  ASSUME IInv, NEW s \in Sessions, UpdateTgUserInfo(s)
  PROVE  IInv'
<1>1. actorOf[s] \in Actors
  BY ActorOfAssumption
<1>2. WorkOK /\ HistoryTypeOK'
  BY DEF IInv, UpdateTgUserInfo, HistoryTypeOK, counters, claims
<1>3. Selected' /\ \A t \in Sessions : pc'[t] = IF t = s THEN "load" ELSE pc[t]
  BY <1>2, PcKeepsSelected DEF UpdateTgUserInfo, Steps
<1>4. WorkTypeOK'
  BY <1>2 DEF WorkOK, WorkTypeOK, UpdateTgUserInfo, GoTo, Steps
<1>5. Justified
  BY <1>3, <1>4 DEF UpdateTgUserInfo, Justified, WorkOK
<1>6. TableTypeOK' /\ Grows
  BY <1>1 DEF IInv, TableTypeOK, UpdateTgUserInfo, Grows, status, reasons, origins, ApprovedChats
<1>7. Origins'
  BY DEF IInv, Origins, Pending, UpdateTgUserInfo, status, reasons, origins
<1>8. Grounded'
  BY <1>6, GroundedKept DEF IInv, UpdateTgUserInfo, status
<1> QED
  BY <1>2, <1>5, <1>6, <1>7, <1>8, PendingKept DEF IInv, Justified

\* A sighting in a chat can only be a reason more.
LEMMA SeenInChatKeeps ==
  ASSUME IInv, NEW s \in Sessions, SeenInChat(s)
  PROVE  IInv'
<1>1. actorOf[s] \in Actors /\ chatOf[s] \in Chats
  BY ActorOfAssumption, ChatOfAssumption DEF IInv, WorkOK, Selected, SeenInChat, Private
<1>2. WorkOK /\ HistoryTypeOK'
  BY BoundsAssumption DEF IInv, SeenInChat, Errs, HistoryTypeOK
<1>3. Selected' /\ \A t \in Sessions : pc'[t] = IF t = s THEN "status" ELSE pc[t]
  BY <1>2, PcKeepsSelected DEF SeenInChat, Steps
<1>4. WorkTypeOK'
  BY <1>2 DEF WorkOK, WorkTypeOK, SeenInChat, GoTo, Steps
<1>5. Justified
  BY <1>3, <1>4 DEF SeenInChat, Justified, WorkOK
<1>6. seenIn' \in [Actors -> SUBSET Chats] /\ \A a \in Actors : seenIn[a] \subseteq seenIn'[a]
  BY <1>1 DEF IInv, TableTypeOK, SeenInChat
<1>7. TableTypeOK' /\ Grows
  BY <1>6 DEF IInv, TableTypeOK, SeenInChat, Grows, users, status, origins, ApprovedChats
<1>8. Origins'
  BY DEF IInv, Origins, SeenInChat, users, status, origins
<1>9. Grounded'
  BY <1>7, GroundedKept DEF IInv, SeenInChat, status
<1> QED
  BY <1>2, <1>5, <1>7, <1>8, <1>9, PendingKept DEF IInv, Justified

-----------------------------------------------------------------------------
\* What UpdateActorStatus reads are reasons that stay.
LEMMA PlanIsGrounded ==
  ASSUME IInv, NEW a \in Actors
  PROVE  /\ PlanFor(a) \in Plans
         /\ PlanFor(a).accept => Ground(a)
         /\ PlanFor(a).admin = "set" => a \in everTagged
<1>1. computeActorAcceptedStatus(a) => Ground(a)
  BY DEF IInv, Origins, computeActorAcceptedStatus, Ground, Claims
<1>2. computeAdminStatus(a) => a \in everTagged
  BY DEF IInv, Origins, computeAdminStatus
<1>3. PlanFor(a).accept \in BOOLEAN /\ (PlanFor(a).accept => computeActorAcceptedStatus(a))
  BY DEF PlanFor
<1>4. /\ PlanFor(a).admin \in {"keep", "set", "clear"}
      /\ PlanFor(a).admin = "set" => computeAdminStatus(a)
  BY DEF PlanFor
<1>5. PlanFor(a) \in Plans
  BY DEF PlanFor, Plans
<1> QED
  BY <1>1, <1>2, <1>3, <1>4, <1>5

\* UpdateActorStatus decides.
LEMMA ReadStatusKeeps ==
  ASSUME IInv, NEW s \in Sessions, ReadStatus(s)
  PROVE  IInv'
<1>1. HistoryTypeOK' /\ UNCHANGED Tables /\ WorkOK /\ conv' = conv
  BY DEF IInv, ReadStatus, HistoryTypeOK, Tables, counters, claims
<1> DEFINE a == actorOf[s]
           p == PlanFor(a)
<1>2. a \in Actors
  BY ActorOfAssumption
<1>3. CASE p = NoPlan
  BY <1>1, <1>3, AfterStatusJustified, SilentStep DEF ReadStatus
<1>4. CASE p # NoPlan
  <2> DEFINE step == IF p.accept THEN "accept" ELSE "admin"
  <2>1. /\ plan' = [plan EXCEPT ![s] = p] /\ GoTo(s, step)
        /\ UNCHANGED <<again, carried, snap>>
    BY <1>4 DEF ReadStatus
  <2>2. /\ p \in Plans
        /\ p.accept => Ground(a)
        /\ p.admin = "set" => a \in everTagged
    BY <1>2, PlanIsGrounded
  <2>3. step \in Steps \ {"check", "act", "seen"} /\ (step = "accept" => Ground(a))
    BY <2>2 DEF Steps
  <2> HIDE DEF p, step
  <2>4. Selected' /\ \A t \in Sessions : pc'[t] = IF t = s THEN step ELSE pc[t]
    BY <1>1, <2>1, <2>3, PcKeepsSelected
  <2>5. WorkTypeOK'
    BY <1>1, <2>1, <2>2, <2>3 DEF WorkOK, WorkTypeOK, GoTo
  <2>6. \A t \in Sessions : plan'[t] = IF t = s THEN p ELSE plan[t]
    BY <1>1, <2>1 DEF WorkOK, WorkTypeOK
  <2>7. Justified
    BY <2>1, <2>2, <2>3, <2>4, <2>5, <2>6 DEF Justified, WorkOK
  <2> QED
    BY <1>1, <2>7, SilentStep
<1> QED
  BY <1>3, <1>4

\* The ground seen then is still there when the column is written.
LEMMA SetAcceptKeeps ==
  ASSUME IInv, NEW s \in Sessions, SetAccept(s)
  PROVE  IInv'
<1>1. HistoryTypeOK' /\ WorkOK /\ conv' = conv
  BY DEF IInv, SetAccept, HistoryTypeOK, counters, claims
<1>2. actorOf[s] \in Actors
  BY ActorOfAssumption
<1>3. Justified
  <2>1. CASE plan[s].admin = "keep"
    BY <1>1, <2>1, AfterStatusJustified DEF SetAccept
  <2>2. CASE plan[s].admin # "keep"
    <3>1. GoTo(s, "admin") /\ UNCHANGED <<again, carried, snap, plan>>
      BY <2>2 DEF SetAccept
    <3>2. Selected' /\ \A t \in Sessions : pc'[t] = IF t = s THEN "admin" ELSE pc[t]
      BY <1>1, <3>1, PcKeepsSelected DEF Steps
    <3>3. WorkTypeOK'
      BY <1>1, <3>1 DEF WorkOK, WorkTypeOK, GoTo, Steps
    <3> QED
      BY <3>1, <3>2, <3>3 DEF Justified, WorkOK
  <2> QED
    BY <2>1, <2>2
<1>4. TableTypeOK' /\ Grows /\ Origins'
  BY <1>2 DEF IInv, TableTypeOK, Origins, SetAccept, Grows, users, reasons, origins, ApprovedChats
<1>5. Grounded'
  <2> SUFFICES ASSUME NEW a \in accepted'
               PROVE  Ground(a)'
    BY DEF Grounded
  <2>1. a \in Actors /\ Ground(a)
    BY <1>2 DEF IInv, Grounded, Pending, TableTypeOK, SetAccept
  <2> QED
    BY <1>4, <2>1, GroundKept
<1> QED
  BY <1>1, <1>3, <1>4, <1>5, PendingKept DEF IInv, Justified

\* An admin is one that had the username when the step was decided.
LEMMA SetAdminKeeps ==
  ASSUME IInv, NEW s \in Sessions, SetAdmin(s)
  PROVE  IInv'
<1>1. HistoryTypeOK' /\ WorkOK /\ conv' = conv
  BY DEF IInv, SetAdmin, HistoryTypeOK, counters, claims
<1>2. actorOf[s] \in Actors
  BY ActorOfAssumption
<1>3. Justified
  BY <1>1, AfterStatusJustified DEF SetAdmin
<1>4. TableTypeOK' /\ Grows
  BY <1>2 DEF IInv, TableTypeOK, SetAdmin, Grows, users, reasons, origins, ApprovedChats
<1>5. Origins'
  BY DEF IInv, Origins, Pending, SetAdmin, users, reasons, origins
<1>6. Grounded'
  BY <1>4, GroundedKept DEF IInv, SetAdmin
<1> QED
  BY <1>1, <1>3, <1>4, <1>5, <1>6, PendingKept DEF IInv, Justified

-----------------------------------------------------------------------------
\* The statements that carry a message out.  Each leaves the work to the
\* deferred UpdateActorStatus, except the check of the permission.
LEMMA EffectJustified ==
  ASSUME IInv, NEW s \in Sessions, EffectStep(s)
  PROVE  Justified /\ HistoryTypeOK'
<1>1. WorkOK
  BY DEF IInv
<1>2. conv[s] \in Conversations
  BY <1>1 DEF WorkOK, WorkTypeOK
<1>3. ASSUME NEW c \in {NoConv, conv[s]}, Handled(s, c)
      PROVE  Justified
  BY <1>1, <1>2, <1>3, HandledJustified, ConversationTypes
<1>4. HistoryTypeOK'
  BY DEF IInv, EffectStep, EnteredCorrectPassword, CheckAdmin, VerifiedByAdmin,
         RejectAdminVerifications, BanActor, ApproveChat, HistoryTypeOK, counters, claims
<1>5. CASE CheckAdmin(s)
  <2>1. CASE actorOf[s] \in admins
    <3>1. actorOf[s] \in everTagged /\ "act" \in Steps
      BY <2>1 DEF IInv, Origins, Steps
    <3>2. conv[s].kind \in ActionTypes => conv[s].actor \in Actors
      BY <1>1, <1>5 DEF WorkOK, Selected, CheckAdmin
    <3> QED
      BY <1>1, <1>4, <1>5, <2>1, <3>1, <3>2, GoOnJustified DEF CheckAdmin, GoOn, GoTo
  <2>2. CASE actorOf[s] \notin admins
    BY <1>3, <1>4, <1>5, <2>2 DEF CheckAdmin, Handled, GoTo
  <2> QED
    BY <2>1, <2>2
<1>6. CASE ~CheckAdmin(s)
  BY <1>3, <1>4, <1>6
  DEF EffectStep, EnteredCorrectPassword, VerifiedByAdmin, RejectAdminVerifications, BanActor,
      ApproveChat, Handled, GoTo
<1> QED
  BY <1>5, <1>6

\* They change reasons, and never take an origin away.
LEMMA EffectTables ==
  ASSUME IInv, NEW s \in Sessions, EffectStep(s)
  PROVE  TableTypeOK' /\ Grows /\ Origins' /\ accepted' = accepted
<1> USE DEF IInv, TableTypeOK, Origins, Grows, users, status, origins
<1>1. actorOf[s] \in Actors /\ (pc[s] = "act" => actorOf[s] \in everTagged)
  BY ActorOfAssumption DEF Pending
<1>2. pc[s] = "act" /\ conv[s].kind \in ActionTypes => conv[s].actor \in Actors
  BY DEF WorkOK, Selected
<1>3. CASE EnteredCorrectPassword(s)
  BY <1>1, <1>3 DEF EnteredCorrectPassword, ApprovedChats
<1>4. CASE CheckAdmin(s)
  BY <1>4 DEF CheckAdmin, reasons, ApprovedChats
<1>5. CASE VerifiedByAdmin(s)
  <2> DEFINE b == conv[s].actor
  <2>1. b \in Actors
    BY <1>2, <1>5 DEF VerifiedByAdmin, ActionTypes
  <2>2. /\ verifiedBy' = [verifiedBy EXCEPT ![b] = @ \cup {actorOf[s]}]
        /\ everVerifiedBy' = [everVerifiedBy EXCEPT ![b] = @ \cup {actorOf[s]}]
        /\ UNCHANGED <<users, status, entered, seenIn, approvedBy, banned, everTagged>>
        /\ pc[s] = "act"
    BY <1>5 DEF VerifiedByAdmin
  <2> HIDE DEF b
  <2>3. \A a \in Actors :
          /\ verifiedBy'[a] = verifiedBy[a] \cup (IF a = b THEN {actorOf[s]} ELSE {})
          /\ everVerifiedBy'[a] = everVerifiedBy[a] \cup (IF a = b THEN {actorOf[s]} ELSE {})
    BY <2>1, <2>2
  <2>4. TableTypeOK'
    BY <1>1, <2>1, <2>2
  <2>5. Grows
    BY <2>2, <2>3 DEF ApprovedChats
  <2>6. Origins'
    BY <1>1, <2>2, <2>3
  <2> QED
    BY <2>2, <2>4, <2>5, <2>6
<1>6. CASE RejectAdminVerifications(s)
  <2>1. \A a \in Actors : verifiedBy'[a] \subseteq verifiedBy[a]
    BY <1>6 DEF RejectAdminVerifications
  <2> QED
    BY <1>6, <2>1 DEF RejectAdminVerifications, ApprovedChats
<1>7. CASE BanActor(s)
  <2>1. conv[s].actor \in Actors
    BY <1>2, <1>7 DEF BanActor, ActionTypes
  <2> QED
    BY <1>7, <2>1 DEF BanActor, reasons, ApprovedChats
<1>8. CASE ApproveChat(s)
  <2>1. /\ approvedBy' \in [Chats -> Actors \cup {NoActor}]
        /\ \A c \in Chats : approvedBy'[c] \in {approvedBy[c], actorOf[s]}
    BY <1>1, <1>8 DEF ApproveChat
  <2>2. /\ UNCHANGED <<users, status, entered, verifiedBy, seenIn, banned, origins>>
        /\ pc[s] = "act"
    BY <1>8 DEF ApproveChat
  <2>3. TableTypeOK' /\ Origins'
    BY <1>1, <2>1, <2>2
  <2>4. ApprovedChats \subseteq ApprovedChats'
    BY <1>1, <2>1, NoneAssumption DEF ApprovedChats
  <2> QED
    BY <2>2, <2>3, <2>4
<1> QED
  BY <1>3, <1>4, <1>5, <1>6, <1>7, <1>8 DEF EffectStep

-----------------------------------------------------------------------------
\* Nothing is known at the start.
LEMMA InitIInv == Init => IInv
<1> SUFFICES ASSUME Init
             PROVE  IInv
  OBVIOUS
<1>1. WorkTypeOK
  BY EmptyTypes, ConversationTypes DEF Init, WorkTypeOK, Steps
<1>2. Selected /\ Pending
  BY DEF Init, Selected, Pending, NoPlan
<1>3. TableTypeOK /\ HistoryTypeOK
  BY BoundsAssumption DEF Init, TableTypeOK, HistoryTypeOK
<1>4. Origins /\ Grounded
  BY DEF Init, Origins, Grounded
<1> QED
  BY <1>1, <1>2, <1>3, <1>4 DEF IInv, WorkOK

\* Every step of every session, of a user, and a restart keep the invariant.
LEMMA IInvStep == IInv /\ [Next]_vars => IInv'
<1> SUFFICES ASSUME IInv, [Next]_vars
             PROVE  IInv'
  OBVIOUS
<1>1. ASSUME NEW s \in Sessions, SessionStep(s)
      PROVE  IInv'
  <2>1. CASE EffectStep(s)
    <3>1. Justified /\ HistoryTypeOK' /\ TableTypeOK' /\ Grows /\ Origins' /\ accepted' = accepted
      BY <2>1, EffectJustified, EffectTables
    <3>2. Grounded' /\ Pending'
      BY <3>1, GroundedKept, PendingKept DEF IInv
    <3> QED
      BY <3>1, <3>2 DEF IInv, Justified
  <2> QED
    BY <1>1, <2>1, UpdateTgUserInfoKeeps, GetActorKeeps, SeenInChatKeeps, ReadStatusKeeps,
       SetAcceptKeeps, SetAdminKeeps, MessageStepKeeps DEF SessionStep, StatusStep
<1>2. CASE UNCHANGED vars
  <2>1. Justified
    BY <1>2 DEF IInv, vars, work, Justified, WorkOK, WorkTypeOK, Selected, Private
  <2>2. HistoryTypeOK' /\ UNCHANGED Tables
    BY <1>2 DEF IInv, vars, counters, claims, HistoryTypeOK, Tables
  <2> QED
    BY <2>1, <2>2, SilentStep
<1> QED
  BY <1>1, <1>2, RenameKeeps, BeginKeeps, FailsKeeps, RestartKeeps DEF Next

\* Reasons only grow, and every step in progress rests on one.
THEOREM GroundInvariance == Spec => []IInv
BY InitIInv, IInvStep, PTL DEF Spec

\* The types are kept by every step of every message.
THEOREM TypeCorrect == Spec => []TypeOK
<1>1. IInv => TypeOK
  BY TypeParts DEF IInv, WorkOK
<1> QED
  BY GroundInvariance, <1>1, PTL

\* Admins, approvers of chats and the admins whose verification counted come
\* from AdminTags alone, whatever the interleaving of messages.
THEOREM AdminsComeFromTags == Spec => []AdminsWereTagged
<1>1. IInv => AdminsWereTagged
  BY DEF IInv, Origins, AdminsWereTagged, ApprovedChats
<1> QED
  BY GroundInvariance, <1>1, PTL

\* Nobody is accepted without one of the four reasons, although they are read
\* in one step and the column is written in another.
THEOREM AccessIsGrounded == Spec => []AccessHasGround
<1>1. IInv => AccessHasGround
  BY DEF IInv, Grounded, Ground, AccessHasGround
<1> QED
  BY GroundInvariance, <1>1, PTL
-----------------------------------------------------------------------------
\* MinecraftLogins without chats and logins is what it takes for granted of
\* those who change a status meanwhile; T are the actors in AdminTags.
Nobody(x) == [h \in {} |-> x]
StatusChanges(T) ==
  INSTANCE MinecraftLogins WITH
    Logins <- {}, Handlers <- {}, NoLogin <- NoActor, AdminTagged <- T,
    actorOf <- Nobody(NoActor), limitOf <- [a \in Actors |-> 0],
    rows <- {}, owner <- Nobody(NoActor), online <- {},
    conv <- Nobody(NoActor), pc <- Nobody("idle"), arg <- Nobody(NoActor),
    official <- Nobody(FALSE), told <- {}, released <- {}

\* Every step of the sessions is one that MinecraftLogins allows for, or changes no
\* status.
LEMMA StepsChangeStatuses ==
  ASSUME NEW T, IInv, everTagged \subseteq T, [Next]_vars
  PROVE  [StatusChanges(T)!Next]_(StatusChanges(T)!vars)
<1> USE DEF StatusChanges!vars, StatusChanges!accounts, StatusChanges!working,
            StatusChanges!statuses, Nobody
<1>1. CASE UNCHANGED <<accepted, admins, banned>>
  BY <1>1
<1>2. ASSUME NEW a \in Actors,
             \/ StatusChanges(T)!Accept(a)
             \/ StatusChanges(T)!SetAdmin(a)
             \/ StatusChanges(T)!Ban(a)
      PROVE  StatusChanges(T)!Next
  BY <1>2 DEF StatusChanges!Next
<1>3. ASSUME NEW s \in Sessions, SetAccept(s)
      PROVE  StatusChanges(T)!Accept(actorOf[s])
  BY <1>3 DEF SetAccept, StatusChanges!Accept
<1>4. ASSUME NEW s \in Sessions, SetAdmin(s)
      PROVE  StatusChanges(T)!SetAdmin(actorOf[s]) \/ UNCHANGED <<accepted, admins, banned>>
  BY <1>4 DEF SetAdmin, StatusChanges!SetAdmin, IInv, Origins, Pending
<1>5. ASSUME NEW s \in Sessions, BanActor(s)
      PROVE  StatusChanges(T)!Ban(conv[s].actor) /\ conv[s].actor \in Actors
  BY <1>5 DEF BanActor, StatusChanges!Ban, IInv, WorkOK, Selected, ActionTypes, status
<1>6. ASSUME Next, ~(\E s \in Sessions : SetAccept(s) \/ SetAdmin(s) \/ BanActor(s))
      PROVE  UNCHANGED <<accepted, admins, banned>>
  <2> USE DEF status
  <2>1. CASE (\E a \in Actors : Rename(a)) \/ Restart
    BY <2>1 DEF Rename, Restart
  <2>2. ASSUME NEW s \in Sessions, Begin(s) \/ LoadFails(s) \/ StatusFails(s) \/ HandleFails(s)
        PROVE  UNCHANGED <<accepted, admins, banned>>
    BY <2>2 DEF Begin, LoadFails, StatusFails, HandleFails, Fails
  <2>3. ASSUME NEW s \in Sessions,
               UpdateTgUserInfo(s) \/ GetActorByTgUser(s) \/ SeenInChat(s) \/ ReadStatus(s)
        PROVE  UNCHANGED <<accepted, admins, banned>>
    BY <2>3 DEF UpdateTgUserInfo, GetActorByTgUser, SeenInChat, ReadStatus
  <2>4. ASSUME NEW s \in Sessions, MessageStep(s)
        PROVE  UNCHANGED <<accepted, admins, banned>>
    BY <2>4
    DEF MessageStep, MenuOther, AskAccess, Abort, Repeat, EnterPassword, Confirm, AskAction,
        SelectUser, PublicOther, AskApproveChat, Handling
  <2>5. ASSUME NEW s \in Sessions, EffectStep(s)
        PROVE  UNCHANGED <<accepted, admins, banned>>
    BY <1>6, <2>5
    DEF EffectStep, EnteredCorrectPassword, CheckAdmin, VerifiedByAdmin,
        RejectAdminVerifications, ApproveChat
  <2> QED
    BY <1>6, <2>1, <2>2, <2>3, <2>4, <2>5 DEF Next, SessionStep, StatusStep
<1>7. CASE UNCHANGED vars
  BY <1>1, <1>7 DEF vars, status
<1> QED
  BY <1>1, <1>2, <1>3, <1>4, <1>5, <1>6, <1>7, ActorOfAssumption

\* What MinecraftLogins assumes of the rest of the bot is what the rest does: as
\* long as only actors in T get a username of AdminTags, acceptance is never taken
\* back, nobody else becomes an admin and no ban is lifted, in steps that change one
\* column of one actor.
THEOREM StatusesAsAssumed ==
  ASSUME NEW T
  PROVE  Spec /\ [](everTagged \subseteq T) => StatusChanges(T)!Spec
<1>1. Init => StatusChanges(T)!Init
  BY DEF Init, StatusChanges!Init, StatusChanges!Menu, Nobody
<1>2. IInv /\ everTagged \subseteq T /\ [Next]_vars
        => [StatusChanges(T)!Next]_(StatusChanges(T)!vars)
  BY StepsChangeStatuses
<1> QED
  BY <1>1, <1>2, GroundInvariance, PTL DEF Spec, StatusChanges!Spec
=============================================================================
