----------------------------- MODULE ActorStatus -----------------------------
(***************************************************************************)
(* How a Telegram user becomes accepted or an admin: what one message does *)
(* in tgbot/tg-bot.go (handleChatMessageUpdate), the commands that change  *)
(* somebody's status (/access, /approve_user, /reject_user, /ban_user and, *)
(* in a group chat, /approve) and UpdateActorStatus of permsengine, which  *)
(* runs before and after every message and copies the reasons for a status *)
(* into the actor's row.                                                   *)
(*                                                                         *)
(* A session handles one message at a time; any other may run between two  *)
(* of its database statements.  A read of an actor with its associations   *)
(* (GetActor) is one step.  Users and their actors exist already.          *)
(***************************************************************************)
EXTENDS Naturals

CONSTANTS
  Actors, Chats,
  Sessions,     \* an actor in a private chat or in a group chat
  actorOf,
  chatOf,       \* the group chat, NoChat for the private one
  NoActor, NoChat,
  MaxMessages, MaxRenames, MaxErrors   \* bounds on what users and the database do

ASSUME NoneAssumption == NoActor \notin Actors /\ NoChat \notin Chats
ASSUME ActorOfAssumption == actorOf \in [Sessions -> Actors]
ASSUME ChatOfAssumption == chatOf \in [Sessions -> Chats \cup {NoChat}]
ASSUME BoundsAssumption == MaxMessages \in Nat /\ MaxRenames \in Nat /\ MaxErrors \in Nat

VARIABLES
  tagged,      \* actors whose Telegram username is one of AdminTags now
  seenTagged,  \* those for whom LastSeenInfo says so
  admins, accepted, entered, banned,   \* columns and bans of actors
  verifiedBy,  \* VerifiedByAdmins
  seenIn,      \* SeenInChats
  approvedBy,  \* per chat with a row: ApprovedBy, if it is approved
  conv,        \* per session: its conversation
  pc,          \* per session: the step of its message
  again,       \* per session: the deferred UpdateActorStatus is on
  carried,     \* per session: the sender in the message is tagged
  snap,        \* per session: the actor as GetActorByTgUser read it
  plan,        \* per session: what UpdateActorStatus has computed
  messages, renames, errors,
  everTagged,  \* history: actors ever tagged
  everVerifiedBy,   \* history: VerifiedByAdmins without the rejections
  granted,     \* history: sessions told in their last message that access is granted
  clean,       \* history: sessions whose last message met no error, no other
               \* message of the actor and no new username, then or later
  owed         \* history: those whose actor could claim access before it

users == <<tagged, seenTagged>>
status == <<admins, accepted>>
reasons == <<entered, verifiedBy, seenIn, approvedBy>>
work == <<conv, pc, again, carried, snap, plan>>
counters == <<messages, renames, errors>>
origins == <<everTagged, everVerifiedBy>>
claims == <<granted, clean, owed>>
vars == <<users, status, reasons, banned, work, counters, origins, claims>>

Private(s) == chatOf[s] = NoChat

\* The main menu, with IsAdmin of the actor it was last shown to; no handler is
\* a menu that is made for the next message.
NoConv == [kind |-> "none", actor |-> NoActor]
MenuFor(isAdmin) == [kind |-> IF isAdmin THEN "adminMenu" ELSE "menu", actor |-> NoActor]
Access == [kind |-> "access", actor |-> NoActor]
Action(k, a) == [kind |-> k, actor |-> a]
ActionTypes == {"approve", "reject", "ban"}

NoSnap == [admin |-> FALSE, accepted |-> FALSE]
NoPlan == [accept |-> FALSE, admin |-> "keep"]

Steps == {"idle", "user", "load", "seen", "status", "accept", "admin", "handle",
          "check", "act", "enter"}

TypeOK ==
  /\ tagged \subseteq Actors /\ seenTagged \subseteq Actors
  /\ admins \subseteq Actors /\ accepted \subseteq Actors
  /\ entered \subseteq Actors /\ banned \subseteq Actors
  /\ verifiedBy \in [Actors -> SUBSET Actors]
  /\ seenIn \in [Actors -> SUBSET Chats]
  /\ approvedBy \in [Chats -> Actors \cup {NoActor}]
  /\ conv \in [Sessions -> [kind : {"none", "menu", "adminMenu", "access"} \cup ActionTypes,
                            actor : Actors \cup {NoActor}]]
  /\ pc \in [Sessions -> Steps]
  /\ again \in [Sessions -> BOOLEAN]
  /\ carried \in [Sessions -> BOOLEAN]
  /\ snap \in [Sessions -> [admin : BOOLEAN, accepted : BOOLEAN]]
  /\ plan \in [Sessions -> [accept : BOOLEAN, admin : {"keep", "set", "clear"}]]
  /\ messages \in 0 .. MaxMessages
  /\ renames \in 0 .. MaxRenames /\ errors \in 0 .. MaxErrors
  /\ everTagged \subseteq Actors
  /\ everVerifiedBy \in [Actors -> SUBSET Actors]
  /\ granted \subseteq Sessions /\ clean \subseteq Sessions /\ owed \subseteq Sessions

Init ==
  /\ tagged \in SUBSET Actors /\ seenTagged = {}
  /\ admins = {} /\ accepted = {} /\ entered = {} /\ banned = {}
  /\ verifiedBy = [a \in Actors |-> {}]
  /\ seenIn = [a \in Actors |-> {}]
  /\ approvedBy = [c \in Chats |-> NoActor]
  /\ conv = [s \in Sessions |-> NoConv]
  /\ pc = [s \in Sessions |-> "idle"]
  /\ again = [s \in Sessions |-> FALSE]
  /\ carried = [s \in Sessions |-> FALSE]
  /\ snap = [s \in Sessions |-> NoSnap]
  /\ plan = [s \in Sessions |-> NoPlan]
  /\ messages = 0 /\ renames = 0 /\ errors = 0
  /\ everTagged = tagged
  /\ everVerifiedBy = [a \in Actors |-> {}]
  /\ granted = {} /\ clean = {} /\ owed = {}

GoTo(s, step) == pc' = [pc EXCEPT ![s] = step]

\* Between messages nothing but the conversation is kept.
Finish(s) ==
  /\ GoTo(s, "idle")
  /\ again' = [again EXCEPT ![s] = FALSE]
  /\ carried' = [carried EXCEPT ![s] = FALSE]
  /\ snap' = [snap EXCEPT ![s] = NoSnap]
  /\ plan' = [plan EXCEPT ![s] = NoPlan]

-----------------------------------------------------------------------------
SessionsOf(a) == {s \in Sessions : actorOf[s] = a}
Busy(s) == pc[s] # "idle"
ApprovedChats == {c \in Chats : approvedBy[c] # NoActor}

\* A reason for access that nobody takes back.
Claims(a) == a \in entered \/ seenIn[a] \cap ApprovedChats # {}

\* The user takes or gives up a username that is in AdminTags.
Rename(a) ==
  /\ renames < MaxRenames
  /\ renames' = renames + 1
  /\ tagged' = IF a \in tagged THEN tagged \ {a} ELSE tagged \cup {a}
  /\ everTagged' = everTagged \cup tagged'
  /\ clean' = clean \ SessionsOf(a)
  /\ UNCHANGED <<seenTagged, status, reasons, banned, work, messages, errors,
                 everVerifiedBy, granted, owed>>

\* The user sends a message, which carries the username of that moment.
Begin(s) ==
  LET a == actorOf[s]
      others == SessionsOf(a) \ {s}
  IN /\ ~Busy(s)
     /\ messages < MaxMessages
     /\ messages' = messages + 1
     /\ GoTo(s, "user")
     /\ carried' = [carried EXCEPT ![s] = a \in tagged]
     /\ granted' = granted \ {s}
     /\ clean' = IF \E t \in others : Busy(t) THEN clean \ SessionsOf(a)
                 ELSE (clean \ SessionsOf(a)) \cup {s}
     /\ owed' = IF Claims(a) THEN owed \cup {s} ELSE owed \ {s}
     /\ UNCHANGED <<users, status, reasons, banned, conv, again, snap, plan, renames, errors,
                    origins>>

\* UpdateTgUserInfo of a user there is.
UpdateTgUserInfo(s) ==
  LET a == actorOf[s]
  IN /\ pc[s] = "user"
     /\ seenTagged' = IF carried[s] THEN seenTagged \cup {a} ELSE seenTagged \ {a}
     /\ GoTo(s, "load")
     /\ UNCHANGED <<tagged, status, reasons, banned, conv, again, carried, snap, plan,
                    counters, origins, claims>>

GetActorByTgUser(s) ==
  LET a == actorOf[s]
  IN /\ pc[s] = "load"
     /\ snap' = [snap EXCEPT ![s] = [admin |-> a \in admins, accepted |-> a \in accepted]]
     /\ GoTo(s, IF Private(s) THEN "status" ELSE "seen")
     /\ UNCHANGED <<users, status, reasons, banned, conv, again, carried, plan,
                    counters, origins, claims>>

Errs(s) ==
  /\ errors < MaxErrors
  /\ errors' = errors + 1
  /\ clean' = clean \ {s}

\* An error of this statement is dropped.
SeenInChat(s) ==
  LET a == actorOf[s]
  IN /\ pc[s] = "seen"
     /\ \/ /\ seenIn' = [seenIn EXCEPT ![a] = @ \cup {chatOf[s]}]
           /\ UNCHANGED <<errors, clean>>
        \/ Errs(s) /\ UNCHANGED seenIn
     /\ GoTo(s, "status")
     /\ UNCHANGED <<users, status, entered, verifiedBy, approvedBy, banned, conv, again,
                    carried, snap, plan, messages, renames, origins, granted, owed>>

-----------------------------------------------------------------------------
\* UpdateActorStatus.

\* Variant with a bug: every chat the actor was seen in counts.
AcceptedByAnyChat(a) ==
  \/ a \in admins \/ a \in entered
  \/ verifiedBy[a] \cap admins # {}
  \/ seenIn[a] # {}

computeActorAcceptedStatus(a) ==
  \/ a \in admins \/ a \in entered
  \/ verifiedBy[a] \cap admins # {}
  \/ seenIn[a] \cap ApprovedChats # {}

\* Variant with a bug: the accounts are not those of the actor.
AdminByAnyAccount(a) == a \in Actors /\ seenTagged # {}

computeAdminStatus(a) == a \in seenTagged

\* Acceptance is only ever given, since every caller passes doRemove = false.
PlanFor(a) ==
  [accept |-> a \notin accepted /\ computeActorAcceptedStatus(a),
   admin |-> IF computeAdminStatus(a) = (a \in admins) THEN "keep"
             ELSE IF computeAdminStatus(a) THEN "set" ELSE "clear"]

\* The call before the message is followed by the message, the deferred one is
\* the end of it.
AfterStatus(s) ==
  IF again[s] THEN Finish(s)
  ELSE /\ GoTo(s, "handle")
       /\ plan' = [plan EXCEPT ![s] = NoPlan]
       /\ UNCHANGED <<again, carried, snap>>

ReadStatus(s) ==
  LET p == PlanFor(actorOf[s])
  IN /\ pc[s] = "status"
     /\ IF p = NoPlan THEN AfterStatus(s)
        ELSE /\ plan' = [plan EXCEPT ![s] = p]
             /\ GoTo(s, IF p.accept THEN "accept" ELSE "admin")
             /\ UNCHANGED <<again, carried, snap>>
     /\ UNCHANGED <<users, status, reasons, banned, conv, counters, origins, claims>>

SetAccept(s) ==
  /\ pc[s] = "accept"
  /\ accepted' = accepted \cup {actorOf[s]}
  /\ IF plan[s].admin = "keep" THEN AfterStatus(s)
     ELSE GoTo(s, "admin") /\ UNCHANGED <<again, carried, snap, plan>>
  /\ UNCHANGED <<users, admins, reasons, banned, conv, counters, origins, claims>>

\* Variant with a bug: a struct passed to Updates leaves out FALSE.
SetAdminNonZero(s) ==
  /\ pc[s] = "admin"
  /\ admins' = IF plan[s].admin = "set" THEN admins \cup {actorOf[s]} ELSE admins
  /\ AfterStatus(s)
  /\ UNCHANGED <<users, accepted, reasons, banned, conv, counters, origins, claims>>

SetAdmin(s) ==
  /\ pc[s] = "admin"
  /\ admins' = IF plan[s].admin = "set" THEN admins \cup {actorOf[s]}
               ELSE admins \ {actorOf[s]}
  /\ AfterStatus(s)
  /\ UNCHANGED <<users, accepted, reasons, banned, conv, counters, origins, claims>>

-----------------------------------------------------------------------------
\* The message itself.  It ends with the deferred UpdateActorStatus.

\* Variant with a bug: no deferred call.
HandledAtOnce(s, c) ==
  /\ conv' = [conv EXCEPT ![s] = c]
  /\ Finish(s)

Handled(s, c) ==
  /\ conv' = [conv EXCEPT ![s] = c]
  /\ again' = [again EXCEPT ![s] = TRUE]
  /\ GoTo(s, "status")
  /\ UNCHANGED <<carried, snap, plan>>

Handling(s) ==
  /\ pc[s] = "handle"
  /\ UNCHANGED <<users, status, reasons, banned, counters, origins, claims>>

\* The message needs a database statement.
GoOn(s, step) == GoTo(s, step) /\ UNCHANGED <<conv, again, carried, snap, plan>>

InMenu(s) == Private(s) /\ conv[s].kind \in {"none", "menu", "adminMenu"}

\* IsLastAdmin: the actor of this message, if the menu is made for it, or else
\* of the one before.
IsLastAdmin(s) ==
  conv[s].kind = "adminMenu" \/ (conv[s].kind = "none" /\ snap[s].admin)

\* Anything that neither changes a status nor leaves the menu, and the
\* commands of other conversations, after which there is no handler.
MenuOther(s) ==
  /\ Handling(s)
  /\ InMenu(s)
  /\ Handled(s, MenuFor(snap[s].admin)) \/ Handled(s, NoConv)

AskAccess(s) ==
  /\ Handling(s)
  /\ InMenu(s)
  /\ Handled(s, IF snap[s].accepted THEN NoConv ELSE Access)

AskAction(s, k) ==
  /\ Handling(s)
  /\ InMenu(s) /\ IsLastAdmin(s)
  /\ Handled(s, Action(k, NoActor))

Abort(s) ==
  /\ Handling(s)
  /\ Private(s)
  /\ Handled(s, NoConv)

\* A wrong password, a user there is not, no confirmation, a failing Telegram.
\* Whoever is accepted is not asked for the password again.
Repeat(s) ==
  /\ Handling(s)
  /\ Private(s) /\ ~InMenu(s)
  /\ Handled(s, IF conv[s] = Access /\ snap[s].accepted THEN NoConv ELSE conv[s])

EnterPassword(s) ==
  /\ Handling(s)
  /\ conv[s] = Access
  /\ GoOn(s, "enter")

SelectUser(s, b) ==
  /\ Handling(s)
  /\ conv[s].kind \in ActionTypes /\ conv[s].actor = NoActor
  /\ Handled(s, Action(conv[s].kind, b))

\* Variant with a bug: a user who is not found is selected all the same, as the
\* actor without id that parseUserRefFromText began with.
ConfirmUnfound(s) ==
  /\ Handling(s)
  /\ conv[s].kind \in ActionTypes
  /\ GoOn(s, "check")

Confirm(s) ==
  /\ Handling(s)
  /\ conv[s].kind \in ActionTypes /\ conv[s].actor # NoActor
  /\ GoOn(s, "check")

PublicOther(s) == Handling(s) /\ ~Private(s) /\ Handled(s, NoConv)

\* /approve in a group chat, by one who was an admin when the message came.
AskApproveChat(s) ==
  /\ Handling(s)
  /\ ~Private(s)
  /\ snap[s].admin
  /\ GoOn(s, "check")

EnteredCorrectPassword(s) ==
  /\ pc[s] = "enter"
  /\ entered' = entered \cup {actorOf[s]}
  /\ granted' = granted \cup {s}
  /\ Handled(s, NoConv)
  /\ UNCHANGED <<users, status, verifiedBy, seenIn, approvedBy, banned, counters,
                 origins, clean, owed>>

\* CheckAdminPermission and CheckApproveChatPermission.
CheckAdmin(s) ==
  /\ pc[s] = "check"
  /\ IF actorOf[s] \in admins THEN GoOn(s, "act") ELSE Handled(s, conv[s])
  /\ UNCHANGED <<users, status, reasons, banned, counters, origins, claims>>

VerifiedByAdmin(s) ==
  /\ pc[s] = "act" /\ conv[s].kind = "approve"
  /\ verifiedBy' = [verifiedBy EXCEPT ![conv[s].actor] = @ \cup {actorOf[s]}]
  /\ everVerifiedBy' = [everVerifiedBy EXCEPT ![conv[s].actor] = @ \cup {actorOf[s]}]
  /\ Handled(s, NoConv)
  /\ UNCHANGED <<users, status, entered, seenIn, approvedBy, banned, counters,
                 everTagged, claims>>

RejectAdminVerifications(s) ==
  /\ pc[s] = "act" /\ conv[s].kind = "reject"
  /\ verifiedBy' = [verifiedBy EXCEPT ![conv[s].actor] = {}]
  /\ Handled(s, NoConv)
  /\ UNCHANGED <<users, status, entered, seenIn, approvedBy, banned, counters, origins, claims>>

BanActor(s) ==
  /\ pc[s] = "act" /\ conv[s].kind = "ban"
  /\ banned' = banned \cup {conv[s].actor}
  /\ Handled(s, NoConv)
  /\ UNCHANGED <<users, status, reasons, counters, origins, claims>>

\* Nothing is updated if no SeenInChat has made the chat's row.
ApproveChat(s) ==
  LET c == chatOf[s]
  IN /\ pc[s] = "act" /\ ~Private(s)
     /\ approvedBy' = IF \E a \in Actors : c \in seenIn[a]
                      THEN [approvedBy EXCEPT ![c] = actorOf[s]] ELSE approvedBy
     /\ Handled(s, NoConv)
     /\ UNCHANGED <<users, status, entered, verifiedBy, seenIn, banned, counters, origins, claims>>

-----------------------------------------------------------------------------
\* A database statement fails.
Fails(s, steps) ==
  /\ pc[s] \in steps
  /\ Errs(s)
  /\ UNCHANGED <<users, status, reasons, banned, messages, renames, origins, owed>>

\* Without the actor the message is dropped.
LoadFails(s) ==
  /\ Fails(s, {"user", "load"})
  /\ Finish(s)
  /\ UNCHANGED <<conv, granted>>

\* The error is shown, and the message goes on.
StatusFails(s) ==
  /\ Fails(s, {"status", "accept", "admin"})
  /\ AfterStatus(s)
  /\ granted' = granted \ {s}
  /\ UNCHANGED conv

HandleFails(s) ==
  /\ Fails(s, {"check", "act", "enter"})
  /\ Handled(s, conv[s])
  /\ UNCHANGED granted

\* The bot's process dies and is started again.
Restart ==
  /\ conv' = [s \in Sessions |-> NoConv]
  /\ pc' = [s \in Sessions |-> "idle"]
  /\ again' = [s \in Sessions |-> FALSE]
  /\ carried' = [s \in Sessions |-> FALSE]
  /\ snap' = [s \in Sessions |-> NoSnap]
  /\ plan' = [s \in Sessions |-> NoPlan]
  /\ granted' = {s \in granted : ~Busy(s)}
  /\ clean' = {s \in clean : ~Busy(s)}
  /\ UNCHANGED <<users, status, reasons, banned, counters, origins, owed>>

StatusStep(s) == ReadStatus(s) \/ SetAccept(s) \/ SetAdmin(s)

MessageStep(s) ==
  \/ MenuOther(s) \/ AskAccess(s) \/ Abort(s) \/ Repeat(s) \/ EnterPassword(s) \/ Confirm(s)
  \/ \E k \in ActionTypes : AskAction(s, k)
  \/ \E b \in Actors : SelectUser(s, b)
  \/ PublicOther(s) \/ AskApproveChat(s)

EffectStep(s) ==
  \/ EnteredCorrectPassword(s) \/ CheckAdmin(s) \/ VerifiedByAdmin(s)
  \/ RejectAdminVerifications(s) \/ BanActor(s) \/ ApproveChat(s)

SessionStep(s) ==
  \/ UpdateTgUserInfo(s) \/ GetActorByTgUser(s) \/ SeenInChat(s)
  \/ StatusStep(s) \/ MessageStep(s) \/ EffectStep(s)

Next ==
  \/ \E a \in Actors : Rename(a)
  \/ \E s \in Sessions :
       Begin(s) \/ SessionStep(s) \/ LoadFails(s) \/ StatusFails(s) \/ HandleFails(s)
  \/ Restart

Spec == Init /\ [][Next]_vars

-----------------------------------------------------------------------------
\* Whatever row says so, an admin, an approver of a chat and one whose
\* verification counted bore at some time a username of AdminTags.
AdminsWereTagged ==
  /\ admins \subseteq everTagged
  /\ \A a \in Actors : everVerifiedBy[a] \subseteq everTagged
  /\ \A c \in ApprovedChats : approvedBy[c] \in everTagged

\* Nobody is accepted without one of the four reasons there are: an admin's
\* username, the access password, an admin's verification (rejected since or
\* not) or a message in a chat that an admin approved.
AccessHasGround ==
  \A a \in accepted :
    Claims(a) \/ a \in everTagged \/ everVerifiedBy[a] # {}

\* Who was told "access granted" is accepted by the end of that message, with
\* other messages of the same user in other chats in between, unless an error
\* was shown after it.
GrantedIsAccepted ==
  \A s \in granted : ~Busy(s) => actorOf[s] \in accepted

\* After a message that met no error and no other message of its sender, the
\* columns agree with the reasons: an admin has the username, an admin is
\* accepted, and so is one with a claim nobody can take back.
StatusSettles ==
  \A s \in clean :
    LET a == actorOf[s]
    IN ~Busy(s) =>
         /\ a \in admins <=> a \in tagged
         /\ a \in admins \/ s \in owed => a \in accepted
=============================================================================
