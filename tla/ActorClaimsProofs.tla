-------------------------- MODULE ActorClaimsProofs --------------------------
(***************************************************************************)
(* Who has a claim gets what it gives: GrantedIsAccepted and StatusSettles *)
(* of ActorStatus, for every set of actors, chats and sessions.            *)
(*                                                                         *)
(* A claim, once made, stays (Grows of ActorStatusProofs), so that the     *)
(* deferred UpdateActorStatus reads it however many messages come between. *)
(* What a status settles to also needs that nobody else writes the row:    *)
(* SessionIsLocal bounds what a message does to the messages and rows of   *)
(* others, and each step is then followed for its own session alone.       *)
(***************************************************************************)
EXTENDS ActorStatusProofs

\* The deferred UpdateActorStatus is the end of a message.
Deferring(s) == again[s] => pc[s] \in {"status", "accept", "admin"}

\* A message that granted access is at its end, where the entry is found.
Granting(s) ==
  /\ actorOf[s] \in entered
  /\ pc[s] \in {"status", "accept", "admin", "idle"}
  /\ Busy(s) => again[s]
  /\ pc[s] \in {"admin", "idle"} => actorOf[s] \in accepted

Agrees(a) == a \in admins <=> a \in tagged

\* What UpdateActorStatus has computed is still right when it is written, and
\* the second time there is no column of admins left to write.
Deciding(s) ==
  LET a == actorOf[s]
  IN pc[s] \in {"accept", "admin"} =>
       /\ plan[s].admin = "set" => a \in tagged
       /\ plan[s].admin = "clear" => a \notin tagged
       /\ plan[s].admin = "keep" => pc[s] = "accept" /\ Agrees(a)
       /\ again[s] => plan[s].admin = "keep"

\* The UpdateActorStatus before the message is over.
FirstDone(s) == again[s] \/ pc[s] \in {"handle", "check", "act", "enter", "idle"}

\* A message alone with its actor: what it knows of the row at each step.
Settling(s) ==
  LET a == actorOf[s]
  IN /\ \A t \in SessionsOf(a) \ {s} : ~Busy(t)
     /\ pc[s] = "user" => (carried[s] <=> a \in tagged)
     /\ pc[s] # "user" => (a \in seenTagged <=> a \in tagged)
     /\ Deciding(s)
     /\ FirstDone(s) => Agrees(a)
     /\ FirstDone(s) \/ pc[s] = "admin" => (s \in owed => a \in accepted)
     /\ pc[s] = "idle" => (a \in admins => a \in accepted)

CInv ==
  /\ \A s \in Sessions : Deferring(s)
  /\ \A s \in granted : Granting(s)
  /\ \A s \in clean : Settling(s)
  /\ \A s \in owed : Claims(actorOf[s])

\* What a session does to the messages of the others: nothing.
OnlyOwn(t) ==
  \A s \in Sessions \ {t} :
    /\ pc'[s] = pc[s] /\ again'[s] = again[s]
    /\ carried'[s] = carried[s] /\ plan'[s] = plan[s]

\* And to the rows of other actors: what they have is not taken, and whether they
\* are admins or bear a username is not touched.
OwnRow(t) ==
  /\ \A b \in Actors \ {actorOf[t]} : /\ b \in admins' <=> b \in admins
                                      /\ b \in seenTagged' <=> b \in seenTagged
  /\ accepted \subseteq accepted' /\ tagged' = tagged
  /\ Grows

\* And to the record of what was promised.
OwnRecord(t) ==
  owed' = owed /\ clean' \subseteq clean /\ granted' \subseteq granted \cup {t}

Local(t) == OnlyOwn(t) /\ OwnRow(t) /\ OwnRecord(t)

Failure(t) == LoadFails(t) \/ StatusFails(t) \/ HandleFails(t)

-----------------------------------------------------------------------------
\* The ends of the steps, each seen from the sessions.
LEMMA EndsAreOwn ==
  ASSUME WorkTypeOK, NEW t \in Sessions
  PROVE  /\ Finish(t) => OnlyOwn(t)
         /\ AfterStatus(t) => OnlyOwn(t)
         /\ \A c : Handled(t, c) => OnlyOwn(t)
         /\ \A step : GoOn(t, step) => OnlyOwn(t)
<1> USE DEF WorkTypeOK, OnlyOwn, GoTo
<1>1. Finish(t) => OnlyOwn(t)
  BY DEF Finish
<1>2. AfterStatus(t) => OnlyOwn(t)
  BY <1>1 DEF AfterStatus
<1>3. \A c : Handled(t, c) => OnlyOwn(t)
  BY DEF Handled
<1>4. \A step : GoOn(t, step) => OnlyOwn(t)
  BY DEF GoOn
<1> QED
  BY <1>1, <1>2, <1>3, <1>4

\* A table that is left alone keeps every reason.
LEMMA ReasonsKept ==
  ASSUME UNCHANGED reasons, UNCHANGED origins
  PROVE  Grows
  BY DEF reasons, origins, Grows, ApprovedChats

\* A message in its own session only.
LEMMA MessageStepIsLocal ==
  ASSUME IInv, NEW t \in Sessions, MessageStep(t)
  PROVE  Local(t) /\ UNCHANGED <<users, status, reasons, claims>> /\ pc[t] = "handle"
<1>1. Handling(t)
  BY DEF MessageStep, MenuOther, AskAccess, Abort, Repeat, EnterPassword, Confirm, AskAction,
         SelectUser, PublicOther, AskApproveChat
<1>2. (\E c : Handled(t, c)) \/ (\E step \in {"enter", "check"} : GoOn(t, step))
  BY DEF MessageStep, MenuOther, AskAccess, Abort, Repeat, EnterPassword, Confirm, AskAction,
         SelectUser, PublicOther, AskApproveChat
<1>3. OnlyOwn(t)
  BY <1>2, EndsAreOwn DEF IInv, WorkOK
<1>4. Grows
  BY <1>1, ReasonsKept DEF Handling
<1> QED
  BY <1>1, <1>3, <1>4 DEF Handling, Local, OwnRow, OwnRecord, users, status, claims

\* The statements of a message.
LEMMA EffectStepIsLocal ==
  ASSUME IInv, NEW t \in Sessions, EffectStep(t)
  PROVE  /\ Local(t) /\ UNCHANGED <<users, status, clean, owed>>
         /\ pc[t] \in {"enter", "check", "act"}
<1>1. (\E c : Handled(t, c)) \/ GoOn(t, "act")
  BY DEF EffectStep, EnteredCorrectPassword, CheckAdmin, VerifiedByAdmin,
         RejectAdminVerifications, BanActor, ApproveChat
<1>2. OnlyOwn(t)
  BY <1>1, EndsAreOwn DEF IInv, WorkOK
<1>3. Grows
  BY EffectTables
<1>4. UNCHANGED <<users, status, clean, owed>> /\ granted' \subseteq granted \cup {t}
  BY DEF EffectStep, EnteredCorrectPassword, CheckAdmin, VerifiedByAdmin,
         RejectAdminVerifications, BanActor, ApproveChat, claims
<1>5. pc[t] \in {"enter", "check", "act"}
  BY DEF EffectStep, EnteredCorrectPassword, CheckAdmin, VerifiedByAdmin,
         RejectAdminVerifications, BanActor, ApproveChat
<1> QED
  BY <1>2, <1>3, <1>4, <1>5 DEF Local, OwnRow, OwnRecord, users, status

\* A failing statement.
LEMMA FailureIsLocal ==
  ASSUME IInv, NEW t \in Sessions, Failure(t)
  PROVE  /\ Local(t) /\ UNCHANGED <<users, status, reasons>> /\ Busy(t)
         /\ t \notin clean' /\ granted' \subseteq granted
<1>1. Finish(t) \/ AfterStatus(t) \/ \E c : Handled(t, c)
  BY DEF Failure, LoadFails, StatusFails, HandleFails
<1>2. OnlyOwn(t)
  BY <1>1, EndsAreOwn DEF IInv, WorkOK
<1>3. /\ UNCHANGED <<users, status, reasons, origins, owed>>
      /\ clean' = clean \ {t} /\ granted' \subseteq granted
      /\ pc[t] \in Steps \ {"idle"}
  BY DEF Failure, LoadFails, StatusFails, HandleFails, Fails, Errs, Steps
<1>4. Grows
  BY <1>3, ReasonsKept
<1> QED
  BY <1>2, <1>3, <1>4 DEF Local, OwnRow, OwnRecord, users, status, Busy

\* UpdateTgUserInfo, GetActor, SeenInChat.
LEMMA LoadingIsLocal ==
  ASSUME IInv, NEW t \in Sessions, UpdateTgUserInfo(t) \/ GetActorByTgUser(t) \/ SeenInChat(t)
  PROVE  Local(t)
<1>1. OnlyOwn(t)
  BY DEF IInv, WorkOK, WorkTypeOK, OnlyOwn, UpdateTgUserInfo, GetActorByTgUser, SeenInChat, GoTo
<1>2. OwnRecord(t)
  BY DEF UpdateTgUserInfo, GetActorByTgUser, SeenInChat, Errs, OwnRecord, claims
<1>3. Grows
  <2>1. CASE SeenInChat(t)
    <3>1. \A a \in Actors : seenIn[a] \subseteq seenIn'[a]
      BY <2>1 DEF IInv, TableTypeOK, SeenInChat
    <3> QED
      BY <2>1, <3>1 DEF SeenInChat, Grows, origins, ApprovedChats
  <2> QED
    BY <2>1, ReasonsKept DEF UpdateTgUserInfo, GetActorByTgUser
<1>4. OwnRow(t)
  BY <1>3 DEF OwnRow, UpdateTgUserInfo, GetActorByTgUser, SeenInChat, users, status
<1> QED
  BY <1>1, <1>2, <1>4 DEF Local

\* UpdateActorStatus writes the row of its own actor.
LEMMA StatusStepIsLocal ==
  ASSUME IInv, NEW t \in Sessions, StatusStep(t)
  PROVE  Local(t) /\ UNCHANGED <<users, reasons, claims>>
<1>1. /\ UNCHANGED <<users, reasons, origins, claims>>
      /\ accepted \subseteq accepted'
      /\ \A b \in Actors \ {actorOf[t]} : b \in admins' <=> b \in admins
  BY DEF StatusStep, ReadStatus, SetAccept, SetAdmin, status
<1>2. OnlyOwn(t)
  <2>1. CASE AfterStatus(t)
    BY <2>1, EndsAreOwn DEF IInv, WorkOK
  <2>2. CASE ~AfterStatus(t)
    BY <2>2
    DEF IInv, WorkOK, WorkTypeOK, OnlyOwn, StatusStep, ReadStatus, SetAccept, SetAdmin, GoTo
  <2> QED
    BY <2>1, <2>2
<1>3. Grows
  BY <1>1, ReasonsKept
<1> QED
  BY <1>1, <1>2, <1>3 DEF Local, OwnRow, OwnRecord, users, claims

\* What one step of a message, failing or not, may do to everybody else.
LEMMA SessionIsLocal ==
  ASSUME IInv, NEW t \in Sessions, SessionStep(t) \/ Failure(t)
  PROVE  Local(t) /\ Busy(t)
<1>1. Local(t)
  BY LoadingIsLocal, StatusStepIsLocal, MessageStepIsLocal, EffectStepIsLocal, FailureIsLocal
  DEF SessionStep
<1>2. Busy(t)
  BY MessageStepIsLocal, EffectStepIsLocal, FailureIsLocal
  DEF SessionStep, StatusStep, UpdateTgUserInfo, GetActorByTgUser, SeenInChat, ReadStatus,
      SetAccept, SetAdmin, Busy
<1> QED
  BY <1>1, <1>2

\* A claim is never lost.
LEMMA ClaimsKept ==
  ASSUME Grows, NEW a \in Actors, Claims(a)
  PROVE  Claims(a)'
  BY DEF Grows, Claims
\* What the invariant says of one session.
Claiming(s) ==
  /\ Deferring(s)
  /\ s \in granted => Granting(s)
  /\ s \in clean => Settling(s)

\* CInv session by session.
LEMMA ClaimingEach ==
  ASSUME HistoryTypeOK
  PROVE  CInv <=> (\A s \in Sessions : Claiming(s)) /\ (\A s \in owed : Claims(actorOf[s]))
  BY DEF HistoryTypeOK, CInv, Claiming

\* Nobody else's message is disturbed, since the actor of a clean one is alone.
LEMMA OthersKeep ==
  ASSUME HistoryTypeOK, NEW t \in Sessions, Local(t), Busy(t), NEW s \in Sessions \ {t},
         Claiming(s)
  PROVE  Claiming(s)'
<1>1. /\ pc'[s] = pc[s] /\ again'[s] = again[s]
      /\ carried'[s] = carried[s] /\ plan'[s] = plan[s]
  BY DEF Local, OnlyOwn
<1>2. actorOf[s] \in Actors /\ actorOf[t] \in Actors
  BY ActorOfAssumption
<1>3. Deferring(s)'
  BY <1>1 DEF Claiming, Deferring
<1>4. ASSUME s \in granted'
      PROVE  Granting(s)'
  <2>1. s \in granted
    BY <1>4 DEF Local, OwnRecord
  <2> QED
    BY <1>1, <2>1 DEF Claiming, Granting, Busy, Local, OwnRow, Grows
<1>5. ASSUME s \in clean'
      PROVE  Settling(s)'
  <2>1. Settling(s)
    BY <1>5 DEF Local, OwnRecord, Claiming
  <2>2. actorOf[t] # actorOf[s]
    BY <2>1 DEF Settling, SessionsOf
  <2>3. /\ actorOf[s] \in admins' <=> actorOf[s] \in admins
        /\ actorOf[s] \in seenTagged' <=> actorOf[s] \in seenTagged
        /\ actorOf[s] \in accepted => actorOf[s] \in accepted'
        /\ tagged' = tagged /\ owed' = owed
    <3>1. actorOf[s] \in Actors \ {actorOf[t]}
      BY <1>2, <2>2
    <3>2. /\ actorOf[s] \in admins' <=> actorOf[s] \in admins
          /\ actorOf[s] \in seenTagged' <=> actorOf[s] \in seenTagged
      BY <3>1 DEF Local, OwnRow
    <3>3. accepted \subseteq accepted' /\ tagged' = tagged /\ owed' = owed
      BY DEF Local, OwnRow, OwnRecord
    <3> QED
      BY <3>2, <3>3
  <2>4. ASSUME NEW u \in SessionsOf(actorOf[s]) \ {s}
        PROVE  ~Busy(u)'
    <3>1. u \in Sessions \ {t} /\ ~Busy(u)
      BY <2>1, <2>2 DEF Settling, SessionsOf
    <3>2. pc'[u] = pc[u]
      BY <3>1 DEF Local, OnlyOwn
    <3> QED
      BY <3>1, <3>2 DEF Busy
  <2>5. Agrees(actorOf[s])' <=> Agrees(actorOf[s])
    BY <2>3 DEF Agrees
  <2>6. Deciding(s)' /\ (FirstDone(s)' <=> FirstDone(s))
    BY <1>1, <2>1, <2>3, <2>5 DEF Settling, Deciding, FirstDone
  <2> QED
    BY <1>1, <2>1, <2>3, <2>4, <2>5, <2>6 DEF Settling
<1> QED
  BY <1>3, <1>4, <1>5 DEF Claiming

\* The actor of a clean message is alone as long as only that message takes steps.
LEMMA StillAlone ==
  ASSUME NEW t \in Sessions, OnlyOwn(t), Settling(t)
  PROVE  \A u \in SessionsOf(actorOf[t]) \ {t} : ~Busy(u)'
  BY DEF Settling, SessionsOf, OnlyOwn, Busy

-----------------------------------------------------------------------------
\* The steps of a message, each for its own session.  Before its end a message
\* has not granted access.
LEMMA MessageStepOwn ==
  ASSUME IInv, NEW t \in Sessions, Claiming(t), MessageStep(t)
  PROVE  Claiming(t)'
<1>1. Local(t) /\ UNCHANGED <<users, status, claims>> /\ pc[t] = "handle"
  BY MessageStepIsLocal
<1>2. (\E c : Handled(t, c)) \/ (\E step \in {"enter", "check"} : GoOn(t, step))
  BY DEF MessageStep, MenuOther, AskAccess, Abort, Repeat, EnterPassword, Confirm, AskAction,
         SelectUser, PublicOther, AskApproveChat
<1>3. \/ pc'[t] = "status" /\ again'[t]
      \/ pc'[t] \in {"enter", "check"} /\ again'[t] = again[t]
  BY <1>2 DEF IInv, WorkOK, WorkTypeOK, Handled, GoOn, GoTo
<1>4. ~again[t] /\ t \notin granted'
  BY <1>1 DEF Claiming, Deferring, Granting, claims
<1>5. ASSUME t \in clean'
      PROVE  Settling(t)'
  <2>1. Settling(t)
    BY <1>1, <1>5 DEF Claiming, claims
  <2>2. \A u \in SessionsOf(actorOf[t]) \ {t} : ~Busy(u)'
    BY <1>1, <2>1, StillAlone DEF Local
  <2> QED
    BY <1>1, <1>3, <2>1, <2>2
    DEF Settling, Deciding, FirstDone, Agrees, users, status, claims
<1> QED
  BY <1>3, <1>4, <1>5 DEF Claiming, Deferring

\* The password entered is found by the deferred call.
LEMMA EffectStepOwn ==
  ASSUME IInv, NEW t \in Sessions, Claiming(t), EffectStep(t)
  PROVE  Claiming(t)'
<1>1. Local(t) /\ UNCHANGED <<users, status, clean, owed>> /\ pc[t] \in {"enter", "check", "act"}
  BY EffectStepIsLocal
<1>2. (\E c : Handled(t, c)) \/ GoOn(t, "act")
  BY DEF EffectStep, EnteredCorrectPassword, CheckAdmin, VerifiedByAdmin,
         RejectAdminVerifications, BanActor, ApproveChat
<1>3. \/ pc'[t] = "status" /\ again'[t]
      \/ pc'[t] = "act" /\ again'[t] = again[t]
  BY <1>2 DEF IInv, WorkOK, WorkTypeOK, Handled, GoOn, GoTo
<1>4. ~again[t] /\ t \notin granted
  BY <1>1 DEF Claiming, Deferring, Granting
<1>5. ASSUME t \in granted'
      PROVE  Granting(t)'
  <2>1. EnteredCorrectPassword(t)
    BY <1>4, <1>5
    DEF EffectStep, CheckAdmin, VerifiedByAdmin, RejectAdminVerifications, BanActor,
        ApproveChat, claims
  <2>2. actorOf[t] \in entered' /\ pc'[t] = "status" /\ again'[t]
    BY <2>1 DEF EnteredCorrectPassword, Handled, GoTo, IInv, WorkOK, WorkTypeOK
  <2> QED
    BY <2>2 DEF Granting
<1>6. ASSUME t \in clean'
      PROVE  Settling(t)'
  <2>1. Settling(t)
    BY <1>1, <1>6 DEF Claiming
  <2>2. \A u \in SessionsOf(actorOf[t]) \ {t} : ~Busy(u)'
    BY <1>1, <2>1, StillAlone DEF Local
  <2> QED
    BY <1>1, <1>3, <2>1, <2>2 DEF Settling, Deciding, FirstDone, Agrees, users, status
<1> QED
  BY <1>3, <1>4, <1>5, <1>6 DEF Claiming, Deferring

\* The reads at the beginning: LastSeenInfo is what the message carries.
LEMMA LoadingOwn ==
  ASSUME IInv, NEW t \in Sessions, Claiming(t),
         UpdateTgUserInfo(t) \/ GetActorByTgUser(t) \/ SeenInChat(t)
  PROVE  Claiming(t)'
<1>1. Local(t)
  BY LoadingIsLocal
<1>2. /\ pc[t] \in {"user", "load", "seen"}
      /\ pc'[t] \in {"load", "seen", "status"}
      /\ again'[t] = again[t]
      /\ UNCHANGED <<tagged, status, granted, owed>>
  BY DEF UpdateTgUserInfo, GetActorByTgUser, SeenInChat, GoTo, users, claims, IInv, WorkOK,
         WorkTypeOK
<1>3. ~again[t] /\ t \notin granted'
  BY <1>2 DEF Claiming, Deferring, Granting
<1>4. actorOf[t] \in Actors
  BY ActorOfAssumption
<1>5. ASSUME t \in clean'
      PROVE  Settling(t)'
  <2>1. Settling(t)
    BY <1>1, <1>5 DEF Claiming, Local, OwnRecord
  <2>2. \A u \in SessionsOf(actorOf[t]) \ {t} : ~Busy(u)'
    BY <1>1, <2>1, StillAlone DEF Local
  <2>3. actorOf[t] \in seenTagged' <=> actorOf[t] \in tagged'
    <3>1. CASE UpdateTgUserInfo(t)
      BY <2>1, <3>1 DEF Settling, UpdateTgUserInfo
    <3>2. CASE ~UpdateTgUserInfo(t)
      BY <2>1, <3>2 DEF Settling, GetActorByTgUser, SeenInChat, users
    <3> QED
      BY <3>1, <3>2
  <2> QED
    BY <1>2, <1>3, <2>1, <2>2, <2>3 DEF Settling, Deciding, FirstDone
<1> QED
  BY <1>2, <1>3, <1>5 DEF Claiming, Deferring

-----------------------------------------------------------------------------
\* Where UpdateActorStatus goes.
LEMMA AfterStatusPlace ==
  ASSUME WorkTypeOK, NEW t \in Sessions, AfterStatus(t)
  PROVE  /\ ~again'[t]
         /\ again[t] => pc'[t] = "idle"
         /\ ~again[t] => pc'[t] = "handle"
  BY DEF WorkTypeOK, AfterStatus, Finish, GoTo

\* UpdateActorStatus ends well: a message that is settled when it leaves the step
\* it was at is settled at the next one.
LEMMA AfterStatusOwn ==
  ASSUME IInv, NEW t \in Sessions, Claiming(t), StatusStep(t), AfterStatus(t),
         t \in granted => actorOf[t] \in accepted',
         t \in clean => /\ Agrees(actorOf[t])'
                        /\ t \in owed => actorOf[t] \in accepted'
                        /\ again[t] /\ actorOf[t] \in admins' => actorOf[t] \in accepted'
  PROVE  Claiming(t)'
<1>1. Local(t) /\ UNCHANGED <<users, reasons, claims>>
  BY StatusStepIsLocal
<1>2. /\ ~again'[t]
      /\ again[t] => pc'[t] = "idle"
      /\ ~again[t] => pc'[t] = "handle"
  BY AfterStatusPlace DEF IInv, WorkOK
<1>3. pc[t] \in {"status", "accept", "admin"}
  BY DEF StatusStep, ReadStatus, SetAccept, SetAdmin
<1>4. ASSUME t \in granted'
      PROVE  Granting(t)'
  BY <1>1, <1>2, <1>3, <1>4 DEF Claiming, Granting, Busy, claims, reasons
<1>5. ASSUME t \in clean'
      PROVE  Settling(t)'
  <2>1. Settling(t) /\ t \in clean
    BY <1>1, <1>5 DEF Claiming, claims
  <2>2. \A u \in SessionsOf(actorOf[t]) \ {t} : ~Busy(u)'
    BY <1>1, <2>1, StillAlone DEF Local
  <2>3. actorOf[t] \in seenTagged' <=> actorOf[t] \in tagged'
    BY <1>1, <1>3, <2>1 DEF Settling, users
  <2>4. pc'[t] \in {"idle", "handle"} /\ (pc'[t] = "idle" => again[t])
    BY <1>2
  <2>5. Deciding(t)'
    BY <2>4 DEF Deciding
  <2> QED
    BY <1>1, <2>1, <2>2, <2>3, <2>4, <2>5 DEF Settling, claims
<1> QED
  BY <1>2, <1>4, <1>5 DEF Claiming, Deferring

\* What is computed agrees with the tables it is computed from.
LEMMA PlanAgrees ==
  ASSUME NEW a \in Actors
  PROVE  /\ Claims(a) \/ a \in admins => a \in accepted \/ PlanFor(a).accept
         /\ PlanFor(a).admin = "keep" => (a \in admins <=> a \in seenTagged)
         /\ PlanFor(a).admin = "set" => a \in seenTagged
         /\ PlanFor(a).admin = "clear" => a \notin seenTagged
         /\ (a \in admins <=> a \in seenTagged) => PlanFor(a).admin = "keep"
         /\ ~PlanFor(a).accept /\ PlanFor(a).admin = "keep" => PlanFor(a) = NoPlan
<1> DEFINE accept == a \notin accepted /\ computeActorAcceptedStatus(a)
<1>1. PlanFor(a).accept = accept
  BY DEF PlanFor
<1>2. PlanFor(a).admin = IF (a \in seenTagged) = (a \in admins) THEN "keep"
                         ELSE IF a \in seenTagged THEN "set" ELSE "clear"
  BY DEF PlanFor, computeAdminStatus
<1>3. ((a \in seenTagged) = (a \in admins)) <=> (a \in admins <=> a \in seenTagged)
  OBVIOUS
<1>4. /\ PlanFor(a).admin = "keep" => (a \in admins <=> a \in seenTagged)
      /\ PlanFor(a).admin = "set" => a \in seenTagged
      /\ PlanFor(a).admin = "clear" => a \notin seenTagged
      /\ (a \in admins <=> a \in seenTagged) => PlanFor(a).admin = "keep"
  BY <1>2, <1>3
<1>5. Claims(a) \/ a \in admins => a \in accepted \/ accept
  BY DEF Claims, computeActorAcceptedStatus
<1>6. PlanFor(a) = [accept |-> PlanFor(a).accept, admin |-> PlanFor(a).admin]
  BY DEF PlanFor
<1>7. ~PlanFor(a).accept /\ PlanFor(a).admin = "keep" => PlanFor(a) = NoPlan
  BY <1>1, <1>6 DEF NoPlan
<1> QED
  BY <1>1, <1>4, <1>5, <1>7

\* UpdateActorStatus reads the claims there are.
LEMMA ReadStatusOwn ==
  ASSUME IInv, NEW t \in Sessions, Claiming(t), t \in owed => Claims(actorOf[t]), ReadStatus(t)
  PROVE  Claiming(t)'
<1> DEFINE a == actorOf[t]
<1>1. /\ Local(t) /\ UNCHANGED <<users, status, reasons, claims>>
      /\ pc[t] = "status" /\ StatusStep(t)
  BY StatusStepIsLocal DEF StatusStep, ReadStatus
<1>2. a \in Actors
  BY ActorOfAssumption
<1>3. PICK p : p = PlanFor(a)
  OBVIOUS
<1>4. /\ Claims(a) \/ a \in admins => a \in accepted \/ p.accept
      /\ p.admin = "keep" => (a \in admins <=> a \in seenTagged)
      /\ p.admin = "set" => a \in seenTagged
      /\ p.admin = "clear" => a \notin seenTagged
      /\ (a \in admins <=> a \in seenTagged) => p.admin = "keep"
      /\ ~p.accept /\ p.admin = "keep" => p = NoPlan
  BY <1>2, <1>3, PlanAgrees
<1>5. p \in Plans
  BY <1>2, <1>3, PlanIsGrounded
<1>6. t \in granted => a \in entered /\ again[t]
  BY <1>1 DEF Claiming, Granting, Busy
<1>7. t \in clean => /\ Settling(t)
                     /\ a \in seenTagged <=> a \in tagged
                     /\ again[t] => Agrees(a) /\ (t \in owed => a \in accepted)
  BY <1>1 DEF Claiming, Settling, FirstDone
<1>8. CASE p = NoPlan
  <2>1. AfterStatus(t) /\ p.accept = FALSE /\ p.admin = "keep"
    BY <1>3, <1>8 DEF ReadStatus, NoPlan
  <2>2. t \in granted => a \in accepted'
    BY <1>1, <1>4, <1>6, <2>1 DEF Claims, status
  <2>3. t \in clean => /\ Agrees(a)'
                       /\ t \in owed => a \in accepted'
                       /\ again[t] /\ a \in admins' => a \in accepted'
    BY <1>1, <1>4, <1>7, <2>1 DEF Agrees, status, users
  <2> QED
    BY <1>1, <2>1, <2>2, <2>3, AfterStatusOwn
<1>9. CASE p # NoPlan
  <2>1. /\ plan'[t] = p /\ again'[t] = again[t]
        /\ pc'[t] = IF p.accept THEN "accept" ELSE "admin"
    BY <1>3, <1>9 DEF ReadStatus, GoTo, IInv, WorkOK, WorkTypeOK
  <2>2. pc'[t] \in {"accept", "admin"} /\ (pc'[t] = "admin" => ~p.accept)
    BY <2>1
  <2>3. ASSUME t \in granted'
        PROVE  Granting(t)'
    BY <1>1, <1>4, <1>6, <2>1, <2>2, <2>3
    DEF Granting, Busy, Claims, status, reasons, claims
  <2>4. ASSUME t \in clean'
        PROVE  Settling(t)'
    <3>1. Settling(t) /\ t \in clean
      BY <1>1, <1>7, <2>4 DEF claims
    <3>2. \A u \in SessionsOf(a) \ {t} : ~Busy(u)'
      BY <1>1, <3>1, StillAlone DEF Local
    <3>3. /\ (a \in seenTagged' <=> a \in tagged') /\ (Agrees(a)' <=> Agrees(a))
          /\ a \in accepted' <=> a \in accepted
          /\ a \in tagged' <=> a \in tagged
          /\ owed' = owed
      BY <1>1, <1>7, <3>1 DEF Agrees, users, status, claims
    <3>4. Deciding(t)'
      <4>1. /\ p.admin = "set" => a \in tagged
            /\ p.admin = "clear" => a \notin tagged
            /\ p.admin = "keep" => p.accept /\ Agrees(a)
            /\ again[t] => p.admin = "keep"
        BY <1>4, <1>7, <1>9, <3>1 DEF Agrees
      <4> QED
        BY <2>1, <3>3, <4>1 DEF Deciding
    <3>5. FirstDone(t)' => again[t]
      BY <2>1, <2>2 DEF FirstDone
    <3>6. pc'[t] = "admin" => (t \in owed => a \in accepted)
      BY <1>4, <2>2
    <3> QED
      BY <1>7, <2>2, <3>1, <3>2, <3>3, <3>4, <3>5, <3>6 DEF Settling
  <2> QED
    BY <2>1, <2>2, <2>3, <2>4 DEF Claiming, Deferring
<1> QED
  BY <1>8, <1>9

\* The column of acceptance is written.
LEMMA SetAcceptOwn ==
  ASSUME IInv, NEW t \in Sessions, Claiming(t), SetAccept(t)
  PROVE  Claiming(t)'
<1> DEFINE a == actorOf[t]
<1>1. /\ Local(t) /\ UNCHANGED <<users, admins, reasons, claims>>
      /\ pc[t] = "accept" /\ StatusStep(t) /\ a \in accepted'
  BY StatusStepIsLocal DEF StatusStep, SetAccept
<1>2. t \in granted => a \in entered /\ again[t]
  BY <1>1 DEF Claiming, Granting, Busy
<1>3. t \in clean => Settling(t) /\ (Agrees(a)' <=> Agrees(a))
  BY <1>1 DEF Claiming, Agrees, users
<1>4. CASE plan[t].admin = "keep"
  <2>1. AfterStatus(t)
    BY <1>4 DEF SetAccept
  <2>2. t \in clean => Agrees(a)'
    BY <1>1, <1>3, <1>4 DEF Settling, Deciding
  <2> QED
    BY <1>1, <2>1, <2>2, AfterStatusOwn
<1>5. CASE plan[t].admin # "keep"
  <2>1. pc'[t] = "admin" /\ again'[t] = again[t] /\ plan'[t] = plan[t]
    BY <1>5 DEF SetAccept, GoTo, IInv, WorkOK, WorkTypeOK
  <2>2. ASSUME t \in granted'
        PROVE  Granting(t)'
    BY <1>1, <1>2, <2>1, <2>2 DEF Granting, Busy, reasons, claims
  <2>3. ASSUME t \in clean'
        PROVE  Settling(t)'
    <3>1. Settling(t) /\ t \in clean
      BY <1>1, <1>3, <2>3 DEF claims
    <3>2. \A u \in SessionsOf(a) \ {t} : ~Busy(u)'
      BY <1>1, <3>1, StillAlone DEF Local
    <3>3. /\ plan[t].admin = "set" => a \in tagged
          /\ plan[t].admin = "clear" => a \notin tagged
          /\ ~again[t]
      BY <1>1, <1>5, <3>1 DEF Settling, Deciding
    <3>4. Deciding(t)'
      BY <1>1, <1>5, <2>1, <3>3 DEF Deciding, users
    <3>5. ~FirstDone(t)'
      BY <2>1, <3>3 DEF FirstDone
    <3>6. a \in seenTagged' <=> a \in tagged'
      BY <1>1, <3>1 DEF Settling, users
    <3> QED
      BY <1>1, <2>1, <3>2, <3>4, <3>5, <3>6 DEF Settling
  <2> QED
    BY <2>1, <2>2, <2>3 DEF Claiming, Deferring
<1> QED
  BY <1>4, <1>5

\* The column of admins is written, in the first call only.
LEMMA SetAdminOwn ==
  ASSUME IInv, NEW t \in Sessions, Claiming(t), SetAdmin(t)
  PROVE  Claiming(t)'
<1> DEFINE a == actorOf[t]
<1>1. /\ Local(t) /\ UNCHANGED <<users, accepted, reasons, claims>>
      /\ pc[t] = "admin" /\ StatusStep(t) /\ AfterStatus(t)
  BY StatusStepIsLocal DEF StatusStep, SetAdmin
<1>2. t \in granted => a \in accepted'
  BY <1>1 DEF Claiming, Granting
<1>3. ASSUME t \in clean
      PROVE  /\ Agrees(a)'
             /\ t \in owed => a \in accepted'
             /\ ~again[t]
  <2>1. Settling(t) /\ Deciding(t)
    BY <1>3 DEF Claiming, Settling
  <2>2. /\ plan[t].admin = "set" => a \in tagged
        /\ plan[t].admin = "clear" => a \notin tagged
        /\ plan[t].admin # "keep" /\ ~again[t]
    BY <1>1, <2>1 DEF Deciding
  <2>3. plan[t].admin \in {"set", "clear"}
    BY <2>2 DEF IInv, WorkOK, WorkTypeOK, Plans
  <2>4. a \in admins' <=> plan[t].admin = "set"
    BY DEF SetAdmin
  <2>5. Agrees(a)'
    BY <1>1, <2>2, <2>3, <2>4 DEF Agrees, users
  <2> QED
    BY <1>1, <2>1, <2>2, <2>5 DEF Settling
<1> QED
  BY <1>1, <1>2, <1>3, AfterStatusOwn

\* After an error nothing is claimed of the message.
LEMMA FailureOwn ==
  ASSUME IInv, NEW t \in Sessions, Claiming(t), Failure(t)
  PROVE  Claiming(t)'
<1>1. t \notin clean' /\ granted' \subseteq granted
  BY FailureIsLocal
<1>2. t \notin granted'
  BY <1>1
  DEF Failure, LoadFails, StatusFails, HandleFails, Fails, Claiming, Granting
<1>3. Deferring(t)'
  <2>1. CASE LoadFails(t)
    BY <2>1 DEF LoadFails, Finish, GoTo, Deferring, IInv, WorkOK, WorkTypeOK
  <2>2. CASE StatusFails(t)
    BY <2>2, AfterStatusPlace DEF StatusFails, Deferring, IInv, WorkOK
  <2>3. CASE HandleFails(t)
    BY <2>3 DEF HandleFails, Handled, GoTo, Deferring, IInv, WorkOK, WorkTypeOK
  <2> QED
    BY <2>1, <2>2, <2>3 DEF Failure
<1> QED
  BY <1>1, <1>2, <1>3 DEF Claiming

\* A step of a message, failing or not, keeps the claims of all.
LEMMA SessionKeepsClaims ==
  ASSUME IInv, HistoryTypeOK', CInv, NEW t \in Sessions, SessionStep(t) \/ Failure(t)
  PROVE  CInv'
<1>1. Local(t) /\ Busy(t)
  BY SessionIsLocal
<1>2. HistoryTypeOK /\ owed \subseteq Sessions
  BY DEF IInv, HistoryTypeOK
<1>3. \A s \in Sessions : Claiming(s)
  BY <1>2, ClaimingEach
<1>4. t \in owed => Claims(actorOf[t])
  BY DEF CInv
<1>5. Claiming(t)'
  BY <1>3, <1>4, MessageStepOwn, EffectStepOwn, LoadingOwn, ReadStatusOwn, SetAcceptOwn,
     SetAdminOwn, FailureOwn DEF SessionStep, StatusStep
<1>6. \A s \in Sessions \ {t} : Claiming(s)'
  BY <1>1, <1>2, <1>3, OthersKeep
<1>7. ASSUME NEW s \in owed'
      PROVE  Claims(actorOf[s])'
  <2>1. s \in owed /\ Grows
    BY <1>1 DEF Local, OwnRow, OwnRecord
  <2>2. actorOf[s] \in Actors
    BY <1>2, <2>1, ActorOfAssumption
  <2> QED
    BY <2>1, <2>2, ClaimsKept DEF CInv
<1> QED
  BY <1>5, <1>6, <1>7 DEF CInv, Claiming, HistoryTypeOK

-----------------------------------------------------------------------------
\* A new username: nothing is claimed of the user's last messages.
LEMMA RenameKeepsClaims ==
  ASSUME IInv, CInv, NEW a \in Actors, Rename(a)
  PROVE  CInv'
<1>1. /\ UNCHANGED <<seenTagged, status, reasons, work, granted, owed>>
      /\ clean' = clean \ SessionsOf(a)
      /\ \A b \in Actors \ {a} : b \in tagged' <=> b \in tagged
  BY DEF Rename
<1>2. (\A s \in Sessions : Deferring(s)') /\ (\A s \in granted' : Granting(s)')
  BY <1>1 DEF CInv, Deferring, Granting, Busy, work, status, reasons
<1>3. \A s \in owed' : Claims(actorOf[s])'
  BY <1>1 DEF CInv, Claims, ApprovedChats, reasons
<1>4. ASSUME NEW s \in clean'
      PROVE  Settling(s)'
  <2>1. s \in Sessions /\ Settling(s)
    BY <1>1 DEF CInv, IInv, HistoryTypeOK
  <2>2. actorOf[s] \in Actors /\ actorOf[s] # a
    BY <1>1, <2>1, ActorOfAssumption DEF SessionsOf
  <2>3. actorOf[s] \in tagged' <=> actorOf[s] \in tagged
    BY <1>1, <2>2
  <2>4. (Agrees(actorOf[s])' <=> Agrees(actorOf[s])) /\ (FirstDone(s)' <=> FirstDone(s))
    BY <1>1, <2>3 DEF Agrees, FirstDone, work, status
  <2>5. Deciding(s)'
    BY <1>1, <2>1, <2>3, <2>4 DEF Settling, Deciding, work
  <2> QED
    BY <1>1, <2>1, <2>3, <2>4, <2>5 DEF Settling, Busy, work, status
<1> QED
  BY <1>2, <1>3, <1>4 DEF CInv

\* A message begins: it is clean if no other of its actor is on the way.
LEMMA BeginKeepsClaims ==
  ASSUME IInv, CInv, NEW t \in Sessions, Begin(t)
  PROVE  CInv'
<1> DEFINE a == actorOf[t]
<1>1. /\ UNCHANGED <<users, status, reasons, again, plan>>
      /\ granted' = granted \ {t} /\ clean' \subseteq (clean \ SessionsOf(a)) \cup {t}
      /\ t \in clean' => \A u \in SessionsOf(a) \ {t} : ~Busy(u)
      /\ owed' = IF Claims(a) THEN owed \cup {t} ELSE owed \ {t}
      /\ ~Busy(t)
  BY DEF Begin, SessionsOf
<1>2. \A s \in Sessions : /\ pc'[s] = IF s = t THEN "user" ELSE pc[s]
                          /\ carried'[s] = IF s = t THEN a \in tagged ELSE carried[s]
  BY DEF Begin, GoTo, IInv, WorkOK, WorkTypeOK
<1>3. ~again[t] /\ granted \subseteq Sessions /\ clean \subseteq Sessions /\ owed \subseteq Sessions
  BY <1>1 DEF CInv, Deferring, Busy, IInv, HistoryTypeOK
<1>4. \A s \in Sessions : Deferring(s)'
  BY <1>1, <1>2, <1>3 DEF CInv, Deferring
<1>5. \A s \in granted' : Granting(s)'
  BY <1>1, <1>2, <1>3 DEF CInv, Granting, Busy, status, reasons
<1>6. \A s \in owed' : Claims(actorOf[s])'
  BY <1>1 DEF CInv, Claims, ApprovedChats, reasons
<1>7. ASSUME NEW s \in clean', s # t
      PROVE  Settling(s)'
  <2>1. s \in clean /\ s \in Sessions /\ Settling(s) /\ actorOf[s] # a
    BY <1>1, <1>3, <1>7 DEF CInv, SessionsOf
  <2>2. /\ pc'[s] = pc[s] /\ again'[s] = again[s] /\ (carried'[s] <=> carried[s])
        /\ plan'[s] = plan[s] /\ (s \in owed' <=> s \in owed)
    BY <1>1, <1>2, <1>7, <2>1
  <2>3. \A u \in SessionsOf(actorOf[s]) \ {s} : ~Busy(u)'
    BY <1>2, <2>1 DEF Settling, SessionsOf, Busy
  <2>4. (Agrees(actorOf[s])' <=> Agrees(actorOf[s])) /\ (FirstDone(s)' <=> FirstDone(s))
    BY <1>1, <2>2 DEF Agrees, FirstDone, users, status
  <2>5. Deciding(s)'
    BY <1>1, <2>1, <2>2, <2>4 DEF Settling, Deciding, users
  <2> QED
    BY <1>1, <2>1, <2>2, <2>3, <2>4, <2>5 DEF Settling, users, status
<1>8. ASSUME t \in clean'
      PROVE  Settling(t)'
  <2>1. \A u \in SessionsOf(a) \ {t} : ~Busy(u)'
    BY <1>1, <1>2, <1>8 DEF SessionsOf, Busy
  <2>2. pc'[t] = "user" /\ ~again'[t] /\ (carried'[t] <=> a \in tagged')
    BY <1>1, <1>2, <1>3 DEF users
  <2> QED
    BY <2>1, <2>2 DEF Settling, Deciding, FirstDone
<1> QED
  BY <1>4, <1>5, <1>6, <1>7, <1>8 DEF CInv

\* The process dies: what the finished messages settled stays.
LEMMA RestartKeepsClaims ==
  ASSUME IInv, CInv, Restart
  PROVE  CInv'
<1>1. /\ UNCHANGED <<users, status, reasons, owed>>
      /\ granted' = {s \in granted : ~Busy(s)} /\ clean' = {s \in clean : ~Busy(s)}
      /\ \A s \in Sessions : pc'[s] = "idle" /\ ~again'[s]
  BY DEF Restart
<1>2. granted \subseteq Sessions /\ clean \subseteq Sessions
  BY DEF IInv, HistoryTypeOK
<1>3. (\A s \in Sessions : Deferring(s)') /\ (\A s \in granted' : Granting(s)')
  BY <1>1, <1>2 DEF CInv, Deferring, Granting, Busy, status, reasons
<1>4. \A s \in owed' : Claims(actorOf[s])'
  BY <1>1 DEF CInv, Claims, ApprovedChats, reasons
<1>5. ASSUME NEW s \in clean'
      PROVE  Settling(s)'
  <2>1. s \in Sessions /\ Settling(s) /\ pc[s] = "idle" /\ pc'[s] = "idle"
    BY <1>1, <1>2 DEF CInv, Busy
  <2>2. \A u \in SessionsOf(actorOf[s]) \ {s} : ~Busy(u)'
    BY <1>1 DEF SessionsOf, Busy
  <2>3. /\ actorOf[s] \in seenTagged <=> actorOf[s] \in tagged
        /\ Agrees(actorOf[s]) /\ (s \in owed => actorOf[s] \in accepted)
        /\ actorOf[s] \in admins => actorOf[s] \in accepted
    BY <2>1 DEF Settling, FirstDone
  <2> QED
    BY <1>1, <2>1, <2>2, <2>3 DEF Settling, Deciding, Agrees, users, status
<1> QED
  BY <1>3, <1>4, <1>5 DEF CInv

-----------------------------------------------------------------------------
\* Nobody has been told anything.
LEMMA InitCInv == Init => CInv
  BY DEF Init, CInv, Deferring

\* Every step keeps the claims.
LEMMA CInvStep == IInv /\ IInv' /\ CInv /\ [Next]_vars => CInv'
<1> SUFFICES ASSUME IInv, IInv', CInv, [Next]_vars
             PROVE  CInv'
  OBVIOUS
<1>1. HistoryTypeOK'
  BY DEF IInv
<1>2. CASE UNCHANGED vars
  <2>1. UNCHANGED <<users, status, reasons, work, claims>>
    BY <1>2 DEF vars
  <2>2. /\ \A s \in Sessions : Deferring(s)' <=> Deferring(s)
        /\ \A s \in Sessions : Granting(s)' <=> Granting(s)
        /\ \A s \in Sessions : Claims(actorOf[s])' <=> Claims(actorOf[s])
    BY <2>1 DEF Deferring, Granting, Claims, ApprovedChats, Busy, status, reasons, work
  <2>3. \A s \in Sessions : Settling(s)' <=> Settling(s)
    BY <2>1 DEF Settling, Deciding, FirstDone, Agrees, SessionsOf, Busy, users, status, work, claims
  <2>4. granted \subseteq Sessions /\ clean \subseteq Sessions /\ owed \subseteq Sessions
    BY DEF IInv, HistoryTypeOK
  <2> QED
    BY <2>1, <2>2, <2>3, <2>4 DEF CInv, claims
<1> QED
  BY <1>1, <1>2, SessionKeepsClaims, RenameKeepsClaims, BeginKeepsClaims, RestartKeepsClaims
  DEF Next, Failure

\* What each message relies on, whatever the others do.
THEOREM ClaimsInvariance == Spec => []CInv
<1>1. IInv /\ CInv /\ [Next]_vars => IInv' /\ CInv'
  BY IInvStep, CInvStep
<1> QED
  BY InitIInv, InitCInv, <1>1, PTL DEF Spec

\* Who was told "access granted" is accepted when the message is over, unless an
\* error was shown: other messages of the same user, in any number of chats, and
\* those of everybody else may come between any two of its statements.
THEOREM GrantedAreAccepted == Spec => []GrantedIsAccepted
<1>1. CInv => GrantedIsAccepted
  BY DEF CInv, Granting, Busy, GrantedIsAccepted
<1> QED
  BY ClaimsInvariance, <1>1, PTL

\* After a message that met no error and no other message of its sender, the
\* columns say what the reasons say: the admin column follows the username, and
\* admins and those with a claim are accepted.
THEOREM StatusesSettle == Spec => []StatusSettles
<1>1. CInv => StatusSettles
  <2> SUFFICES ASSUME CInv, NEW s \in clean, ~Busy(s)
               PROVE  /\ actorOf[s] \in admins <=> actorOf[s] \in tagged
                      /\ actorOf[s] \in admins \/ s \in owed => actorOf[s] \in accepted
    BY DEF StatusSettles
  <2>1. Settling(s) /\ pc[s] = "idle"
    BY DEF CInv, Busy
  <2> QED
    BY <2>1 DEF Settling, FirstDone, Agrees
<1> QED
  BY ClaimsInvariance, <1>1, PTL
=============================================================================
