---------------------------- MODULE MCActorStatus ----------------------------
(***************************************************************************)
(* Instances of ActorStatus for TLC: two users who meet in the group Ann   *)
(* can approve while she uses the admin menu of her private chat, and one  *)
(* user whose messages in two chats overlap.                               *)
(***************************************************************************)
EXTENDS ActorStatus, TLC

CONSTANTS Ann, Bob, Group, AnnPrivate, AnnGroup, BobGroup    \* model values

TwoUsers == {Ann, Bob}
OneUser == {Ann}
Groups == {Group}
AdminAndMember == {AnnPrivate, BobGroup}
OwnSessions == {AnnPrivate, AnnGroup}
AdminAndMemberActors == (AnnPrivate :> Ann) @@ (BobGroup :> Bob)
AdminAndMemberChats == (AnnPrivate :> NoChat) @@ (BobGroup :> Group)
OwnActors == (AnnPrivate :> Ann) @@ (AnnGroup :> Ann)
OwnChats == (AnnPrivate :> NoChat) @@ (AnnGroup :> Group)
=============================================================================
