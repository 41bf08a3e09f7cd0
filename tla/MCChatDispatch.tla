--------------------------- MODULE MCChatDispatch ---------------------------
(***************************************************************************)
(* Instances of ChatDispatch for TLC: a user's private chat and the same   *)
(* user in a group chat.  Four updates of one session are the fewest with  *)
(* which a late cleanup can meet a newer ChatHandler.                      *)
(***************************************************************************)
EXTENDS ChatDispatch

CONSTANTS Alice, Group    \* model values

AllSessions == {Alice, Group}
GroupSessions == {Group}
=============================================================================
