----------------------------- MODULE MCAdminMenu -----------------------------
\* An admin and a user with a greater number who writes in two chats.
EXTENDS AdminMenu, TLC
CONSTANTS admin, private, group

MCUsers == 1 .. 2
MCUserOf == admin :> 1 @@ private :> 2 @@ group :> 2
=============================================================================
