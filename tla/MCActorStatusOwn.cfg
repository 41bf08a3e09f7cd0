SPECIFICATION Spec
CONSTANTS
  Ann = Ann
  Bob = Bob
  Group = Group
  AnnPrivate = AnnPrivate
  AnnGroup = AnnGroup
  BobGroup = BobGroup
  NoActor = NoActor
  NoChat = NoChat
  Actors <- OneUser
  Chats <- Groups
  Sessions <- OwnSessions
  actorOf <- OwnActors
  chatOf <- OwnChats
  MaxMessages = 4
  MaxRenames = 2
  MaxErrors = 1
INVARIANTS
  GrantedIsAccepted
  StatusSettles
