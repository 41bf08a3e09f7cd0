SPECIFICATION Spec
CONSTANTS
  Ann = Ann
  Bob = Bob
  Group = Group
  AnnPrivate = AnnPrivate
  AnnGroup = AnnGroup
  BobGroup = BobGroup
  NoActor = NoActor
  NoChat = NoChat
  Actors <- TwoUsers
  Chats <- Groups
  Sessions <- AdminAndMember
  actorOf <- AdminAndMemberActors
  chatOf <- AdminAndMemberChats
  MaxMessages = 6
  MaxRenames = 1
  MaxErrors = 1
INVARIANTS
  TypeOK
  AdminsWereTagged
  AccessHasGround
