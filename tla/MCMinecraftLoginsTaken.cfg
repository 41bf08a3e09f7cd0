SPECIFICATION Spec
CONSTANTS
  Ann = Ann
  Bob = Bob
  AnnChat = AnnChat
  AnnOther = AnnOther
  BobChat = BobChat
  L1 = L1
  L2 = L2
  NoActor = NoActor
  NoLogin = NoLogin
  Actors <- Users
  Handlers <- TwoChats
  actorOf <- TwoChatsOf
  limitOf <- OneEach
  AdminTagged <- Tagged
  Logins <- TwoLogins
SYMMETRY LoginSymmetry
INVARIANTS
  TakenAsksForAnother
