SPECIFICATION Spec
CONSTANTS
  admin = admin
  private = private
  group = group
  Users <- MCUsers
  Names = {n1}
  NoName = NoName
  Sessions = {admin, private, group}
  UserOf <- MCUserOf
  Known = 1
  MaxRenames = 1
  AdminChat = admin
  PageSize = 2
INVARIANTS
  TypeOK
  UsersActors
  ActedOnNamed
  EveryoneListed
  PanicNeedsLostEnd
PROPERTIES
  NamesConverge
