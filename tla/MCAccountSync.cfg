SPECIFICATION Spec
CONSTANTS
  Ann = Ann
  P1 = P1
  P2 = P2
  NoPassword = NoPassword
  Missing = Missing
  Torn = Torn
  Logins <- OneLogin
  Whitelists <- AnnLists
  Passwords <- TwoPasswords
  PipeCapacity = 2
  MaxChanges = 1
  MaxErrors = 1
  MaxDeaths = 1
INVARIANTS
  TypeOK
  LastPasswordWins
PROPERTIES
  WhitelistKept
  WhitelistConverges
  PasswordArrives
