SPECIFICATION Spec
CONSTANTS
  Users = {u1}
  SocialUsers = {}
  Buyers = {u1}
  Tokens = {t1}
  Identities = {h1}
  Calls = {k1}
  NoUser = NoUser
  NoToken = NoToken
  NoIdentity = NoIdentity
  MaxPasswords = 1
CHECK_DEADLOCK FALSE
PROPERTY WithdrawalKeepsDebt
