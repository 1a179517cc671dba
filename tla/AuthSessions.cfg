SPECIFICATION Spec
CONSTANTS
  Users = {u1, u2}
  SocialUsers = {u2}
  Buyers = {u1}
  Tokens = {t1, t2, t3}
  Identities = {h1}
  Calls = {k1, k2}
  NoUser = NoUser
  NoToken = NoToken
  NoIdentity = NoIdentity
  MaxPasswords = 2
SYMMETRY Interchangeable
INVARIANTS
  AuthTypeOK
  OneTokenPerSession
  OldPasswordsAreOut
  IdentityOfOneAccount
PROPERTY KeepsPromise
CHECK_DEADLOCK FALSE
