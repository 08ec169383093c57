SPECIFICATION Spec
CONSTANTS
  Requests = {r1, r2, r3}
  Subscriber = sub
  Kinds = {"login", "auth", "logout", "change", "kick"}
  Tokens = {t1, t2}
  NoToken = none
  Failures = TRUE
  Volatile = TRUE
CHECK_DEADLOCK FALSE
INVARIANT TypeOK
INVARIANT LogoutEndsToken
PROPERTY ImplementsAuthority
