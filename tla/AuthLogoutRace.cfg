SPECIFICATION Spec
CONSTANTS
  Requests = {r1, r2, r3}
  Subscriber = sub
  Kinds = {"login", "auth", "logout"}
  Tokens = {t1}
  NoToken = none
  Failures = FALSE
  Volatile = TRUE
CHECK_DEADLOCK FALSE
INVARIANT LogoutIsFinal
