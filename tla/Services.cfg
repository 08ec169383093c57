SPECIFICATION Spec
CONSTANTS
  u1 = u1
  u2 = u2
  p1 = p1
  p2 = p2
  p3 = p3
  kAll = kAll
  kOne = kOne
  SenderNumbers = {"n1", "n2"}
  PreviewLimit = 2
  MaxText = 3
  MaxPreview = 1
  ApiUsers = {u1, u2}
  Phones = {p1, p2, p3}
  ApiKeys = {kAll, kOne}
  OwnerOf <- MCOwnerOf
  KeyPhone <- MCKeyPhone
  AnyPhone = AnyPhone
  KeyUntil <- MCKeyUntil
  Mobiles = {"mobile"}
  PhoneNumbers <- MCPhoneNumbers
  SmsInputs <- MCSmsInputs
  ApiConfigs <- MCApiConfigs
  Window = 2
  Spare = 1
  DefaultItems = 2
  DefaultLimit = 2
  MaxSms = 3
  MaxNow = 3
  MaxAsked = 1
  Minute = 3
  RateLimits = {0, 1, 2}
  MaxAttempts = 6
  MaxTime = 7
  MaxAges = {0, 1, 2}
  Zones = {"east", "west"}
  MaxDay = 4
  MaxBack = 1
  MaxLines = 3
  MaxBreaks = 2
  Names = {n1, n2}
  Creations = {r1, r2}
  NoAccount = NoAccount
  MaxBoots = 2
CHECK_DEADLOCK FALSE
INVARIANT SanitizeKeepsContent
INVARIANT PreviewShowsCleanText
INVARIANT RequireClosesEveryWay
INVARIANT CacheKeepsNewest
INVARIANT QueryFindsAll
INVARIANT AnswersAreEntitled
INVARIANT LimiterIsExact
INVARIANT EveryLineKept
INVARIANT FiledUnderItsDay
INVARIANT ArchivesKeptForMaxAge
INVARIANT CreatedIsKept
