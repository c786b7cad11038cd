SPECIFICATION MCSpec
CONSTANTS
  Nobody = Nobody
  Messages = {1, 2}
  Workers = {"w1", "w2"}
  Lease = 2
  MaxSend = 1
  MaxAttempts = 2
  BatchSize = 2
  Backoff <- LinearBackoff
  MaxDeaths = 1
  HookMessages = {1}
  HookAttempts = 2
  HookBackoff <- HooksBackoff
  TestEvent = 0
  Endpoints = {"e1"}
  Subscribed <- Everything
  Admins = {"a1", "a2"}
  DisableAfter = 2
  FanOutBatch = 1
  MaxActs = 1
CHECK_DEADLOCK FALSE
INVARIANTS
  AnswersAreTrue
  ActiveEndpointsHear
PROPERTIES
  ImplementsLeased
  HooksImplementLeased
  EverythingIsAnswered
