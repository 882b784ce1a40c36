\* Two network threads; sessions that keep Socket::Update.
SPECIFICATION Spec
CONSTANTS
  ThreadCount = 2
  Sessions = {s1, s2, s3}
  ChecksClosed = TRUE
INVARIANTS TypeOK ConnAccounting TrackedAtHome Balanced
PROPERTIES ImplementsLifecycle AcceptsAgain
