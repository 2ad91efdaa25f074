SPECIFICATION FairSpec
CONSTANTS
  drain = drain
  submit = submit
  poll = poll
  Caller = {drain, submit, poll}
  FailureThreshold = 2
  MaxFailures = 4
INVARIANTS
  TypeOK
  OpenIffFailing
PROPERTIES
  FailureShuts
  OutageEnds
