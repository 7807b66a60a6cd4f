SPECIFICATION FairSpec
CONSTANTS
  c1 = c1
  c2 = c2
  c3 = c3
  Channels = {c1, c2, c3}
  Fds = {5, 6}
  FdOf <- MCFdOf
  Tied = {c1, c3}
  NoChannel = NoChannel
  Raised <- MCRaised
  kInitEventListSize = 1
INVARIANTS RecordsAgree NoDanglingChannel
PROPERTY ReadyIsHandled
