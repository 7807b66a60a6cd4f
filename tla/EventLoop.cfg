SPECIFICATION FairSpec
CONSTANTS
  Threads = {t1, t2}
  Functors = {f1, f2, f3}
  NoFunctor = NoFunctor
  Channels = {c1}
  EventfdMax = 2
INVARIANTS NoLostWakeup NoLostQuit
PROPERTIES ImplementsQueue FunctorsRun ChannelsServed
