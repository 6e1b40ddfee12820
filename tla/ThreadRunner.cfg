\* A ThreadRunner: Control and two other senders, three messages.
CONSTANTS
  Senders = {ctl, s1, s2}
  Control = ctl
  NULL = NULL
  MaxMessages = 3
SPECIFICATION FairSpec
INVARIANT NothingLostWhileRunning
PROPERTY KeepsPromise
PROPERTY MessagesAreExecuted
PROPERTY ShutdownEnds
