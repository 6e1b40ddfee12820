\* The worker deletes its message queue while Stop is still in SetMessage.
CONSTANTS
  Senders = {ctl}
  Control = ctl
  NULL = NULL
  MaxMessages = 0
SPECIFICATION Spec
INVARIANT StopIsThreadSafe
