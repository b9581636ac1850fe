CONSTANTS
  MaxRequests = 2
  MaxRestarts = 1
  Senders = {"s1", "s2"}
  MaxMsgs = 3
  \* Every writer can find a pipe full.
  DaemonRequests = 2
  MaxNotices = 2
  PipeSize = 1
  MaxFailures = 1
  \* Longer than the timer's thread waits for the mutex.
  MaxHold = 6
SPECIFICATION MCSpec
INVARIANTS RequestsOwned MessagesHandled RequestsAccounted TimerSound
PROPERTIES EveryRequestEnds ThreadsEnd
CHECK_DEADLOCK FALSE
