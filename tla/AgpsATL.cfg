CONSTANTS
  Clients = {c1, c2, c3}
  Kind = "ATL"
  MaxInFlight = 4
  MaxRestarts = 1
SPECIFICATION FairSpec
INVARIANTS ReleasedListEmpty ViewsAgree OpenMeansHeld PendingAnswerComing
PROPERTIES EveryoneAnswered
