SPECIFICATION FairSpec
CHECK_DEADLOCK FALSE
CONSTANTS
  Senders = {"parent", "child"}
  Kinds = {"msg", "socket", "native"}
  Lossy = TRUE
  Disconnecters = {"parent"}
  Crashers = {"child"}
  MaxSends <- MCMaxSends
INVARIANTS TypeOK InOrderUnlessLost PendingMatches HandlesSettled SilentOnlyUnacknowledged AckFindsQueue
PROPERTIES DisconnectCloses Delivered
