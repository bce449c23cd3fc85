SPECIFICATION Spec
CONSTANTS
  hub = hub
  leaf = leaf
  NULL = NULL
  Freed = Freed
  Fds = {1, 2}
  Servers <- TwoServers
  Files <- Configs
INVARIANTS ConnectionsSound PollSound
PROPERTIES SilentOnesGo EveryServerIsTried
