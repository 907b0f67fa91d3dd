CONSTANTS
  Games = {g1, g2}
  Messages = {m1, m2, m3, m4}
  MaxWaiting = 2
  MaxUpsets = 3
  NoGame = "off"
  NoMessage = "none"
  MaxChannelQueue = 2
  MaxChatUpsets = 4
  ChatChannels = {"a", "b"}
  WINDOW = 3
  FLOOR = 1
  NON_PRIVILEGED_LIMIT = 2
  PRIVILEGED_LIMIT = 3
  MAX_PRIVILEGE_RECHECKS = 2
  MaxChunks = 2
  MaxSends = 2
  Timers = {1, 2}
  TimerChannels = {"a", "b"}
  Sessions = {"s"}
  SPACING = 2
  Gated = {2}
  MaxTimerUpsets = 2
  Attempts = {1, 2, 3}
  MAX_TRANSIENT_REBUILD_ATTEMPTS = 2
  MaxTokenUpsets = 2
  Redemptions = {1, 2}
  MaxNow = 6
  MaxCatchupUpsets = 2
  POLL = 2
  CURSOR_RETENTION = 2
  MAX_CURSOR_LAG = 4
  LEDGER_RETENTION = 4
  Clients = {1, 2, 3}
  MaxGatewayUpsets = 4
  MaxAlertUpsets = 3
SPECIFICATION Spec
INVARIANTS TypeOK NothingIsLost TokenIsTheLastConnected OwnerHearsTheTruth
PROPERTIES ChatKeepsItsDistance ServicesSettle
CHECK_DEADLOCK FALSE
