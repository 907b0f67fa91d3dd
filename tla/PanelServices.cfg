CONSTANTS
  Workers = {w1, w2}
  Commands = {1, 2, 3}
  Counters = {1, 2}
  Triggers = {1, 2, 3}
  Users = {"u", "v"}
  Eligible = {"u"}
  FlagSets = {{}, {"discord", "multi"}}
  Assignees = {{}, {"u"}}
  Isolation = "repeatable"
  MaxWrites = 2
  MaxTries = 1
  Connections = {1, 2, 3}
  MaxVoiceUpsets = 6
  UploadIds = {1, 2}
  Uploaders = {"p"}
  UploadSize = 2
  MaxLive = 1
  UploadRequests = {1, 2}
  MaxUploadUpsets = 1
  OverlayUploads = {1, 2}
  MAX_CONCURRENT_OVERLAY_UPLOADS = 1
  MAX_PENDING_WEBM_TRANSCODES = 2
  MaxVideoUpsets = 2
  Uses = {1, 2}
  MAX_BALANCE = 2
  PointCost = 1
  PriceStep = 1
  MaxCost = 2
  MaxUsesPerStream = 1
  MaxUseUpsets = 1
  RaffleStarts = {1, 2}
  RaffleViewers = {"v", "w"}
  Amount = 3
  Streams = {1, 2, 3}
  SSE_MAX_TOTAL_CONNECTIONS = 2
  UNAUTH_OVERLAY_SSE_MAX_CONNECTIONS = 1
  maxPerChannel = 2
  MaxTokens = 2
  MaxStatus = 2
  MaxStreamUpsets = 1
  KeyGuilds = {1, 2}
  MaxKeys = 4
  MaxKeyUpsets = 1
  People = {"o", "m", "p"}
  BotOwners = {"o"}
  Servers = {1, 2}
  Mutations = {1, 2}
  GivenLevels = {1, 3}
  MaxMemberUpsets = 1
  CodeRequests = {1, 2}
  Enrolments = {1, 2}
  Verifications = {1, 2}
  SignIns = {1, 2}
  CODE_MAX_ATTEMPTS = 1
  MAX_PASSKEYS_PER_USER = 1
  MaxDeviceCounter = 2
  MaxPasskeyUpsets = 1
SPECIFICATION Spec
INVARIANTS TypeOK VoiceHoldsTogether PointsHold
PROPERTIES CommandsStayApart StoredFilesHold AccessEndsWhenRevoked ServicesSettle
CHECK_DEADLOCK FALSE
