SPECIFICATION MCSpec
CONSTANTS
  Requests = {r1, r2}
  None = None
  Twins = {x, y}
  Likers = {x, y}
  MaxCalls = 3
  People = {a, b}
  PostIds = {p1}
  CommentIds = {x, y, q1}
  MaxDepth = 2
  MaxPostCalls = 4
  Viewers = {b}
  Author = a
  MaxViews = 3
  MaxDecays = 1
  Writers = {a, b}
  Starter = a
  Segments = {x, y}
  RequireVotes = 1
  MaxSegments = 1
  MaxRetries = 2
  MaxChainCalls = 4
  Actions = {"post", "like"}
  MaxAttempts = 2
  MaxHistory = 2
  Goal = 2
  MaxSignals = 2
  MaxDay = 4
  Souls = {x, y}
  MaxRecounts = 2
  MaxSnapshots = 1
  MinSignals = 1
  MaxTwins = 2
  MaxDnaCalls = 3
  MaxWeeks = 1
  Players = {x, y, b}
  MaxSessions = 2
  MaxDecisions = 2
  LevelFields = {a}
  OtherFields = {b}
  Pieces = {x, y}
  MaxLog = 1
  MaxPatterns = 2
  MaxEgoCalls = 3
  VecTTL = 1
  VelTTL = 1
  TrustTTL = 1
  MaxTasteCalls = 3
  Items = {p1, p2, q1}
  Early = p1
  Reels = {q1}
  Readers = {b}
  Authors = {a}
  Served = {"home", "following", "nearby", "foryou", "trending", "reels"}
  Limit = 1
  PoolTTL = 1
  GraphTTL = 1
  MaxFeedCalls = 3
INVARIANTS
  CountersSettle
  PostsHonest
  ChainWhole
  ScoresWhole
  DnaSettles
  LearningHeals
  PagesHonest
  PairsHold
  OutcomeHonest
SYMMETRY Alike
CHECK_DEADLOCK FALSE
