SPECIFICATION MCSpec
CONSTANTS
  b1 = b1
  b2 = b2
  c1 = c1
  c2 = c2
  c3 = c3
  s1 = s1
  s2 = s2
  s3 = s3
  Desktop = Desktop
  Browsers = {b1, b2}
  Kicker = Kicker
  Commands = {c1, c2, c3}
  Setters = {s1, s2, s3}
  Casts <- FourCasts
  Ports = {p4, p5}
  Conversations = {x, y}
  None = None
  MaxKicks = 2
  MaxSets = 2
  r1 = r1
  r2 = r2
  k = k
  w = w
  Pulls = {p1, p2}
  Preloads = {w}
  Chats = {k}
  Requests = {r1, r2}
  Waiting = {r1}
  Scenes <- TwoActors
  Servers = {v1, v2, v3}
  Tray = tray
  Tag = tag
  NoServer = NoServer
  NoCaller = NoCaller
  NoPull = NoPull
  MaxTrouble <- Troubles
INVARIANTS
  OffMeansOff
  PointerPersisted
  NoServerLost
  RowIsBacked
PROPERTIES
  CurtainFollows
  RetriesAreServed
CHECK_DEADLOCK FALSE
