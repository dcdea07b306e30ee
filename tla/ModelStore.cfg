SPECIFICATION MCSpec
CONSTANTS
  seg = seg
  emb = emb
  net = net
  clusterer = clusterer
  whole = whole
  Pulls = {p1, p2}
  Fetches = {q}
  Models = {seg, emb}
  Registry <- Artifacts2
  Composites <- Lists
  Bundled = {clusterer}
  Chunks = 2
  Enough = 1
  None = None
  MaxEvents = 3
  Absent = Absent
  Text = Text
  Embed = Embed
  Speak = Speak
  Ollama = Ollama
  big = big
  small = small
  old = old
  embed = embed
  voice = voice
  quick = quick
  robot = robot
  kokoro = kokoro
  piper = piper
  home = home
  shelf = shelf
  Usual <- RuntimeOf
  SafeModel <- Safe
  Root = home
  Shipped <- Compiled
  Webs <- Published
  Instants <- Times
  Hosts <- Machines
  Configs <- Files
  Reserve <- ByGpu
  window = window
  tool = tool
  request = request
  Windowed = {window}
  Tools = {tool}
  Requests <- OneRequest
  Releases = {1, 2}
  MaxChanges = 4
INVARIANTS
  LonePullsLandUntorn
  EngineIsPinned
PROPERTIES
  ReadyIsKept
  CleanupSparesPicks
CHECK_DEADLOCK FALSE
