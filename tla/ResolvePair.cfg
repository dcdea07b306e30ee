SPECIFICATION PairSpec
CONSTANTS
  Absent = Absent
  Text = Text
  Embed = Embed
  Speak = Speak
  Ollama = Ollama
  big = big
  small = small
  old = old
  embed = embed
  voice = voice
  quick = quick
  robot = robot
  kokoro = kokoro
  piper = piper
  home = home
  shelf = shelf
  Usual <- RuntimeOf
  SafeModel <- Safe
  Backend <- Loader
  Root = home
  Shipped <- Compiled
  Webs <- Published
  Instants <- Times
  Hosts <- Machines
  Configs <- Speaking
  Reserve <- ByGpu
INVARIANTS
  RuntimeServesModel
CHECK_DEADLOCK FALSE
