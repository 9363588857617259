SPECIFICATION ToolsSpec
CONSTANTS
  BufFrames = 4
  LogLines = 2
  LogEvery = 3
  StallAfter = 1
  LongGap = 3
  SameFreeze = 5
  Before = 0
  After = 0
  Slack = 1
  KeepEvidence = 1
  TopKinds = 1
  MinIntervals = 2
  Kinds = {"anr", "gc"}
  Drift = 1
  MaxTime = 5
  MaxLines = 2
  MaxLate = 1
  Codecs <- MCCodecs
  Includes = {"google", "extra"}
  Fixtures = {"avc", "vp9"}
  Formats = {"avc", "vp9", "mpeg2"}
  MaxFlips = 2
  Kernels = {"old", "new"}
  Modules = {"nft_masq", "ashmem_linux"}
  Ships <- MCShips
  BuiltIn = {}
  CheckEvery = 2
  Margin = 1
  MaxGap = 1
  MaxClock = 4
  MaxClients = 2
  kb = kb
  combo = combo
  Devs <- MCDevs
  Nodes = {n1, n2}
  Letters = {kb, combo}
  Movers = {combo}
  Virtual = {}
  Linked = {kb}
  TypingScore <- MCTyping
  PointerScore <- MCPointer
  NoPath = NoPath
  MaxSaves = 1
  TriggerKeys = {"w", "e"}
  Blank = "blank"
  Directions <- MCDirections
  Span = 1
  Authored <- MCAuthored
  MaxControls = 2
  MaxEdits = 6
SYMMETRY Symmetry
INVARIANTS ReportIsTrue VideoIsTrue ReadsWhatWasChosen EditorIsTrue
PROPERTY HostNotAccused
CHECK_DEADLOCK FALSE
