CONSTANTS
  w1 = w1
  w2 = w2
  Writes <- MCWrites
  Followings <- Panels
  NoWrite = NoWrite
  Absent = Absent
  MaxVersion = 3
  MaxEvents = 2
  Names = {"n", "m"}
  Missing = Missing
  Deleted = Deleted
  Requests = {"r"}
  Listable <- MCListable
  Listings <- MCListings
  Questions = {"q", "w"}
  Blank = ""
  Matching <- MCMatching
  MaxShown = 1
  NoWorkspace = "none"
  Tabs = {"documents", "ask", "evidence"}
  Documents = {"short", "long"}
  Pages <- MCPages
  Targets <- MCTargets
  NoTarget = NoTarget
  NoCount = NoCount
  NoLayer = NoLayer
  Layers <- MCLayers
  MaxPage = 5
  Space = " "
  MinOverlap = 3
  MinItem = 2
SPECIFICATION AllSpec
CHECK_DEADLOCK FALSE
SYMMETRY WriteSymmetry
INVARIANTS
  ShowsWhatWon
  ReadsItsWrites
  SaidIsShown
  QuestionsArrive
  ViewerShowsEvidence
  QuoteIsMarked
PROPERTIES
  DrawerNeverGoesBack
  EnterAsksWhatWasTyped
