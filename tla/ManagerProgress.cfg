\* Each part of the manager page on a small instance of its own.
SPECIFICATION Spec
CONSTANTS
  f1 = f1  d1 = d1  z1 = z1  s1 = s1  s2 = s2
  Ranges = {"a", "b"}
  Defaults = "a"
  Pages <- ScanPages
  MaxScans = 3
  NoPage = NoPage
  Files = {f1}
  Folders = {d1}
  Zips = {z1}
  Stores = {s1, s2}
  Free <- FreeOf
  Size <- SizeOf
  MB = 2
  GB = 4
  MaxParts = 2
  Customs = {1}
  MaxBatches = 2
  MaxGestures = 4
  Slots = {1, 2}
  None = None
  Locations = {"smb", "cloud", "root"}
  Hosts = {"h"}
  HostOf <- ShareOfH
  Endpoints = {"cloud"}
  Cloud = "cloud"
  Root = "root"
  FoldersOf <- CloudFolders
  Top = "top"
  MaxAttempts = 0
  MaxVisits = 2
  MaxSessions = 2
  Nowhere = Nowhere
  NoLink = NoLink
  Unknown = Unknown
  Pinnable = {"p"}
  Accounts = {"h"}
  Remotes = {"r"}
  Mountables = {"m"}
  Handlers = {"t1", "t2"}
  MaxClicks = 2
  Unread = Unread
CHECK_DEADLOCK FALSE
INVARIANTS
  NothingSkipped
  OneQueuedPart
  ShownIsPlace
  ListsFollow
PROPERTIES
  ScanEnds
  ListConverges
  LoadingEnds
  MountsConverge
