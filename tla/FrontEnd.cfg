\* Each part of the front end on a small instance of its own.
SPECIFICATION Spec
CONSTANTS
  Names = {"a", "b", "c"}
  Dirs = {"c"}
  Order <- RowOrder
  Filters <- TwoFilters
  Listings = {{"a"}, {"b", "c"}, {"a", "b", "c"}}
  Operations = {{}, {"read", "list", "stat"}, {"read", "list", "stat", "copy", "rename", "delete", "write", "mkdir"}}
  Devices = {"h"}
  Saved = {"h"}
  Mapped = {"h"}
  MaxInputs = 3
  Nothing = Nothing
  Directories = {"a1", "a2"}
  LocationOf <- OneLocation
  FileNames = {"m", "n"}
  First <- FirstFiles
  Uploads = {"u1"}
  UploadBatches <- OneBatch
  MaxActs = 3
  NoFile = NoFile
  LocalRoots = {"r1", "r2"}
  FolderNames = {"/", "/a", "/new"}
  TopDir = "/"
  NewDir = "/new"
  MaxPresses = 4
  Blank = Blank
  Shares = {"smb"}
  Roots = {"local"}
  Paths = {"/", "/sub"}
  RootPath = "/"
  Calls = {1, 2}
  MaxOpened = 3
  MaxUses = 3
  Absent = Absent
  ScanRanges = {"a", "b"}
  Permitted = "a"
  PagesOf <- RangePages
  Scans = {1, 2}
  MaxPushes = 5
  Void = Void
CHECK_DEADLOCK FALSE
INVARIANTS
  SelectionShown
  NothingLost
  ActsWhereAsked
  SavedAsShown
  NothingLeft
  RemovedClosesAll
  ManagedWhereShown
  NextContinues
PROPERTIES
  SheetOwnsKeyboard
