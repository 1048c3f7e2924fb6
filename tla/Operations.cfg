SPECIFICATION MCSpec
SYMMETRY Symmetry
CONSTANTS
  x1 = x1
  x2 = x2
  y1 = y1
  y2 = y2
  t3 = t3
  t4 = t4
  j1 = j1
  j2 = j2
  h1 = h1
  h2 = h2
  a1 = a1
  a2 = a2
  c3 = c3
  own = own
  g1 = g1
  g2 = g2
  u1 = u1
  p1 = p1
  p2 = p2
  b1 = b1
  None = None
  Targets = {x1, x2, t3, t4}
  Jobs = {j1, j2}
  JobOf <- MCJobOf
  AddressOf <- MCAddressOf
  Devices = {t4}
  Slots = 2
  Addresses = {a1, a2}
  MaxMoves = 1
  Ops = {x1, x2}
  Own = own
  Extra = {g1, g2}
  Files = {x1, x2}
  MaxSwaps = 2
  Most = 3
  Limit = 3
  Connections = {x1, x2, c3}
  PublicKeys = {x1, x2}
  HostOf <- MCHostOf
  MaxCrashes = 1
  Chunks = 2
  Names = {x1, x2}
  FrontRequests = {x1, x2}
  Users = {u1}
  Passwords = {p1, p2}
  RequestSlots = 2
  CacheSize = 1
  Servers = {y1, y2}
  ConsoleHosts = {x1, x2}
  MaxFlight = 2
  MaxEpochs = 2
  MaxJobs = 1
  MaxEvents = 1
  Hosts = {h1, h2}
  Agents = {h2}
  Units = {1, 2}
  MaxUnread = 1
  BookIds = {b1}
  Choices = {x1, x2}
  MaxAsks = 3
  PageHosts = {x1, x2, h1}
  Consoles = {x1, x2}
  Images = {x1, x2}
  DaySlots = 4
  WeekDays = 2
  MonthDays = 3
  Months = 2
  MaxDays = 13
  CronSteps = {1, 2, 3}
  Last = 9
  MaxLate = 1
  Threads = {x1, x2}
  MaxOpens = 3
  MaxEdits <- MCMaxEdits
  MaxFaults <- MCMaxFaults
  MaxChanges <- MCMaxChanges
  MaxSaves <- MCMaxSaves
INVARIANTS TypesHold ChangesAreSafe CancelledInTime AccountsHold PatchesHold FrontEndHolds RecordsHold BackupsHold BooksHold ViewsHold AlgorithmsAgree HandlersExact
PROPERTIES EngineHolds TransfersHold ConsoleHolds
CHECK_DEADLOCK FALSE
