SPECIFICATION Spec
SYMMETRY ValueSymmetry
CONSTRAINT StaysCalm
CHECK_DEADLOCK FALSE
CONSTANTS
  A = {a1, a2}
  B = {b1, b2}
  Calls = {a1, a2}
  Amounts = {1, 2}
  Limits = {2}
  Unlimited = unlimited
  Months = 2
  Keys = {"k1"}
  Converters = {v1}
  MaxProspects = 2
  Events = {a1, a2}
  Copies = {b1, b2}
  Contents = {c1, c2}
  None = none
  Deals = {d1}
  Positions = {1, 2}
  Rpcs = {a1, a2}
  MaxPipelines = 2
  LeadStatuses = {s1, s2}
  MaxReads = 3
  MaxNotes = 2
  Tables <- CsvTables
  Required = {1}
  RowLimit = 2
  Agents = {a1, a2}
  NoAgent = none
  Places = {b1, b2}
  MaxCities = 2
  Writers = {a1, a2}
  Deletions = {b1, b2}
  Externals = {e1}
  Own = own
  MaxContacts = 2
  MaxThreads = 2
  MaxMessages = 2
  Campaigns = {k1}
  NoCampaign = none
  People = {a1, a2}
  Slots = {b1, b2}
  MaxPosition = 2
  MaxSteps = 2
  Batch = 1
  Take = 1
INVARIANTS
  RowsArePaid
  QuietSyncMirrors
  BoardAgrees
  LeadAgrees
  ExportComesBack
  
  EmptyThreadsGo
  CampaignPageHonest
PROPERTIES
  NeverOvershoots
