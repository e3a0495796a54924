\* Two schedulers, two leads, no failures, one request at a time, and a campaign
\* that is started once and given its second step at any time.
SPECIFICATION MessagesSpec
CONSTANTS
    l1 = l1
    None = None
    Campaigns = {c1}
    Leads = {l1, l2}
    Positions = {1, 2}
    EmailPositions = {1}
    Reachable <- SecondUnreachable
    InitialSteps = {1}
    Instances = {i1, i2}
    MaxAttempts = 2
    BatchSize = 2
    Faults = {}
    MaxFaults = 0
    Requests = {q1}
    Ops = {"enroll", "start", "pause", "stop", "retry", "addStep"}
    MaxStarts = 1
    Threads = {i1, i2}
    Mailed = {}
    Nowhere = nowhere
    MaxStored = 2
    MaxLoads = 2
    PageSize = 1
    MaxPosts = 3
    MaxTickets = 3
    Taps = {tap1}
    Companies = {i1, i2}
    NoCompany = nowhere
    MaxCopies = 2
SYMMETRY Symmetry
INVARIANTS
    NoDoubleSend
    ExclusiveWork
    ActiveHasWork
    AttemptBudget
    CountedWork
    DraftStaysPut
    ThreadInOrder
    LeadsOnce
PROPERTIES
    KeepsPromise
