\* The bookkeeping after a delivery fails.
SPECIFICATION Spec
CONSTANTS
    l1 = l1
    None = None
    Campaigns = {c1}
    Leads = {l1}
    Positions = {1, 2}
    EmailPositions = {1}
    Reachable <- AllReachable
    InitialSteps = {1, 2}
    Instances = {i1, i2}
    MaxAttempts = 2
    BatchSize = 2
    Faults = {"db"}
    MaxFaults = 1
    Requests = {q1}
    Ops = {"enroll", "start"}
    MaxStarts = 1
SYMMETRY Symmetry
INVARIANTS
    NoRetryAfterDelivery
