\* A campaign is resumed while one of its steps is being sent.
SPECIFICATION Spec
CONSTANTS
    l1 = l1
    None = None
    Campaigns = {c1}
    Leads = {l1}
    Positions = {1, 2}
    EmailPositions = {1}
    Reachable <- AllReachable
    InitialSteps = {1, 2}
    Instances = {i1, i2}
    MaxAttempts = 2
    BatchSize = 2
    Faults = {}
    MaxFaults = 0
    Requests = {q1}
    Ops = {"enroll", "start", "pause"}
    MaxStarts = 2
SYMMETRY Symmetry
INVARIANTS
    ExclusiveWork
