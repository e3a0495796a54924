\* A reply comes in while the campaign is being started.
SPECIFICATION Spec
CONSTANTS
    l1 = l1
    None = None
    Campaigns = {c1}
    Leads = {l1}
    Positions = {1, 2}
    EmailPositions = {1}
    Reachable <- AllReachable
    InitialSteps = {1, 2}
    Instances = {i1, i2}
    MaxAttempts = 2
    BatchSize = 2
    Faults = {}
    MaxFaults = 0
    Requests = {q1, q2}
    Ops = {"enroll", "start", "reply"}
    MaxStarts = 1
SYMMETRY Symmetry
PROPERTIES
    ReplyIsFinal
