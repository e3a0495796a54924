\* Progress through a sequence of two steps in spite of a failure.  No symmetry:
\* it is not sound for liveness.
SPECIFICATION FairSpec
CONSTANTS
    l1 = l1
    None = None
    Campaigns = {c1}
    Leads = {l1}
    Positions = {1, 2}
    EmailPositions = {1}
    Reachable <- AllReachable
    InitialSteps = {1, 2}
    Instances = {i1, i2}
    MaxAttempts = 2
    BatchSize = 1
    Faults = {"crash", "db", "ambiguous", "slow"}
    MaxFaults = 1
    Requests = {q1}
    Ops = {"enroll", "start", "pause"}
    MaxStarts = 1
PROPERTIES
    NoRunStuck
    QueueDrains
