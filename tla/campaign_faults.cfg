\* Two schedulers and one lead under every kind of failure, while the campaign is
\* edited, paused, deleted, answered and opted out of.
SPECIFICATION Spec
CHECK_DEADLOCK FALSE
CONSTANTS
    l1 = l1
    None = None
    Campaigns = {c1}
    Leads = {l1}
    Positions = {1, 2}
    EmailPositions = {1}
    Reachable <- SecondUnreachable
    InitialSteps = {1}
    Instances = {i1, i2}
    MaxAttempts = 1
    BatchSize = 1
    Faults = {"crash", "db", "ambiguous", "slow"}
    MaxFaults = 1
    Requests = {q1}
    Ops = {"enroll", "start", "pause", "stop", "retry", "addStep", "removeStep", "remove", "reply", "optOut"}
    MaxStarts = 1
SYMMETRY Symmetry
INVARIANTS
    DuplicatesAreBounded
PROPERTIES
    ReplyWins
