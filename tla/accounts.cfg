SPECIFICATION Spec
SYMMETRY ValueSymmetry
CHECK_DEADLOCK FALSE
CONSTANTS
  A = {a1, a2}
  B = {b1, b2}
  Requests = {a1, a2}
  MaxSessions = 2
  MaxResets = 1
  Cap = 1
  Logins = {a1, a2}
  Ips = {b1, b2}
  Processes = {p1}
  AccountLimit = 2
  ComboLimit = 1
  MaxSwitches = 1
  Registrations = {a1, a2}
  Invites = {b1, b2}
  Emails = {c1, c2}
  Documents = {d1, d2}
  Slugs = {e1, e2}
  Anyone = anyone
  MaxLogins = 2
  MaxExpiries = 3
  MaxLosses = 1
  Tabs = {a1, a2}
  Posts = {a1, a2}
  NoTab = notab
  Links = {l1}
  NoLink = nolink
  Clients = {a1, a2}
  Instances = {p1}
  LimitMax = 2
  MapSize = 2
  LastWindow = 3
  Callers = {a1, a2}
  Start = start
  Nobody = nobody
  MaxTokens = 3
  MaxKills = 1
  Plans = {b1, b2}
  Handlers = {a1, a2}
  MaxEvents = 3
  MaxCheckouts = 2
  NoPlan = noplan
  Tenants = {platform, t1, a1, a2}
  Platform = platform
  Unset = unset
INVARIANTS
  ResetOnce
  AttemptsAreBounded
  InviteMakesOne
  OneSignupPerIdentity
  LoginSticks
  FormsAreHonest
  LimitHolds
  NeverReplays
  EntitlementProven
  InheritanceAgrees
