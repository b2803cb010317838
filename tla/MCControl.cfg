SPECIFICATION Spec
CONSTANTS
    Runs = {r1} Plans = {} Actions = {b1} MaxStops = 1 MaxExpiries = 1
    Purgers = {w1, w2} Posts = {p1, p2} Comments = {c1} PostOf <- MCPostOf NamesCast = {p2} MaxPurges = 3
    MaxAccidents = 2 NoOne = NoOne
    Films = {f, g} Servers = {s, t} Batches = {d} LastSample = 1 LastClick = 2 LastBooking = 1 MaxMishaps = 1
    Accounts = {a1, a2} Facebook = {a1} Proxies = {x1, x2} Addresses = {y1, y2} Operators = {o1, o2}
    MaxEdits = 4 Unpinned = Unpinned
    Handlers = {h1, h2} MaxRecords = 3 MaxFaults = 1
    Days = 2 ChannelPages = 3 PruneRuns = 2 RestDays = 2 LastDay = 5 MaxHalts = 2
    Passes = 2 SearchLast = 2 SearchPages = 2 EmptyTries = 1 PruneDays = 2 LastDate = 2 MaxMistakes = 2
INVARIANTS
    StopReachesJobs RunAfterStopRuns
    DeletedIsBackedUp CountsFollowRows
    AppointmentKept
    OneAddressEach
    ChannelCovered
    SearchDoneIsWhole
PROPERTIES
    OldWorkStaysStopped ReportNeverOlder DeadUntilCookie RecrawlKeeps
SYMMETRY Alike
CHECK_DEADLOCK FALSE
