SPECIFICATION Spec
CONSTANTS
  Services = {"jobs", "ai", "dialer", "inbox", "research", "imports"}
  Callers = {n1, n2}
  MaxIntents = 3
  MaxEnsures = 2
  MaxAttempts = 2
  MaxLosses = 1
  Turns = {n1, n2}
  Procs = {k1, k2}
  m1 = m1
  m2 = m2
  Preference <- Pref
  Threshold = 1
  Limit = 2
  Rounds = 2
  MaxTurns = 2
  MaxCools = 1
  MaxCrashes = 1
  Legs = {n1, n2}
  Runners = {k1, k2}
  MaxDeaths = 1
  MaxMail = 2
  Cadences = {k1, k2}
  Runs = {n1, n2}
  ReadLimit = 1
  MaxRuns = 2
  MaxMoves = 2
  MaxFaults = 1
  Requests = {n1, n2}
  Slots = {k1, k2}
  Found = {n1, n2}
  Queries = 3
  PassesPerSlice = 2
  MaxTries = 2
  MaxStarts = 2
  MaxPauses = 1
  MaxTroubles = 1
  RowCount = 2
  ChunkSize = 1
  Hands = {k1, k2}
  MaxMishaps = 1
SYMMETRY Alike
VIEW Alone
INVARIANTS
  TypeOK IntentsRun CapHolds NothingStaysHeld DialledOnce CompletedWasAnswered EndedIsLogged
  CursorCovers AppliedOnce   OnePerRow SettledIsWhole
 
CHECK_DEADLOCK FALSE
