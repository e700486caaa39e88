\* The fact writer: two owners, two entities, at most two calls, one rule
\* action and two flaws of the transport.  The change folder: three writes,
\* two failures.  The other services' bounds are in the module.
SPECIFICATION Spec
CONSTANTS
  Owners = {"adapter", "classifier"}
  Entities = {"run", "loop"}
  Facts = {"pending", "author", "reading"}
  Group <- WriterGroup
  RuleFacts = {"pending"}
  ReplaceTries = 2
  TransportTries = 2
  MaxAsks = 2
  MaxRules = 1
  MaxFlaws = 2
  Deltas <- DeltaNames
  MaxWrites = 3
  MaxFails = 2
  Deliveries = {"d1"}
  Launches = {"l1"}
  EventDeliver = 3
  MaxWakes = 3
  MaxMishaps = 2
  IssueRuns = {1, 2}
  Skew = 1
  MaxComments = 2
  MaxTime = 2
  MaxDeliver = 2
  MaxOutages = 1
  Requests = {"q1", "q2"}
  NoteBudget = 1
  NoteDeliver = 2
  MaxBlips = 1
  Packs = {"spawn", "review"}
  MaxBoots = 2
  CacheHomes = {"h1", "h2"}
  MaxBoxes = 3
  MaxProvisions = 2
  MaxProofs = 1
  MaxMeasures = 1
  MaxFaults = 2
  Repos = {"p1", "p2"}
  Runs = {1, 2}
  RepoOf <- RunRepo
  Laws = {"l1", "l2"}
  Declares <- LawDeclares
  Gate <- LawGate
  HandleTries = 2
  MaxPushes = 1
  MaxUpsets = 2
  Budgets = {{}, {0}, {4}, {9}}
  MaxSections = 2
  MaxItems = 2
CHECK_DEADLOCK FALSE
INVARIANTS
  TypeOK
  OneWakePerAdmission
  AdmittedIsServed
  CursorPassesAnswered
  ThreadIsTold
  ServesWhatItLoaded
  VerdictIsTheCommands
  NothingAccumulates
  TheFileIsTheLaw
  PassedMeansGated
  GreenIsTested
  RoundTrip
  FolderIsTheChange
  FrozenAsAuthored
PROPERTIES
  ImplementsGroupStore
