SPECIFICATION ServicesSpec
CONSTANTS
  Parts = {"ceremonies", "visits", "yandex", "personal", "icons", "admin", "pump", "relay", "releases", "imports", "manifest", "entities", "pages", "voice", "samples"}
  p1 = p1
  p2 = p2
  c1 = c1
  c2 = c2
  l1 = l1
  l2 = l2
  f1 = f1
  h1 = h1
  h2 = h2
  sensor = sensor
  light = light
  d1 = d1
  d2 = d2
  s1 = s1
  s2 = s2
  e1 = e1
  e2 = e2
  home = home
  long = long
  vendor = vendor
  Challenges = {c1, c2}
  Authenticators = {a1, a2}
  BrowserSessions = {s1, s2}
  BrowserProcs = {p1, p2}
  Members = {a1}
  ChallengeLife = 1
  IdleLife = 3
  AbsoluteLife = 4
  Recent = 1
  MaxClock = 4
  MaxCount = 1
  MaxProofs = 1
  Unset = Unset
  Homes = {h1, h2}
  OAuthStates = {o1, o2}
  LinkProcs = {p1, p2}
  Rooms = {1}
  MaxSensors = 2
  NoLink = NoLink
  Favourites = {f1}
  Plays = {h1, h2}
  Clients = {c1, c2}
  Browsers = {c2}
  SyncProcs = {p1, p2}
  Batches <- TheBatches
  MaxFavourites = 1
  MaxPlays = 1
  Skew = 1
  Retention = 1
  SweepInterval = 2
  MaxNow = 2
  MaxSyncs = 1
  Sweeper = Sweeper
  NoRecord = NoRecord
  Stations = {s1, s2}
  Sources = {a}
  Links = {l}
  Uploads = {m}
  MaxJobs = 2
  MaxUploads = 1
  MaxImports = 1
  Nil = Nil
  AdminProcs = {p1, p2}
  AdminSessions = {s1, s2}
  AdminNames = {root}
  SessionTtl = 1
  LockoutAfter = 2
  LockWindow = 2
  AuditRetention = 0
  MaxAdminNow = 1
  Nobody = Nobody
  Upstreams <- TheUpstreams
  BlockUnit = 1
  TakeLimit = 2
  RelayUrls <- TheUrls
  Listeners = {l1, l2}
  RelayStations = {s1, s2}
  Titles = {t1, t2}
  Subscribers = {c1}
  MaxConnections = 1
  MaxSubscribers = 1
  MaxRedirects = 1
  MaxTitles = 1
  ChangeCap = 1
  StaleAfter = 1
  MaxRelayClock = 2
  NoTitle = NoTitle
  CatIds = {1, 2, 3, 4}
  CatNames = {"a", "b"}
  CatReleases <- TheReleases
  CatAnswers <- TheAnswers
  Activators = {x1, x2}
  Bootstraps = {b1}
  Importers = {i1}
  CatPageSize = 2
  MaxCatPages = 2
  FillPage = 2
  MaxFills = 1
  MaxProbes = 1
  NoRow = NoRow
  Entries = {light, sensor}
  Payloads = {plain, detailed}
  NoEntry = NoEntry
  MaxRev = 4
  Absent = Absent
  Null = Null
  Namespaced <- Ids
  Overlong <- TooLong
  Intents <- TheIntents
  Issuance <- TheIssuances
  PageSize = 2
  MaxOffset = 2
  MaxRetries = 1
  MaxEffects = 3
  Attempts = {l1, l2}
  NoAttempt = NoAttempt
  MaxSamples = 3
  FrameSize = 2
  MaxChunk = 2
  Entities <- TheEntities
  Observations <- TheObservations
  Generations = {c1, c2}
  MaxEntityNow = 1
  NoReading = NoReading
  Lexicon <- TheLexicon
  PrefilterFactor = 1
  PrefilterFloor = 2
  Unknown = Unknown
INVARIANTS
  ServicesTypeOK
  BrowserSafe
  LinkSafe
  
  IconsSafe
  AdminSafe
  RelaySafe
  CatalogSafe
  LiveRowsMatch
  EntitySafe
  
  
  PanelSafe
PROPERTIES
  BrowserSteps
  
  IconSteps
  ShownStays
  LastFrameIsLast
CHECK_DEADLOCK FALSE
