SPECIFICATION RecordsSpec
CONSTANTS
  u1 = u1
  u2 = u2
  a1 = a1
  s1 = s1
  s2 = s2
  m1 = m1
  m2 = m2
  m3 = m3
  Users = {u1, u2}
  Scenes = {s1, s2}
  Characters = {a1}
  Chats = {c1}
  Requests = {r1, r2}
  Initials = {m1, m2, m3}
  SceneOf <- MCSceneOf
  Scenarios <- MCScenarios
  k1 = k1
  k2 = k2
  k3 = k3
  k4 = k4
  Uploads = {k1, k2, k3}
  Seeded = {k4}
  PublicKeys <- MCPublic
  Sessions = {"import", "other"}
  SessionOf <- MCSessionOf
  MaxFetches = 2
  MaxHits = 1
  Situations <- MCSituations
  None = None
  Unborn = Unborn
  Gone = Gone
  Card = Card
  Book = Book
  Fallback = Fallback
  Length <- MCLength
  MaxContext = 3
  MaxItems = 3
  MaxRows = 3
SYMMETRY Alike
CHECK_DEADLOCK FALSE
INVARIANTS RecordsTypeOK NothingDangles GreetingRight UploadsLeaveBoth RowDescribesObject SeedingAddsUp PreviewIsKept ImportIsAccounted ListingsAnswer ErrorsKeepMeaning
PROPERTIES InitialsBreakInRace RightsHold AtomicWrites
