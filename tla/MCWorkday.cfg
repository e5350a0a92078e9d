SPECIFICATION Spec
CONSTANTS
  Texts = {"cross", "glad", "flat"}
  Mood <- MCMood
  Intent <- MCIntent
  PulseWindow = 2
  BaselineWindow = 4
  Objects <- MCObjects
  Waits <- MCWaits
  Work = {"a", "b", "c"}
  Hosts = {"h1", "h2"}
  Records = {"t", "d", "c", "k", "m"}
  RecordType <- MCRecordType
  Contact <- MCContact
  Places <- MCPlaces
  NoteRoom = 3
  LastNotes = 2
  Nobody = Nobody
  Scenes <- MCScenes
  Instances = {i1, i2}
  Asks <- MCAsks
  Troubles <- MCTroubles
  Receives = 2
  Digests = {d1, d2}
  Sweeps = {s1, s2}
  Owners = {o1, o2}
  Syncs = {y1}
  Links = {l1, l2}
  People = {u1}
  Payments = {e1}
  Tries = 2
  Plans <- MCPlans
INVARIANTS
  SilenceShows RepliesKept RepliesOnce RepliesGoHome RepliesResolved ViewsFresh
  WrittenOnce SubmissionsSettle NoEcho DeletedStaysDeleted OneLinkIsFree
PROPERTIES BadNewsNeverHelps LoadingEnds
CHECK_DEADLOCK FALSE
