SPECIFICATION PartsSpec
CONSTANTS
  playback = playback
  u1 = u1
  u2 = u2
  d1 = d1
  d2 = d2
  r1 = r1
  r2 = r2
  r3 = r3
  k1 = k1
  k2 = k2
  p1 = p1
  p2 = p2
  NoConn = NoConn
  NoState = NoState
  NoJob = NoJob
  Conns = {s1, s2}
  Fields = {playback, volume}
  MaxRev = 3
  WireCap = 2
  MaxErrors = 1
  MaxRestarts = 1
  VoiceSessions = {v1, v2, v3}
  DeviceVoices = {v1}
  Chatty = {v1}
  MaxVoice = 1
  MaxAudio = 1
  NoVoice = NoVoice
  Transcripts <- TheTranscripts
  LlmReplies <- TheReplies
  None = None
  Users = {u1, u2}
  Devices = {d1, d2}
  Pairings = {r1, r2, r3}
  Passkeys = {k1, k2}
  Procs = {p1, p2, p3}
  Protected = {u2}
  DeviceOwner <- DevicesOfFirst
  PasskeyOwner <- PasskeysOfFirst
  Approver <- ApprovedBefore
  MaxDevices = 3
  Workloads <- TheLoads
INVARIANTS
  ProjectionIsTrue
  VoiceSafe
  AccountSafe
PROPERTIES
  StoreNeverBack
  StoreCatchesUp
  VoiceEnds
  GoneIsFinal
  RequestsFinish
CHECK_DEADLOCK FALSE
