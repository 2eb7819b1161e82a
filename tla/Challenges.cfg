SPECIFICATION ChallengeSpec
CONSTANTS
  u1 = u1
  u2 = u2
  c1 = c1
  c2 = c2
  NoOne = NoOne
  Persons = {u1, u2}
  Creds = {c1, c2}
  Workloads <- Loads
INVARIANTS PasskeysHold CaptchaHolds
PROPERTIES DeletedKeyStaysOut
CHECK_DEADLOCK FALSE
