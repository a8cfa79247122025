SPECIFICATION Spec
CONSTANTS
  NameSize = 16
  PathSize = 128
  Payloads <- MCPayloads
  Numbers <- MCNumbers
  AllocFails = TRUE
  Lines <- MCLines
  Sends <- MCSends
  Raws <- MCRaws
  Targets <- MCTargets
  Listings <- MCListings
  Queued <- MCQueued
INVARIANTS RoundTrip StaysInBounds ArrivesAsSent LossesAreKnown PrintsResult
