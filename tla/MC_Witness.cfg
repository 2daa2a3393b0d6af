CONSTANTS
  w1 = w1
  w2 = w2
  w3 = w3
  Schedule <- MCSchedule
  Mine <- MCMine
  Keyed <- MCKeyed
  RequiredOption = 33
  EnableStale = FALSE
  RecentSlots = 4
  Latencies = {20, 700}
  GenDurations = {100, 3000}
  Starts = {0, 4000}
  NetDelay = 1500
  MaxLate = 2
  MaxBadTx = 1

SPECIFICATION Spec
VIEW View
INVARIANT TypeOK ProducedBlocksValid
PROPERTY ProducesWhenEnabled
