SPECIFICATION FairSimulatorSpec
CONSTANTS
  Starters = {s1}
  Stoppers = {t1}
  ConsumerCounts = {1, 2}
  Workers = {w1, w2, w3, w4}
  MaxReceived = 2
INVARIANTS
  SimulatorTypeOK
  OneSimulationActive
  CountersConsistent
  StoppedMeansQuiet
PROPERTY CallsReturn
