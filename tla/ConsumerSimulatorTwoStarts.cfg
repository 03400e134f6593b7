SPECIFICATION SimulatorSpec
CONSTANTS
  Starters = {s1, s2}
  Stoppers = {}
  ConsumerCounts = {1}
  Workers = {w1, w2, w3}
  MaxReceived = 2
INVARIANT OneSimulationActive
