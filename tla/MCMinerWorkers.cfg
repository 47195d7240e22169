SPECIFICATION Spec
CONSTANTS
  c1 = c1
  g1 = g1
  Cpu = {c1}
  Gpu = {g1}
  InferGpu = {g1}
  Sessions <- MCSessions
  Eras = {"legacy", "old", "pom", "task"}
  QueueCap = 1
  PollEvery = 2
  GraceBatches = 3
  MaxExt = 1
  MaxFaults = 1
INVARIANT WorkersObey
INVARIANT PauseDrains
PROPERTY ShutdownEnds
CHECK_DEADLOCK FALSE
