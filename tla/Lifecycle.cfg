SPECIFICATION FairSpec
CONSTANTS
  c1 = c1  c2 = c2  p1 = p1  p2 = p2
  Client <- Clients
  Pid <- Pids
  Commands <- CommandLines
INVARIANTS TypeOK ListensUnlessInterrupted
PROPERTIES PortFreed QueueServed InterruptedLoopEnds
