SPECIFICATION Spec
CONSTANTS
  ByteBits = 1
  NumGPRegs = 4
  NumRegs = 4
  PageSize = 4
  NumPhysPages = 2
  RegionSize = 8
  Region = 8
  Memory <- MCMemory
  Starts <- MCStarts
  LeadIns <- MCLeadIns
  Instructions <- MCInstructions
INVARIANTS
    Lockstep
    ArithmeticExact
    TracesRight
PROPERTIES
    TrapsRestartable
    WritesTracked
CHECK_DEADLOCK FALSE
