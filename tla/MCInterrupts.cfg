CONSTANT
  Programs <- MCPrograms
SPECIFICATION Spec
INVARIANTS NobodySpins InServiceIsRunning DoubleFaultsAreReal
PROPERTIES TicksKeepComing KeysAreRead ProgramsReachTheirEnd
CHECK_DEADLOCK FALSE
