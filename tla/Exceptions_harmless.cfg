SPECIFICATION Spec
CONSTANTS
  Tasks = {1, 2, 3}
  TickAt <- Harmless
INVARIANTS TypeOK RunsInUserMode FindsOwnRegisters ContextsInPlace
