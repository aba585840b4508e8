SPECIFICATION Spec
CONSTANTS
  Tasks = {1, 2, 3}
  TickAt <- Everywhere
INVARIANT RunsInUserMode
