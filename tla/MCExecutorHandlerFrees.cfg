SPECIFICATION Spec
CONSTANTS
  Capacity = 3
  MaxTasks = 2
  NoTask = NoTask
INVARIANT
  HandlerNeverFrees
