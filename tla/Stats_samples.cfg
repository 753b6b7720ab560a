SPECIFICATION Spec
CONSTANTS
  Tasks = {"Stats", "EMAC"}
  LateTasks = {"EMAC"}
  NoTask = NoTask
  MaxTasks = 2
  W = 3
  ClockFloor = 2
  MaxClock = 6
INVARIANTS
  LoggedDeltasAreTrue
  SlotIsFound
CHECK_DEADLOCK FALSE
