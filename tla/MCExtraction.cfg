\* The worker of MCExtraction ends when the queue is empty or it is killed.
SPECIFICATION Spec
CONSTANTS
  pst = pst
  ost = ost
  msg = msg
  msgs = msgs
  folder = folder
  Units <- AllUnits
  Shape <- ShapeOf
  Items <- Held
  ToolSets <- AnyTools
  BatchSize = 2
  Faults = {"open", "walk", "remove", "kill"}
INVARIANTS NothingInBetween DoneIsWhole ReadIsDeleted
PROPERTIES OnlyFailuresStay
CHECK_DEADLOCK FALSE
