SPECIFICATION ToolSpec
CHECK_DEADLOCK FALSE
CONSTANTS
  Shell = {s1}
  Tool = {"sqlc", "oapi"}
  Sqlc = "sqlc"
  Oapi = "oapi"
  Version = {1}
  MaxEdits = 1
  MaxFaults = 0
  Absent = Absent
  Clashing = Clashing
INVARIANT LeftoverFails
