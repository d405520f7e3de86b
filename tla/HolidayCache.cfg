SPECIFICATION Spec
CONSTANTS
  Students = {s1}
  Statuses = {"PRESENT", "HOLIDAY"}
  Requests = {r1, r2}
  Processes = {p1}
  Corrections = {c1}
  Windows = {w1}
  Calendar = {TRUE, FALSE}
  MaxTrail = 2
INVARIANTS
  HolidayIsMarked
CHECK_DEADLOCK FALSE
