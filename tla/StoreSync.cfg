\* A program keeps a copy of the contacts and groups up to date.
CONSTANTS
  p1 = p1
  p2 = p2
  None = None
  Procs = {p1, p2}
  Calls = {"insert_contact", "update_contact", "delete_contact", "delete_person", "insert_group", "update_group", "delete_group", "set_relation", "sync"}
  MaxContacts = 2
  MaxGroups = 1
  MaxBooks = 0
  MaxVer = 5
  ByBook = FALSE
SPECIFICATION Spec
INVARIANTS ContactsSynced GroupsSynced
SYMMETRY Symmetry
CHECK_DEADLOCK FALSE
