\* Two processes change groups, their members and address books.
CONSTANTS
  p1 = p1
  p2 = p2
  None = None
  Procs = {p1, p2}
  Calls = {"insert_contact", "delete_contact", "insert_group", "set_relation", "unset_relation", "delete_group", "delete_group_with_members", "reset_internal", "insert_addressbook", "delete_addressbook", "favorite"}
  MaxContacts = 2
  MaxGroups = 2
  MaxBooks = 1
  MaxVer = 5
  ByBook = FALSE
SPECIFICATION Spec
INVARIANTS DeletedIsGone
PROPERTIES GroupsMatchBooks
SYMMETRY Symmetry
CHECK_DEADLOCK FALSE
