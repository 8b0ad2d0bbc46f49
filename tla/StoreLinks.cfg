\* Two processes link, unlink and delete contacts and mark favorites.
CONSTANTS
  p1 = p1
  p2 = p2
  None = None
  Procs = {p1, p2}
  Calls = {"insert_contact", "link", "unlink", "delete_contact", "delete_person", "favorite", "insert_addressbook", "delete_addressbook"}
  MaxContacts = 3
  MaxGroups = 0
  MaxBooks = 1
  MaxVer = 5
  ByBook = FALSE
SPECIFICATION Spec
INVARIANTS TypeOK PrimaryExists FavoritesExist
SYMMETRY Symmetry
CHECK_DEADLOCK FALSE
