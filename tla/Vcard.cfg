\* Files of up to two cards, lines of at most eight characters.
CONSTANTS
  Contacts <- MCContacts
  Foreign <- MCForeign
  Junk <- MCJunk
  Limit = 8
  LineSize = 11
  MaxSize = 150
  FirstNameFirst = FALSE
  DefaultLanguage = "english"
  MaxCards = 2
SPECIFICATION Spec
CHECK_DEADLOCK FALSE
INVARIANTS ExportedIsRead CountIsDelivered
