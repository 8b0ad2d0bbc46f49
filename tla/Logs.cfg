\* Two entries, two contacts, times 1 to 3 with a window of 1.
CONSTANTS
  Null = Null
  Entries <- MCEntries
  Writings <- MCWritings
  Leftovers <- MCLeftovers
  Subscribers <- MCSubscribers
  Window = 1
  MaxLogs = 2
  MaxContacts = 2
SPECIFICATION Spec
INVARIANTS TypeOK CallsAccounted KnownCallerShown
PROPERTY MissedCallAnnounced
