\* Only the images: both are stored, then read, then changed.
CONSTANTS
  s1 = s1
  one = one
  two = two
  small = small
  full = full
  Null = Null
  Structs = {s1}
  Kinds = {}
  Inputs <- InputsOfKinds
  Names <- MCNames
  Stored <- MCStored
  Texts = {one, two}
  Paths = {small, full}
  Habits = {}
  MaxValues = 1
  MaxRows = 8
  MaxContacts = 2
  MaxCalls = 5
SPECIFICATION Spec
CHECK_DEADLOCK FALSE
INVARIANT ImagesStored
