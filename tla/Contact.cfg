\* One program, two structs, a few calls.
CONSTANTS
  s1 = s1
  s2 = s2
  one = one
  two = two
  small = small
  full = full
  Null = Null
  Structs = {s1, s2}
  Kinds = {"number", "email", "web"}
  Inputs <- InputsOfKinds
  Names <- MCNames
  Stored <- MCStored
  Texts = {one, two}
  Paths = {small}
  Habits = {}
  MaxValues = 4
  MaxRows = 8
  MaxContacts = 2
  MaxCalls = 5
SPECIFICATION Spec
SYMMETRY StructSymmetry
CHECK_DEADLOCK FALSE
INVARIANTS TypeOK OwnedOnce WrittenIsStored DefaultIsOwn DefaultChosen DisplayShown
