\* Two devices or two rooms, with their builder; level 0 is asked for and refused.
CONSTANTS
  Uuids = {"", "u1"}
  Links = {2}
  Objects = {o1, o2}
  Cells = {c1, c2, c3, c4}
  Levels = {0, 1, 2}
  NewClasses <- MCNewClasses
  None = None
SPECIFICATION Spec
CONSTRAINT OneOfTheTwo
SYMMETRY Symmetry
INVARIANTS
  TypeOK
  JsonReadsBack
  ReadStaysAsRead
  MapReadsBack
PROPERTY
  ChangesStayPrivate
