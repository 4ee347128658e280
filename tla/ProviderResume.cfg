SPECIFICATION Spec
CONSTANTS
  Operators = {o1, o2}
  Workers = {w1}
  Incidents = {i1, i2, i3}
  NoIncident = NoIncident
  MaxNotes = 4
SYMMETRY SameOperators
PROPERTIES ResumedByItsIncident
