SPECIFICATION Spec
CONSTANTS
  Names = {n1}
  Values = {v1, v2}
  Oversized = {big}
  NoValue = none
  Clients = {c1, c2, c3}
  MaxKills = 1
SYMMETRY ClientSymmetry
INVARIANTS TypeOK PayloadScoped
PROPERTY ImplementsRegister
