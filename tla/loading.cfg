SPECIFICATION Spec
CONSTANTS
  d1 = d1  d2 = d2  d3 = d3  r1 = r1  r2 = r2  u3 = u3  v = v
  a = a  b = b
  Null = Null
  Session = {s1, s2}
  Text = {d1, d2, d3, r1, r2, u3, v}
  Name = {a, b}
  Default <- Defaults
  Database <- Databases
  Settable <- Sensible
INVARIANTS
  TypeOK
  RoomForEntries
  LoadedWhole
