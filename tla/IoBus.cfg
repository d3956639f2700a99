SPECIFICATION LiveSpec
CONSTANTS
  httpd = httpd
  loop = loop
  input = input
  None = none
  Tasks = {httpd, loop, input}
  Pins = {p0, p7}
  Inputs = {p7}
  Ops <- AllOps
INVARIANTS
  LastCallWins
  PortFollowsShadow
  StrobeIntact
  NibblesPaired
PROPERTY CallEnds
