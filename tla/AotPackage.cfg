SPECIFICATION Spec
CHECK_DEADLOCK FALSE
SYMMETRY Exchange
CONSTANTS
  w1 = w1  w2 = w2  w3 = w3  r1 = r1  p1 = p1  p2 = p2
  a = a  b = b  c = c  alien = alien  square = square  tall = tall
  Writers = {w1, w2, w3}
  Readers = {r1}
  Loops = {a, b, c}
  Imports = {alien}
  Host = "here"
  MaxCalls = 2
  MaxFaults = 1
  Torn = Torn
  Absent = Absent
  NoDirectory = NoDirectory
  Process <- MCProcess
  Argument <- MCArgument
  Shape <- MCShape
  Target <- MCTarget
INVARIANTS
  CalledForItsShape
  PublishedIsConsistent
  PublishedStays
  TemporariesRemoved
