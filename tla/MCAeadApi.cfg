SPECIFICATION Spec
CONSTANTS
  BlockLen = 4
  TagLen = 2
  SizeSpace = 16
  Lengths <- MCLengths
  AdLengths <- MCAdLengths
  Rooms <- MCRooms
INVARIANTS
  WritesStayInRoom
  NothingReleased
  TagCoversRecord
PROPERTY OpensWhatWasSealed
\* No call follows the last one.
CHECK_DEADLOCK FALSE
