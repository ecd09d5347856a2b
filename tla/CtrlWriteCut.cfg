SPECIFICATION Spec
CONSTANTS
  Writers = {w1, w2}
  Size = 2
  Room = 3
PROPERTIES SuccessIsSent
