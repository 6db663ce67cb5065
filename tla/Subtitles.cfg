\* Times around the carries into seconds, minutes and hours, halves that are
\* rounded up and down.
CONSTANTS
  Times = {0, 5, 15, 9994, 9995, 9996, 599995, 599996, 35999994, 35999995, 36000005}
  MaxSegments = 3
SPECIFICATION Spec
INVARIANTS TimesKept CuesInOrder
CHECK_DEADLOCK FALSE
