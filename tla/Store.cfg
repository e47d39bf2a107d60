\* Two processes, a key with two bodies and requests without a key; processes die at any
\* step, also in the middle of a line, and the snapshot may be erased.
CONSTANTS
  p1 = p1  p2 = p2  k1 = k1  k2 = k2  b1 = b1  b2 = b2
  Callers = {p1, p2}
  Keys = {k1}
  Unkeyed = Unkeyed
  Bodies = {b1, b2}
  Nothing = Nothing
  Faults = {"crash", "tear", "erase"}
  MaxEvents = 2
SPECIFICATION FairSpec
INVARIANTS SnapshotNeverAhead
PROPERTIES LockIsReleased ImplementsEventLog
