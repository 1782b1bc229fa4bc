SPECIFICATION Spec
CONSTANTS
  FrameSize = 2
  Word = 5
  Threads = {t1, t2, t3}
  Queues = {q1, q2, q3, q4}
  NoQueue = NoQueue
INVARIANTS
  OneFrame
  FrameIsNew
  FrameOnItsWay
PROPERTY InjectEnds
CHECK_DEADLOCK FALSE
