CONSTANTS
  Worker = {w1, w2}
  N = 2
  Nobody = Nobody
  w1 = w1
  w2 = w2
SPECIFICATION Spec
PROPERTY CompressorsEnd
CHECK_DEADLOCK FALSE
