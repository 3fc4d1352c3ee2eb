SPECIFICATION Spec
CONSTANTS cnt = 3  Changing = {1}  Xids = {1, 2}  MaxQueue = 1
          Meanwhile = TRUE  UpAtOnce = TRUE
INVARIANTS ViewCurrent
CHECK_DEADLOCK FALSE
