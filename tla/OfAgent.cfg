SPECIFICATION Spec
CONSTANTS cnt = 3  Changing = {1}  Xids = {1, 2}  MaxQueue = 2
          Meanwhile = FALSE  UpAtOnce = FALSE
INVARIANTS AnsweredInTurn ViewCurrent
PROPERTIES LinkReported ProbesReturn
CHECK_DEADLOCK FALSE
