CONSTANTS
  Cancellers = {c1, c2, c3}
  Tasks = {t1, t2}
  Fulfiller = f
SPECIFICATION FairSpec
INVARIANTS NoPanic CancelNotForgotten CancelledMeansAborted OneAborter
PROPERTIES CancelTakesEffect ImplementsCancelOnce
CHECK_DEADLOCK FALSE
