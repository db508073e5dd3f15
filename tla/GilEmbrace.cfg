SPECIFICATION Spec
CONSTANTS
  Thread = {t1, t2}
  Background = bg
  Nobody = nobody
  MaxWork <- MCMaxWork
CHECK_DEADLOCK FALSE
PROPERTY CallsReturn
