SPECIFICATION Spec
CONSTANTS
  main = main
  t1 = t1
  t2 = t2
  p0 = p0
  p1 = p1
  p2 = p2
  Proc = {p0, p1}
  Boot = p0
  Thread = {main, t1}
  Main = main
  Ops <- BlockingOps
  NoThread = NoThread
  Detached = Detached
  NoProc = NoProc
CHECK_DEADLOCK FALSE
INVARIANT OneProcessorPerStack
