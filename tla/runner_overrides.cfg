SPECIFICATION MCSpec
CONSTANTS
  Parts = {"regression"}
  test = test
  env = env
  driver = driver
  board = board
  t1 = t1
  Components <- MCComponents
  Root = test
  Kids <- MCKids
  InPlace = {board}
  Fallible = {board, driver, env}
  Tasks = {t1}
  Watcher = w
  MaxRaises = 3
  Guards <- MCGuards
  Descs = {"stimulus", "drain"}
  Desc <- MCDesc
  Clients <- MCClients
  N = 2
  Kinds = {"unconnected", "not_found"}
  Registrations <- AllSorts
  MaxTasks = 2
INVARIANTS
  OverridesAreOwn
CHECK_DEADLOCK FALSE
