SPECIFICATION Spec
CONSTANTS
  reference = reference
  main = main
  app = app
  pool = pool
  helper = helper
  libAlloc = libAlloc
  libLocal = libLocal
  plugAlloc = plugAlloc
  Function <- Functions
  From <- FromOf
  To <- ToOf
  LoadedAt <- LoadedAtOf
  Exported = {libAlloc}
  ReferencePoint = reference
  Lists <- ListsOf
  CMA_MAX_N = 4
  Main = main
  Plugin = {plugAlloc}
  Instrumented = {pool, libAlloc, libLocal, plugAlloc}
  Sites <- SitesOf
  MaxDepth = 6
INVARIANTS TypeOK HookedOnce FilterExact
CHECK_DEADLOCK FALSE
