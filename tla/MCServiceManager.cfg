SPECIFICATION ServicesSpec
CONSTANTS
  node_runtime = node_runtime
  node_start = node_start
  mesh_sync = mesh_sync
  Service <- MCService
  Deps <- MCDeps
  Order <- MCOrder
  Synchronous = {node_runtime, mesh_sync}
  Switches = {node_start, mesh_sync}
  MaxRetries = 2
  MaxFailures = 4
  MaxManual = 2
CHECK_DEADLOCK FALSE
INVARIANTS ServicesTypeOK Supervised
PROPERTIES RevivedOnlyByRace RootsRecover
