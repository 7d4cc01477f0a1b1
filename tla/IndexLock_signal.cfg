SPECIFICATION FairSpec
CONSTANTS
  main = main
  http = http
  auto = auto
  watch = watch
  server = server
  NoThread = NoThread
  RpcThreads = {main, http}
  AutoThreads = {auto}
  WatcherThreads = {watch}
  Procs = {server}
  ProcOf <- OneProcess
  Global = {main}
  MaxSignals = 2
PROPERTIES ComesToRest
CHECK_DEADLOCK FALSE
