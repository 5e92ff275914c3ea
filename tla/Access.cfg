\* Two OAuth requests at once while keys come and go, under each configuration that starts;
\* without OAuth the instance ends with its clock.
CONSTANTS
  Keys = {k1, k2}
  Requests = {r1, r2}
  CacheTTL = 3
  RefreshCooldown = 2
  FetchTimeout = 1
  MaxTime = 4
  NULL = NULL
  main = main
  monitor = monitor
  session = session
  cc = cc
  grok = grok
  ada = ada
  web = web
  cli = cli
  Secrets = {main, monitor, session}
  Minted = {main, monitor, session}
  Slugs = {cc, grok}
  Subjects = {ada}
  Clients = {web, cli}
  Scopes = {"bus"}
  Bad = Bad
  Jwts <- MCJwts
  Configs <- MCConfigs
SPECIFICATION AccessSpec
SYMMETRY Interchangeable
INVARIANTS NoPileUp CacheInv OneBinding AdmittedInForce
PROPERTIES FetchesApart ServedRecently RefusalsExplained ClassesApart
CHECK_DEADLOCK FALSE
