SPECIFICATION FairSpec
CONSTANTS
  URLs = {"web", "api", "apiTLS"}
  Loopback = {"web", "api", "apiTLS"}
  Https = {"apiTLS"}
  Requests <- Asked
  Port = 8443
  Configs <- Found
  Paths = 2
  MaxRedirects = 5
INVARIANTS
  TypeOK
  StaysHome
  FatalIsFinal
PROPERTIES
  GateOpensHealthy
  PrivateListener
  Terminates
