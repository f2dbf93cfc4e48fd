SPECIFICATION FairSpec
CONSTANTS
  URLs = {"web", "api", "apiTLS"}
  Loopback = {"web", "api", "apiTLS"}
  Https = {"apiTLS"}
  Requests <- Documented
  Port = 8443
  Configs <- Found
  Paths = 2
  MaxRedirects = 5
PROPERTIES
  DeclaredChecksDecide
