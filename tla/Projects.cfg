SPECIFICATION Spec
CONSTANTS
  URLs = {"web", "api", "elsewhere"}
  Loopback = {"web", "api"}
  Https = {"api"}
  Host <- Hosts
  Dirs <- Tree
  NoDir = NoDir
  Repos <- Worktrees
  Homes <- Configured
  Configs <- Contents
  Flagged <- FlagSets
  Given <- Wanted
  Branches = {"4"}
  Requests <- Paths
  Ports = 2
  Id <- Hash
  Tag <- Digits
  Repository <- Origin
INVARIANTS
  TypeOK
  WorktreeIdentity
  NamesTell
  CookiesWarned
  RoutesAsDeclared
