SPECIFICATION Spec
CONSTANTS
  Object = {"Men1", "AAA"}
  Var = {"x"}
  Length <- Lengths
  Root = ""
  NoName = "-"
  MaxNode = 4
  MaxServers = 2
  MaxConnects = 1
  MaxWanted = 2
  MaxSubs = 2
INVARIANTS
  NamesAgree
  ChangesNamed
CHECK_DEADLOCK FALSE
