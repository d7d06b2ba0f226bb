SPECIFICATION Spec
CONSTANTS
  Folder = "Folder"
  Type = "Type"
  Object = {"a", "b"}
  NoNode = "-"
  Parent = {"Folder", "a", "-"}
  Link <- Links
  Description <- Descriptions
  MaxReferences = 1
  MaxCps = 1
  MaxAskew = 2
INVARIANTS
  ReferencesMutual
  
PROPERTIES
  SubtreesDeleted
