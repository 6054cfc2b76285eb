SPECIFICATION Spec
CONSTANTS
  c1 = c1
  c2 = c2
  Clients <- TwoClients
  Subjects = {"draft", "final"}
  Users = {"anna"}
  Blank = "blank"
  None = "none"
  Serial = TRUE
  MaxRows = 2
  MaxVersion = 2
PROPERTY ImplementsLinkedStore
CHECK_DEADLOCK FALSE
