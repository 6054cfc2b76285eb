SPECIFICATION Spec
CONSTANTS
  c1 = c1
  c2 = c2
  Clients <- TwoClients
  Subjects = {"draft", "final"}
  Users = {"anna"}
  Blank = "blank"
  None = "none"
  Serial = FALSE
  MaxRows = 1
  MaxVersion = 2
PROPERTY ReplacesExpectedVersion
CHECK_DEADLOCK FALSE
