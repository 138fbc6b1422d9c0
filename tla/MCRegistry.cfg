SPECIFICATION FairSpec
CONSTANTS
  Letters = {"d", "2", "a", ".", "*"}
  Manager = manager
  Main = main
  None = None
  Handlers = {h1}
  VMs <- SomeVMs
  Namespaces <- MCNamespaces
INVARIANTS
  TypeOK
  NamespacesApart
PROPERTIES
  ShutdownEnds
  HandlersEnd
CHECK_DEADLOCK FALSE
