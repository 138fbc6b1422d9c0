SPECIFICATION FairSpec
CONSTANTS
  Letters = {"d", "2", "a", ".", "*"}
  Manager = manager
  Main = main
  None = None
  Handlers = {h1}
  VMs <- OneVM
  Namespaces <- OneNamespace
PROPERTY ExpiredDestroyed
CHECK_DEADLOCK FALSE
