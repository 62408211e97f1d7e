SPECIFICATION ClientSpec
CONSTANTS
  h1 = h1  h2 = h2  h3 = h3
  d1 = d1  d2 = d2
  Handles = {h1, h2, h3}
  Descs = {d1, d2}
  NoDesc = NoDesc
  Wire = Wire
  Classes = {"base_fd", "base_socket"}
  NoHandle = NoHandle
  OwnData = "own"
  AttachedData = "attached"
  NoData = "none"
  ThreadsFail = TRUE
INVARIANTS UsableIsOpen NothingLeft SentNotShut DataLiveAsClients GivenIsThere
PROPERTIES ImplementsSharedResource ConnectionEnds
CHECK_DEADLOCK FALSE
