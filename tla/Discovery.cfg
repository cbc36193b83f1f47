SPECIFICATION MCSpec
CONSTANTS
  Contacts = {"a", "b"}
  Clients = {"a1", "a2", "b1"}
  Owner <- OwnerTwo
  Self = "self"
  Nodes = {"h", "p", "q", "g"}
  Features = {"av", "x"}
  AV = {"av"}
  Means <- Meaning
  Replies <- Answers
  Bundles = {"q"}
  GoogleExts = {"g"}
  EnoughTrust = 2
  Environments <- TrustSerialsAndCalls
  PipelineSize = 1
  DiscoEnvironments <- RoomsOrClients
INVARIANTS
    DiscoSound
    CapsTracked
PROPERTIES
    SilentAfterDeath
    QuestionsEnd
    TrustIsKept
\* everything has been answered, or a GabbleDisco was disposed of
CHECK_DEADLOCK FALSE
