SPECIFICATION MCSpec
CONSTANTS
  Fallbacks = 2
    Limited = FALSE
    CachedAlias = "me"
    NoAlias = NoAlias
    Contacts = {bob}
    Self = self
    NoVCard = NoVCard
    EditLists <- AppendsAndAliases
    VCardEnvironments <- EditsAndCache
    Names = {"NICKNAME", "FN", "PHOTO"}
    Values = {"a", "b"}
    MaxNodes = 2
    MaxList = 2
INVARIANTS
    ShutdownSafe
    ConnectedMeansReady
    LoginSound
    AuthenticationAttended
    VCardsSound
PROPERTIES
    NoComeback
    AttemptsEnd
    EveryoneAnswered
CHECK_DEADLOCK FALSE
