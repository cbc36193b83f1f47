SPECIFICATION FairSpec
CONSTANTS
    Contacts = {"a", "b"}
    Groups = {"g"}
    Names = {"n"}
    NoName = "noname"
    AliasOf <- Aliases
    Environments <- All
INVARIANTS
    EditsTracked
    RosterAgrees
PROPERTY
    EveryRequestAnswered
CHECK_DEADLOCK FALSE
