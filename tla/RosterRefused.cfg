SPECIFICATION Spec
CONSTANTS
    Contacts = {"a", "b"}
    Groups = {"g"}
    Names = {"n"}
    NoName = "noname"
    AliasOf <- Aliases
    Environments <- OnlyRefusing
INVARIANT
    BelievedItemsExist
CHECK_DEADLOCK FALSE
