\* Two users around two maps of one of them, with keys whose order can matter.
CONSTANTS
    alice = alice
    bob = bob
    diary = diary
    ledger = ledger
    mk1 = mk1
    mk2 = mk2
    Principal = {alice, bob}
    KeyName = {diary, ledger}
    KeyId <- TwoMaps
    Rights <- AllRights
    Readers <- can_read
    Writers <- can_write
    Viewers <- can_get_user_rights
    Managers <- can_set_user_rights
    OwnerRights <- owner_rights
    MapKey = {mk1, mk2}
    Value = {v1}
    PrincipalBefore <- AliceFirst
    BlobBefore <- AsListed
    EmptyBlob = ""
SPECIFICATION Spec
CONSTRAINT Bounded
INVARIANTS
    TypeOK
    IndexMatchesValues
    SameAnswers
PROPERTY ImplementsRust
