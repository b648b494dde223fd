\* Two users around two maps of one of them; blobs of two bytes.
CONSTANTS
    alice = alice
    bob = bob
    Principal = {alice, bob}
    KeyName <- TheBlobs
    KeyId <- TheMaps
    Rights <- AllRights
    Readers <- can_read
    Writers <- can_write
    Viewers <- can_get_user_rights
    Managers <- can_set_user_rights
    OwnerRights <- owner_rights
    MapKey <- TheKey
    Value = {v1}
    PrincipalBefore <- AliceFirst
    BlobBefore <- TheOrder
    EmptyBlob <- TheEmpty
    BlobSize = 2
    Separator = {separator_1, separator_2}
    InstallName = {"key_1"}
    Asked <- TheAsked
    AskedKey <- TheKeys
SYMMETRY Separators
SPECIFICATION CanisterSpec
CONSTRAINT Bounded
INVARIANTS
    CanisterTypeOK
    OverviewIsComplete
    OverviewShowsLists
    ListedMapsOpen
    LinkedStateInStep
PROPERTIES
    OnlyWritersWrite
    RequestsReachTheirOwn
