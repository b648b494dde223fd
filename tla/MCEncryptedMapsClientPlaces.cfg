\* Two maps of the same name and different owners, two keys in each, one call at a time.
CONSTANTS
    alice = alice
    bob = bob
    diary = diary
    Principal = {alice, bob}
    User = {alice}
    KeyName = {diary}
    KeyId <- SameName
    Rights <- ReadOrManage
    Readers <- ReadOrManage
    Writers <- OnlyManage
    Viewers <- OnlyManage
    Managers <- OnlyManage
    OwnerRights = "ReadWriteManage"
    MapKey = {mk1, mk2}
    Task = {t1}
    Method <- AllMethods
    Setup = {FALSE}
    Page = Page
    Garbage = Garbage
    Nothing = Nothing
SPECIFICATION Spec
SYMMETRY KeysAlike
CONSTRAINT TwoValues
INVARIANTS
    ShowsTextOfItsPlace
    ReturnsWhatHappened
