\* Two calls at a time; the owner of the map and another user take turns on the page.
CONSTANTS
    alice = alice
    bob = bob
    diary = diary
    Principal = {alice, bob}
    User = {alice, bob}
    KeyName = {diary}
    KeyId <- BobsMap
    Rights <- OnlyManage
    Readers <- OnlyManage
    Writers <- OnlyManage
    Viewers <- OnlyManage
    Managers <- OnlyManage
    OwnerRights = "ReadWriteManage"
    MapKey = {mk1}
    Task = {t1, t2}
    Method = {"getValue"}
    Setup = {FALSE, TRUE}
    Page = Page
    Garbage = Garbage
    Nothing = Nothing
SPECIFICATION Spec
INVARIANTS
    TypeOK
    ShowsOnlyToReaders
    DatabasesBelongToIdentity
PROPERTY CallsSettle
