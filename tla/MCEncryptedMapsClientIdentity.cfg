\* Two users take turns on the page: a violation of CacheBelongsToIdentity.
CONSTANTS
    alice = alice
    bob = bob
    diary = diary
    Principal = {alice, bob}
    User = {alice, bob}
    KeyName = {diary}
    KeyId <- BobsMap
    Rights <- ReadOrManage
    Readers <- ReadOrManage
    Writers <- OnlyManage
    Viewers <- OnlyManage
    Managers <- OnlyManage
    OwnerRights = "ReadWriteManage"
    MapKey = {mk1}
    Task = {t1}
    Method = {"getValue", "setValue"}
    Setup = {FALSE}
    Page = Page
    Garbage = Garbage
    Nothing = Nothing
SPECIFICATION Spec
INVARIANT
    CacheBelongsToIdentity
