\* A manager names the owner: the documented list is not the one kept.
CONSTANTS
    alice = alice
    bob = bob
    carol = carol
    diary = diary
    Principal = {alice, bob, carol}
    KeyName = {diary}
    KeyId <- OneKey
    Rights <- AllRights
    Readers <- can_read
    Writers <- can_write
    Viewers <- can_get_user_rights
    Managers <- can_set_user_rights
    OwnerRights <- owner_rights
SPECIFICATION Spec
INVARIANT ListExcludesOwner
