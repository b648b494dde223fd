\* Three users around two keys of the same name and different owners.
CONSTANTS
    alice = alice
    bob = bob
    carol = carol
    diary = diary
    Principal = {alice, bob, carol}
    KeyName = {diary}
    KeyId <- TwoOwnersKeys
    Rights <- ReadOrManage
    Readers <- ReadOrManage
    Writers <- can_get_user_rights
    Viewers <- can_get_user_rights
    Managers <- can_set_user_rights
    OwnerRights <- owner_rights
SPECIFICATION Spec
CONSTRAINT FewShares
INVARIANTS
    TypeOK
    IndexesAgree
    ListingsAgree
PROPERTIES
    FirstShareIsOwners
    AccessComesFromAManager
    ImplementsKeySharing
