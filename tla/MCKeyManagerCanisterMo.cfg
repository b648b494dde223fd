\* Two concurrent calls and their messages to self, of a key's owner and another.
CONSTANTS
    alice = alice
    bob = bob
    Principal = {alice, bob}
    KeyName <- OneName
    KeyId <- AlicesKey
    Rights <- can_read
    Readers <- can_read
    Writers <- can_write
    Viewers <- can_get_user_rights
    Managers <- can_set_user_rights
    OwnerRights <- owner_rights
    PrincipalBytes <- ShortPrincipals
    Slot = {1, 2}
    Separator = {"key_manager_app", "renamed"}
    InstallName = {"key_1", "mistyped"}
    VetKdName = {"key_1"}
    Asked <- AlicesKey
SPECIFICATION Spec
PROPERTY ImplementsRust
