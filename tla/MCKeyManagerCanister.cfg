\* Two concurrent calls, two key ids whose bytes run together.
CONSTANTS
    alice = alice
    bob = bob
    Principal = {alice, bob}
    KeyName <- ThreeNames
    KeyId <- TwoKeys
    Rights <- can_read
    Readers <- can_read
    Writers <- can_write
    Viewers <- can_get_user_rights
    Managers <- can_set_user_rights
    OwnerRights <- owner_rights
    PrincipalBytes <- ShortPrincipals
    Slot = {1, 2}
    Separator = {"key_manager_app", "renamed"}
    InstallName = {"key_1", "mistyped"}
    VetKdName = {"key_1"}
    Asked <- TwoKeysAndALong
SPECIFICATION Spec
INVARIANTS
    TypeOK
    AnswersFitRights
    ServesInstalledKey
    DeliveredKeysFit
PROPERTY CallsAnswered
