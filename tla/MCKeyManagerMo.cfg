\* Three users around two keys: arrays of two keys, of two users, and a manager.
CONSTANTS
    alice = alice
    bob = bob
    carol = carol
    diary = diary
    ledger = ledger
    Principal <- ThreeUsers
    KeyName = {diary, ledger}
    KeyId <- TwoKeys
    Rights <- ReadOrManage
    Readers <- ReadOrManage
    Writers <- can_get_user_rights
    Viewers <- can_get_user_rights
    Managers <- can_set_user_rights
    OwnerRights <- owner_rights
SPECIFICATION Spec
CONSTRAINT FewShares
INVARIANTS
    TypeOK
    NoDuplicates
    SameAnswers
PROPERTY ImplementsRust
