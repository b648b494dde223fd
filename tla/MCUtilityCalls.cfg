\* Sizes keep the order they have in the code: header < nonce.
CONSTANTS
    HeaderSize = 1
    NonceSize = 2
    TagSize = 2
    Vetkey = {"v1", "v2"}
    Author = "v1"
    Plaintext <- Plaintexts
    DomainSep = {"x", "y"}
    AssociatedData <- Associated
    Nonce <- Nonces
    NonceByte <- NonceBytes
    SubgroupOrder = 32749
    SubgroupBits = 15
    ScalarBytes = 2
    WindowWidth = {1, 2, 3, 4, 5, 6, 7}
    TableScalar <- Scalars
    ExtraPoint = {0, 1, 3}
    Order = 7
    Byte <- Octal
    G1Bytes = 1
    G2Bytes = 2
    SecretKeyBytes = 2
    MinSeedBytes = 1
    MainnetKey <- SmallMainnetKey
    PocketIcKey <- SmallPocketIcKey
    Mainnet <- SmallMainnet
    PocketIc <- SmallPocketIc
    RandomScalar <- SmallRandomScalar
    SecretBytes <- SecretStrings
    SeedBytes = 1
    IbeHeader <- SmallIbeHeader
    HashToG1 <- SmallHashToG1
    HashToScalar <- SmallHashToScalar
    Hkdf <- SmallHkdf
    Shake256 <- SmallShake
    XorByte <- SmallXor
    TransportKey = {1, 4}
    PublicKey = {0, 3}
    Input <- Inputs
    Seed <- Seeds
    KeyNameSize = 1
    KeyOwner <- KeyOwners
    VetkeyName <- VetkeyNames
    ShortString <- ShortStrings
SPECIFICATION Spec
INVARIANTS
    MessagesOpenAsSealed
    TableMultiplies
    OnlyTheVetKey
    OnlyEncryptionsDecrypt
    VetKeyArrives
    SignaturesVerify
    OutputsVerify
