\* The token is replaced and a forced reread fails.
CONSTANTS
    mongo = mongo
    sts = sts
    VaultPaths <- MCVaultPaths
    NogMongoUrl = mongo
    Plain = Plain
    BucketVaults <- MCBucketVaults
    NoKeyVault = NoKeyVault
    Renewable <- MCRenewable
    DurationChoices = {{4}}
    MaxTokens = 1
SPECIFICATION Spec
CHECK_DEADLOCK FALSE
INVARIANT ForcedReadComplete
