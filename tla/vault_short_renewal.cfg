\* A renewal returns less than 45 minutes (a lease near its max TTL).
CONSTANTS
    mongo = mongo
    sts = sts
    VaultPaths <- MCVaultPaths
    NogMongoUrl = mongo
    Plain = Plain
    BucketVaults <- MCBucketVaults
    NoKeyVault = NoKeyVault
    Renewable <- MCRenewable
    DurationChoices = {{2, 4}}
    MaxTokens = 0
SPECIFICATION Spec
CHECK_DEADLOCK FALSE
PROPERTY DueLeaseRefreshed
