\* Renewal, reread, token replacement and shutdown, for a Vault that returns
\* leases of any duration, short renewals included, and for one that returns
\* only leases of 45 minutes or more.
CONSTANTS
    mongo = mongo
    sts = sts
    VaultPaths <- MCVaultPaths
    NogMongoUrl = mongo
    Plain = Plain
    BucketVaults <- MCBucketVaults
    NoKeyVault = NoKeyVault
    Renewable <- MCRenewable
    DurationChoices = {{1, 2, 3, 4}, {3, 4}}
    MaxTokens = 2
SPECIFICATION Spec
\* After shutdown revoked every lease and they expired, nothing is left to do.
CHECK_DEADLOCK FALSE
INVARIANT ViewConsistent FrozenCredentialsMatch
PROPERTY NoRefreshAfterRevoke DueLeaseRefreshedWithLongLeases
