------------------------------ MODULE VaultMC ------------------------------
(* The config of a replication daemon: the MongoDB URL is a `vault:` URL   *)
(* of a renewable database secret, and of three buckets two share one AWS  *)
(* STS path (one lease with two targets) and one has no keyVault.  Leases  *)
(* whose lease id contains `/sts/` are marked non-renewable by _readVault. *)
EXTENDS Vault, TLC

CONSTANTS mongo, sts

MCVaultPaths == {mongo, sts}
MCRenewable == {mongo}
MCBucketVaults == <<sts, NoKeyVault, sts>>

=============================================================================
