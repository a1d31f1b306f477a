---------------------------- MODULE MCVaultSync ----------------------------
EXTENDS VaultSync, TLC
=============================================================================
