------------------------- MODULE MCCredentialVault -------------------------
EXTENDS CredentialVault
=============================================================================
