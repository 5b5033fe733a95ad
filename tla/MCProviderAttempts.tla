-------------------------- MODULE MCProviderAttempts --------------------------
EXTENDS ProviderAttempts
CONSTANTS v1, v2
MCContents == {v1, v2}
MCLongValues == {v2}
=============================================================================
