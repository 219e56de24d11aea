--------------------------- MODULE MCExactRefresh ---------------------------
\* Claims of two identities of one tenant.
EXTENDS ExactRefresh
=============================================================================
