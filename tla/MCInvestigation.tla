-------------------------- MODULE MCInvestigation --------------------------
\* One trace or one call, with the two automatic retries of the code; two calls where
\* their claims compete for the capacity of the project.
EXTENDS Investigation
=============================================================================
