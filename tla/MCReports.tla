----------------------------- MODULE MCReports -----------------------------
\* Model-checking instance of Reports: members are interchangeable.
EXTENDS Reports, TLC

Perms == Permutations(Users) \cup Permutations(Messages)
=============================================================================
