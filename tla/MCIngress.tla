------------------------------ MODULE MCIngress ------------------------------
\* Three requests with one key, the third with other files, and one without.
EXTENDS Ingress

CONSTANTS r1, r2, r3, r4, k1, fileA, fileB

Key == [r \in Requests |-> IF r = r4 THEN NoKey ELSE k1]
Files == [r \in Requests |-> IF r = r3 THEN fileB ELSE fileA]
=============================================================================
