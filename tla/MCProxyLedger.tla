---------------------------- MODULE MCProxyLedger ----------------------------
(* Three calls, two of which carry the same key.                            *)
EXTENDS ProxyLedger

CONSTANTS r1, r2, r3, k1, k2

MCKeyOf == [r \in {r1, r2, r3} |-> IF r = r3 THEN k2 ELSE k1]
=============================================================================
