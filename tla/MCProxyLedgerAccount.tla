------------------------- MODULE MCProxyLedgerAccount -------------------------
(* A small instance of ProxyLedgerAccount.                                   *)
EXTENDS ProxyLedgerAccount

CONSTANTS r1, r2, k1, k2

MCKeyOf == [r \in {r1, r2} |-> IF r = r1 THEN k1 ELSE k2]
===============================================================================
