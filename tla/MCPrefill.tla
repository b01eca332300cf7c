------------------------------ MODULE MCPrefill ------------------------------
(* Two fields and three institutes or contracts: one that sets both, one    *)
(* that sets another pair, one that sets only one of the two - a contract   *)
(* always sets both, so the last is an institute only.                      *)
EXTENDS Prefill

CONSTANTS f1, f2, s1, s2, s3, v0, v1, v2

MCDefault ==
    [s \in {s1, s2, s3} |-> [f \in {f1, f2} |->
        IF s = s1 THEN v1
        ELSE IF s = s2 THEN (IF f = f1 THEN v2 ELSE v0)
        ELSE (IF f = f1 THEN v2 ELSE None)]]
MCOriginal == [f \in {f1, f2} |-> v0]
=============================================================================
