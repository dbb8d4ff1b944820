---------------------------- MODULE MCThreadMgr ----------------------------
(* ThreadMgr with two callers that have identities of their own; one of them also *)
(* tries the refused identity 0.                                                  *)
EXTENDS ThreadMgr
CONSTANTS c1, c2
OwnIdentities == [c \in Caller |-> IF c = c1 THEN {1, 2} ELSE {0, 3}]
=============================================================================
