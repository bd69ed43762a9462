------------------------ MODULE MCConnectionManager ------------------------
(* Two devices with a passkey each.                                        *)
EXTENDS ConnectionManager

CONSTANTS A, B, pA, pB, c1, c2

MCPasskeyOf == [d \in {A, B} |-> IF d = A THEN pA ELSE pB]
MCCalls == {c1, c2}
MCOneCall == {c1}
MCConnect == {"connect"}
MCAnyPassed == {NoPasskey, pA, pB}
MCOnlyA == {A}
=============================================================================
