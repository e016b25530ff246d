--------------------------- MODULE MCHsmEnclave ---------------------------
(* Two overlapping calls, two share names, two secrets.                    *)
EXTENDS HsmEnclave
CONSTANTS e1, e2, i1, i2, d1, k1, k2

MCEnclaveCall == {e1, e2}
MCShareId == {i1, i2}
MCData == {d1}
MCSecret == {k1, k2}
=============================================================================
