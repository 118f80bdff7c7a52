------------------------- MODULE MCRenoEquilibrium -------------------------
(* Constants of RenoEquilibrium for TLC.                                   *)
EXTENDS RenoEquilibrium

\* Every kind of line, for the passing run.
MCAllLineKinds == {"sample", "float_cwnd", "comma", "bad_time", "blank",
                   "malformed"}
\* A trace whose cwnd column is written as floats on some lines.
MCFloatCwndKinds == {"sample", "float_cwnd"}
\* A trace written comma-separated on some lines.
MCCommaKinds == {"sample", "comma", "blank"}
=============================================================================
