----------------------------- MODULE MCDOMManager -----------------------------
(* Instances of DOMManager small enough for TLC.                            *)
EXTENDS DOMManager

CONSTANTS c1, c2

=============================================================================
