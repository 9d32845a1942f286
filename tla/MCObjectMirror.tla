--------------------------- MODULE MCObjectMirror ---------------------------
EXTENDS ObjectMirror

CONSTANTS k1, k2, k3

MCKey == {k1, k2, k3}
=============================================================================
