--------------------------- MODULE MCRegisterLayout ---------------------------
EXTENDS RegisterLayout
=============================================================================
