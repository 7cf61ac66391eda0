--------------------------- MODULE MCInjectedProbe ---------------------------
EXTENDS InjectedProbe
=============================================================================
