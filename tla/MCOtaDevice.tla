----------------------------- MODULE MCOtaDevice -----------------------------
EXTENDS OtaInvariants
=============================================================================
