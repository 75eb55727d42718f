------------------------------ MODULE MCT1Xcv -------------------------------
EXTENDS T1Xcv
MCApdu == {<<1>>}
=============================================================================
