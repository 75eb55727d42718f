----------------------------- MODULE MCT1Reader -----------------------------
EXTENDS T1Reader
MCApdu == {<<1>>, <<1, 2, 3>>}
=============================================================================
