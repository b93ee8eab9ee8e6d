------------------------------ MODULE MCFraming ------------------------------
EXTENDS Framing
MCFrames == {<<2, 2, 1, 3>>, <<5, 1, 6>>}
MCNoise == {1, 7}
=============================================================================
