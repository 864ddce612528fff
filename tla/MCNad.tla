-------------------------------- MODULE MCNad --------------------------------
EXTENDS Nad
=============================================================================
