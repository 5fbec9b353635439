-------------------------------- MODULE MCBoard --------------------------------
EXTENDS Board
===============================================================================
