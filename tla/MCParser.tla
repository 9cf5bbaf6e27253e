------------------------------ MODULE MCParser -------------------------------
EXTENDS Parser

CONSTANTS x, y
=============================================================================
