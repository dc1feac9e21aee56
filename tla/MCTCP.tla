------------------------------- MODULE MCTCP -------------------------------
EXTENDS TCP
=============================================================================
