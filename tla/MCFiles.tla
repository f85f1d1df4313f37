------------------------------- MODULE MCFiles -------------------------------
EXTENDS Files
===============================================================================
