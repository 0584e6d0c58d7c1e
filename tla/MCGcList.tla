------------------------------- MODULE MCGcList -------------------------------
EXTENDS GcList

MCNodes == 1 .. 3
=============================================================================
