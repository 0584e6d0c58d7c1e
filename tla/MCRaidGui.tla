------------------------------ MODULE MCRaidGui ------------------------------
EXTENDS RaidGui

MCDisks == 0 .. NumDisks
MCArguments == {-1, 3, 4}
=============================================================================
