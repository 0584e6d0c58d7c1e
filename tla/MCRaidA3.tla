------------------------------ MODULE MCRaidA3 ------------------------------
(* The earlier simulator and the parity of a file, for model checking.     *)
EXTENDS RaidA3, ParityFile

(* Lines with a byte within block_size and one behind it.                  *)
Line == SUBSET (Bit \cup {"behind"})

(* restore_block gives the lost block back, for up to three short lines.   *)
ASSUME RestoreBlockChecked ==
  \A num \in 0 .. 3 : \A lines \in [1 .. 3 -> Line], lost \in Rows(num) :
    DataRead(num, lines) /\ RestoreBlock(num, lines, lost) = GetData(num, lines)
=============================================================================
