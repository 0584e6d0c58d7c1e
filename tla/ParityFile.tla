------------------------------ MODULE ParityFile ------------------------------
(***************************************************************************)
(* parity.c of src/Assignment/A1, with which compute_parity and            *)
(* restore_block treat the first num_blocks lines of a file as blocks.  A  *)
(* line is the set of its one bits; Bit has those of its first block_size  *)
(* bytes.  What the loops print is left out.                               *)
(***************************************************************************)
EXTENDS Parity, Sequences

Rows(num_blocks) == 0 .. num_blocks - 1

(* get_data fails on a file that is too short; a row is cut at block_size, *)
(* and padded with bytes of zero.                                          *)
DataRead(num_blocks, lines) == num_blocks =< Len(lines)
GetData(num_blocks, lines)  == [i \in Rows(num_blocks) |-> lines[i + 1] \cap Bit]

ComputeParityBlock(num_blocks, data) == XorOver(Rows(num_blocks), data)

DeleteDataBlock(block_num, data) == [data EXCEPT ![block_num] = Zero]

(* The parity block first, then every row but the lost one.                *)
ReconstructBlock(lost_block, num_blocks, data, parity_block) ==
  [data EXCEPT ![lost_block] = Xor(parity_block, XorOver(Rows(num_blocks) \ {lost_block}, data))]

(* main of restore_block.c: the array it has at the end.                   *)
RestoreBlock(num_blocks, lines, lost_block) ==
  LET data   == GetData(num_blocks, lines)
      parity == ComputeParityBlock(num_blocks, data)
  IN ReconstructBlock(lost_block, num_blocks, DeleteDataBlock(lost_block, data), parity)
=============================================================================
