------------------------------ MODULE RaidShell ------------------------------
(***************************************************************************)
(* What the window of RAID-GUI.py meets of raid_sim: whether the program   *)
(* takes a command, which disks its `status' would call ALIVE, and whether *)
(* some process still holds the pipes it was started with, as every disk   *)
(* does.  Raid implements it; RaidGui drives it.                           *)
(***************************************************************************)
CONSTANT ShellDisks

VARIABLES
  run,    \* "prompt", "access" while an rb or wb is under way, "exit", "ended"
  alive,  \* disks kill(pid, 0) finds, as long as commands are taken
  held    \* the shell or one of its disks runs

shellVars == <<run, alive, held>>

(* kill <d>.                                                               *)
KillDisk(d) == run = "prompt" /\ alive' = alive \ {d} /\ UNCHANGED <<run, held>>

(* rb or wb of a block of the array.                                       *)
StartAccess == run = "prompt" /\ run' = "access" /\ UNCHANGED <<alive, held>>

(* An access meets a dead disk: restart_disk.                              *)
RestartDisk(d) == run = "access" /\ alive' = alive \cup {d} /\ UNCHANGED <<run, held>>

FinishAccess == run = "access" /\ run' = "prompt" /\ UNCHANGED <<alive, held>>

(* exit, or the end of the input.                                          *)
StartExit == run = "prompt" /\ run' = "exit" /\ alive' = {} /\ UNCHANGED held

(* The shell is gone; its disks may still be there for a while.            *)
End(from) == run \in from /\ run' = "ended" /\ alive' = {} /\ held' \in BOOLEAN

ExitReturns == End({"exit"})
GiveUp      == End({"access"})
SigTerm     == End({"prompt", "access", "exit"})

DisksStop == run = "ended" /\ held /\ held' = FALSE /\ UNCHANGED <<run, alive>>

ShellInit == run = "prompt" /\ alive = ShellDisks /\ held = TRUE

ShellNext ==
  \/ \E d \in ShellDisks : KillDisk(d) \/ RestartDisk(d)
  \/ StartAccess \/ FinishAccess \/ StartExit
  \/ ExitReturns \/ GiveUp \/ SigTerm \/ DisksStop

ShellSpec == ShellInit /\ [][ShellNext]_shellVars
=============================================================================
