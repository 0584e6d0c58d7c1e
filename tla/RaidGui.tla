------------------------------- MODULE RaidGui --------------------------------
(***************************************************************************)
(* RAID-GUI.py: a window that drives raid_sim through two pipes.  The main *)
(* thread runs one callback of the Tk event loop at a time and writes the  *)
(* user's commands; a reader thread takes the shell's lines and hands each *)
(* to the event loop, which the main thread has to be in for that.  Lines  *)
(* that change nothing in the window are left out, and so is text that     *)
(* looks like a [CMD] or [STATUS] line and is parsed as one: in a block    *)
(* that rb prints, or in a line the user types, which the window echoes.   *)
(***************************************************************************)
EXTENDS RaidShell, Integers, Sequences, FiniteSets

CONSTANTS NumDisks,      \* num_data_disks; the parity disk comes after them
          NumStripes,    \* num_stripes: rows of the window
          BlocksPerDisk, \* stripes of the shell's array
          Arguments,     \* block numbers the user may ask for
          InCap, OutCap, \* commands and lines the two pipes hold
          MaxCmds        \* bound: commands sent

ASSUME DisksAssumption == NumDisks \in Nat \ {0} /\ ShellDisks = 0 .. NumDisks
ASSUME StripesAssumption == NumStripes \in Nat /\ BlocksPerDisk \in Nat
ASSUME ArgumentsAssumption == Arguments \subseteq Int
ASSUME CapacityAssumption == InCap \in Nat \ {0} /\ NumDisks < OutCap

ParityIndex == NumDisks
DataCells   == (0 .. NumDisks - 1) \X (0 .. NumStripes - 1)
Labels      == ShellDisks \X (0 .. NumStripes - 1)

VARIABLES
  window,   \* "open"; "closing" from the Exit button to its timer; "gone"
  send,     \* the line the main thread is writing, and what its callback does then
  stdin,    \* commands in the pipe to the shell
  job,      \* the command the shell is at, rb or wb
  stdout,   \* lines in the pipe from the shell
  reader,   \* the reader thread: "running", "failed", "ended"
  chunk,    \* lines it has decoded and not handed over
  events,   \* timer events due, in order: append_output of a line, or destroy
  states,   \* disk_states, the colours of the headers
  lit,      \* current_highlights
  reported, \* history: what the last `status' found
  accessed, \* history: the last block number a [CMD] line named, as a sequence
  cmds      \* commands sent, at most MaxCmds

mainVars  == <<window, send, cmds>>
pipeVars  == <<stdin, stdout>>
lineVars  == <<reader, chunk, events>>
viewVars  == <<states, lit>>
auxVars   == <<job, reported, accessed>>
vars      == <<shellVars, mainVars, pipeVars, lineVars, viewVars, auxVars>>

StateName(d) == IF d \in alive THEN "ALIVE" ELSE "DEAD"
InRange(b)   == 0 =< b /\ b < NumDisks * BlocksPerDisk

-----------------------------------------------------------------------------
(* parse_line_for_visual_updates.                                          *)

(* highlight_logical_block; the labels lit before are cleared.             *)
HighlightAdded(old, b) == old \cup              \* mutant: no clear_highlights
  ({<<b % NumDisks, b \div NumDisks>>, <<ParityIndex, b \div NumDisks>>} \cap Labels)
Highlight(old, b) ==
  {<<b % NumDisks, b \div NumDisks>>, <<ParityIndex, b \div NumDisks>>} \cap Labels

StatesAfter(line, st) ==
  IF line[1] = "status" THEN [st EXCEPT ![line[2]] = line[3]] ELSE st

LitAfter(line, hl) == IF line[1] = "access" THEN Highlight(hl, line[2]) ELSE hl

-----------------------------------------------------------------------------
(* The shell, at its end of the pipes.                                     *)

(* A write to stdout waits for room; once the window is gone it fails, and *)
(* SIGPIPE is ignored.                                                     *)
Room(lines)  == window = "gone" \/ Len(stdout) + Len(lines) =< OutCap
Prints(lines) == Room(lines) /\ stdout' = IF window = "gone" THEN <<>> ELSE stdout \o lines

(* fgets has the next line.                                                *)
Take(kind) == run = "prompt" /\ stdin # <<>> /\ Head(stdin)[1] = kind /\ stdin' = Tail(stdin)

StatusOfData == [i \in 1 .. NumDisks |->      \* mutant: the loop stops before the parity disk
                   <<"status", i - 1, StateName(i - 1)>>]
StatusLines == [i \in 1 .. NumDisks + 1 |-> <<"status", i - 1, StateName(i - 1)>>]

ShellStatus ==
  /\ Take("status")
  /\ Prints(StatusLines)
  /\ reported' = [d \in ShellDisks |-> StateName(d)]
  /\ UNCHANGED <<shellVars, mainVars, lineVars, viewVars, job, accessed>>

ShellKill ==
  /\ Take("kill")
  /\ KillDisk(Head(stdin)[2])
  /\ UNCHANGED <<mainVars, stdout, lineVars, viewVars, auxVars>>

(* Unknown commands, and a wb whose file cannot be read.                   *)
ShellRefuses ==
  /\ Take("other")
  /\ UNCHANGED <<shellVars, mainVars, stdout, lineVars, viewVars, auxVars>>

(* log_cmd names the block before its number is checked; a number with a   *)
(* sign is not one to the window.                                          *)
CmdLine(b) == IF b < 0 THEN <<>> ELSE << <<"access", b>> >>

ShellAccess ==
  \E kind \in {"rb", "wb"} :
    /\ Take(kind)
    /\ LET b == Head(stdin)[2] IN
       /\ Prints(CmdLine(b))
       /\ accessed' = IF b < 0 THEN accessed ELSE <<b>>
       /\ IF InRange(b) THEN StartAccess /\ job' = kind ELSE UNCHANGED <<shellVars, job>>
    /\ UNCHANGED <<mainVars, lineVars, viewVars, reported>>

ShellRestarts ==
  /\ \E d \in ShellDisks \ alive : RestartDisk(d)
  /\ UNCHANGED <<mainVars, pipeVars, lineVars, viewVars, auxVars>>

(* wb has stored its block, rb prints it, or the access failed.  The bytes *)
(* of a block need not be text.                                            *)
ShellDone ==
  /\ FinishAccess
  /\ job' = "none"
  /\ \/ UNCHANGED stdout
     \/ job = "rb" /\ Prints(<< <<"bytes">> >>)
  /\ UNCHANGED <<mainVars, stdin, lineVars, viewVars, reported, accessed>>

ShellGivesUp ==
  /\ GiveUp
  /\ job' = "none"
  /\ UNCHANGED <<mainVars, pipeVars, lineVars, viewVars, reported, accessed>>

(* exit, or end of file: nobody has the window's end of stdin any more.    *)
ShellExit ==
  /\ \/ Take("exit")
     \/ window = "gone" /\ stdin = <<>> /\ UNCHANGED stdin
  /\ StartExit
  /\ UNCHANGED <<mainVars, stdout, lineVars, viewVars, auxVars>>

WaitsOn ==                                      \* mutant: the wait for the disks never ends
  DisksStop /\ UNCHANGED <<mainVars, pipeVars, lineVars, viewVars, auxVars>>
ShellEnds ==
  /\ ExitReturns \/ DisksStop
  /\ UNCHANGED <<mainVars, pipeVars, lineVars, viewVars, auxVars>>

ShellStep ==
  \/ ShellStatus \/ ShellKill \/ ShellRefuses \/ ShellAccess \/ ShellRestarts
  \/ ShellDone \/ ShellGivesUp \/ ShellExit \/ ShellEnds

-----------------------------------------------------------------------------
(* The reader thread.                                                      *)

ReaderAlone == UNCHANGED <<shellVars, mainVars, stdin, viewVars, auxVars>>

ReadAtEnd ==                                    \* mutant: read() of everything up to the end
  /\ reader = "running" /\ chunk = <<>> /\ window # "gone" /\ stdout # <<>> /\ ~held
  /\ stdout' = <<>> /\ chunk' = stdout
  /\ UNCHANGED <<reader, events>>
  /\ ReaderAlone

(* What a read() brings is decoded as a whole; bytes that are not text end *)
(* the thread, with the lines read along with them.                        *)
ReadChunk ==
  /\ reader = "running" /\ chunk = <<>> /\ window # "gone"
  /\ \E k \in 1 .. Len(stdout) :
       /\ stdout' = SubSeq(stdout, k + 1, Len(stdout))
       /\ IF \E i \in 1 .. k : stdout[i][1] = "bytes"
          THEN reader' = "failed" /\ UNCHANGED chunk
          ELSE chunk' = SubSeq(stdout, 1, k) /\ UNCHANGED reader
  /\ UNCHANGED events
  /\ ReaderAlone

PostFront ==                                    \* mutant: the event is put in front
  /\ reader = "running" /\ chunk # <<>> /\ send = <<>>
  /\ events' = <<Head(chunk)>> \o events
  /\ chunk' = Tail(chunk)
  /\ UNCHANGED <<stdout, reader>>
  /\ ReaderAlone

(* root.after(0, append_output, line): the call is carried out by the main *)
(* thread when it is in its event loop, and the reader waits for that.     *)
Post ==
  /\ reader = "running" /\ chunk # <<>> /\ send = <<>>
  /\ events' = Append(events, Head(chunk))
  /\ chunk' = Tail(chunk)
  /\ UNCHANGED <<stdout, reader>>
  /\ ReaderAlone

ReaderEof ==
  /\ reader = "running" /\ chunk = <<>> /\ stdout = <<>> /\ ~held /\ window # "gone"
  /\ reader' = "ended"
  /\ UNCHANGED <<stdout, chunk, events>>
  /\ ReaderAlone

-----------------------------------------------------------------------------
(* The main thread.                                                        *)

InLoop   == window # "gone" /\ send = <<>>
NoReader == ~held          \* nobody has the other end of stdin: EPIPE

(* The Python process ends: its threads, its queue and its pipe ends.      *)
Leave ==
  /\ window' = "gone" /\ send' = <<>>
  /\ stdout' = <<>> /\ chunk' = <<>> /\ events' = <<>> /\ reader' = "ended"

(* on_close after its write: terminate(), then destroy().                  *)
Terminate == Leave /\ IF run = "ended" THEN UNCHANGED shellVars ELSE SigTerm

(* send_text_command up to its write, which raises when nobody can read:   *)
(* then the callback ends there, and on_close alone goes on.               *)
StartSend(cmd, then) ==
  /\ InLoop
  /\ \/ /\ ~NoReader
        /\ send' = << [cmd |-> cmd, then |-> then] >>
        /\ UNCHANGED <<shellVars, window, stdout, lineVars>>
     \/ /\ NoReader /\ then # "destroy"
        /\ UNCHANGED <<shellVars, window, send, stdout, lineVars>>
     \/ /\ NoReader /\ then = "destroy" /\ Terminate
  /\ UNCHANGED <<stdin, viewVars, auxVars>>

Commands == {<<"status">>, <<"other">>, <<"exit">>} \cup {<<"kill", d>> : d \in ShellDisks}
              \cup {<<kind, b>> : kind \in {"rb", "wb"}, b \in Arguments}

(* A button, or the command line of the other mode: the user may change    *)
(* the mode at any time.                                                   *)
Command == \E cmd \in Commands : StartSend(cmd, "return")

ExitButton == StartSend(<<"exit">>, "timer")

CloseWindow == StartSend(<<"exit">>, "destroy")

(* The rest of the callback after its line was written.                    *)
GoesOn(then) ==
  \/ /\ then = "return"
     /\ send' = <<>> /\ UNCHANGED <<shellVars, window, stdout, lineVars>>
  \/ /\ then = "timer"
     /\ window' = "closing" /\ send' = <<>> /\ UNCHANGED <<shellVars, stdout, lineVars>>
  \/ /\ then = "destroy" /\ Terminate

(* write() to the shell: it waits for room in the pipe.                    *)
WriteLine ==
  /\ send # <<>> /\ ~NoReader /\ Len(stdin) < InCap
  /\ stdin' = Append(stdin, send[1].cmd)
  /\ GoesOn(send[1].then)
  /\ UNCHANGED <<cmds, viewVars, auxVars>>

WriteFails ==
  /\ send # <<>> /\ NoReader
  /\ GoesOn(IF send[1].then = "destroy" THEN "destroy" ELSE "return")
  /\ UNCHANGED <<cmds, stdin, viewVars, auxVars>>

TimerDue ==
  /\ window = "closing" /\ <<"destroy">> \notin {events[i] : i \in DOMAIN events}
  /\ events' = Append(events, <<"destroy">>)
  /\ UNCHANGED <<shellVars, mainVars, pipeVars, reader, chunk, viewVars, auxVars>>

HandleEvent ==
  /\ InLoop /\ events # <<>>
  /\ \/ /\ Head(events)[1] = "destroy"
        /\ Leave
        /\ UNCHANGED viewVars
     \/ /\ Head(events)[1] # "destroy"
        /\ events' = Tail(events)
        /\ states' = StatesAfter(Head(events), states)
        /\ lit' = LitAfter(Head(events), lit)
        /\ UNCHANGED <<window, send, stdout, reader, chunk>>
  /\ UNCHANGED <<shellVars, cmds, stdin, auxVars>>

-----------------------------------------------------------------------------
Init ==
  /\ ShellInit
  /\ window = "open" /\ send = <<>> /\ cmds = 0
  /\ stdin = <<>> /\ stdout = <<>> /\ job = "none"
  /\ reader = "running" /\ chunk = <<>> /\ events = <<>>
  /\ states = [d \in ShellDisks |-> "UNKNOWN"] /\ lit = {}
  /\ reported = states /\ accessed = <<>>

Reader == ReadChunk \/ Post \/ ReaderEof
Main   == WriteLine \/ WriteFails \/ HandleEvent

User ==
  \/ cmds < MaxCmds /\ cmds' = cmds + 1 /\ (Command \/ ExitButton)
  \/ CloseWindow /\ UNCHANGED cmds

Next == User \/ ShellStep \/ Reader \/ Main \/ TimerDue

Spec == Init /\ [][Next]_vars

(* The kernel and the interpreter run every thread that can run, and timers *)
(* expire; the user need not do anything.                                   *)
FairSpec == Spec /\ WF_vars(ShellStep) /\ WF_vars(Reader) /\ WF_vars(Main) /\ WF_vars(TimerDue)
-----------------------------------------------------------------------------
(* Lines on their way to the window, the oldest first.                     *)
InFlight == events \o chunk \o stdout

(* Positions of the lines in flight of a kind, and the last of them.       *)
Coming(kind)  == {i \in DOMAIN InFlight : InFlight[i][1] = kind}
LastOf(S)     == CHOOSE i \in S : \A j \in S : j =< i

(* What a header, or the layout, will show once they have arrived.         *)
HeaderToCome(d) ==
  LET S == {i \in Coming("status") : InFlight[i][2] = d}
  IN IF S = {} THEN states[d] ELSE InFlight[LastOf(S)][3]

(* The number draw_layout writes on a label: it counts them, row by row.   *)
NumberOn(d, s) == Cardinality({c \in DataCells : c[2] < s \/ (c[2] = s /\ c[1] < d)})

(* The label that bears number b, and the parity label of its row.         *)
LabelsOf(b) ==
  UNION {{c, <<ParityIndex, c[2]>>} : c \in {e \in DataCells : NumberOn(e[1], e[2]) = b}}

-----------------------------------------------------------------------------
(* The headers lag behind the shell, but only by what is on its way: every *)
(* line of a `status' arrives, the last one wins.  (They keep the answer   *)
(* of the last `status' when a kill or a restore has changed the disk.)    *)
HeadersFollowReports ==
  window # "gone" /\ reader # "failed" =>
    \A d \in ShellDisks : HeaderToCome(d) = reported[d]

(* The labels lit are, once the lines on their way have arrived, the one   *)
(* with the number of the block last named by an rb or wb and the parity   *)
(* of its row, and no other; none for a block the window has no label of.  *)
HighlightFollowsAccess ==
  window # "gone" /\ reader # "failed" /\ accessed # <<>> /\ Coming("access") = {} =>
    lit = LabelsOf(accessed[1])

(* All three wait: the main thread for room in stdin, the shell for room   *)
(* in stdout, and the reader, unless it failed, for the main thread.       *)
Stuck ==
  /\ send # <<>> /\ Len(stdin) = InCap
  /\ reader = "failed" \/ chunk # <<>>
  /\ ~ENABLED ShellStep

(* Refresh Status ends with headers that tell what the shell found: the    *)
(* shell's answer gets through, whatever else is pressed meanwhile.        *)
RefreshShows ==
  states # reported ~> states = reported \/ window = "gone" \/ reader = "failed" \/ Stuck

(* The window does not hang on a full pipe, as the reader thread drains    *)
(* the other one: it may when that has ended by an exception, or when both *)
(* pipes are full while the reader hands over a line.                      *)
WindowAnswers == send # <<>> ~> send = <<>> \/ Stuck

(* The Exit button, and the end of the window, end the shell, also when    *)
(* nobody reads its output, and leave no window behind.                    *)
ExitEnds == window # "open" ~> (window = "gone" /\ run = "ended") \/ Stuck
=============================================================================
