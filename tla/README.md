# A formal model of the CSC209 systems programs

TLA+ specifications of the programs in this repository, checked with TLC and
proved with TLAPS.  The repository is a course: its own core is
`src/FinalProject`, a RAID-4 simulator built from cooperating processes and
pipes.  That program is modelled first and most completely; programs of the
assignments and the labs follow, in the order of the plan in section 6.

## 1. Inventory

### The RAID simulator (`src/FinalProject/source_code_files`)

| Part | State | Operations | Talks to |
|---|---|---|---|
| shell, `raid_sim.c` | the input, options | `rb`, `wb`, `kill`, `status`, `exit`, one at a time | calls the controller |
| controller, `controller.c` | `controllers[]`: pid and pipe ends per disk; the buffers of the call under way | `read_block`, `write_block`, `read_block_from_disk`, `write_block_to_disk`, `restart_disk`, `restore_disk_process`, `simulate_disk_failure`, `is_disk_alive`, `checkpoint_and_wait` | one command pipe and one reply pipe per disk, signals, `wait` |
| disk process, `disk_sim.c` | `disk_data` | the command loop of `start_disk`, `checkpoint_disk` | its two pipes, its file |
| GUI, `RAID-GUI.py` | `disk_states` and highlights, the Tk event queue, a reader thread | the buttons and the command line, `read_output`, `append_output`, `send_exit`, `on_close` | the shell's stdin and stdout, SIGTERM |

The controller and the disks are separate processes.  What makes them hard:

* **Writes are not acknowledged.**  `wb` returns when the two writes are in
  the pipes, and a disk may die with writes unread.
* **A dead disk is noticed late**, by `EPIPE` at the next send to it or by end
  of file while an answer is awaited, and the two are treated differently: the
  first restores the disk, the second does not.
* **The recovery runs in the middle of a command**, through the same access
  functions, and may find another dead disk.
* **Children end in three ways** (told to exit, killed and reaped, dead on
  their own and left a zombie), and `wait(NULL)` cannot tell them apart.

Correct means: a read returns what was last written, whatever single disk was
lost; every stripe stays rebuildable; the checkpoint files are a consistent
image; one lost disk never ends the program; every command and the exit
return; no disk process runs on for ever after the controller.

The window is a second program of two threads around the first.  What makes it
hard: the main thread writes to the shell from within a callback while the
reader thread needs the main loop to hand a line over; what the window shows
are lines that are one pipe, one thread and one queue old; and the shell, the
reader and the window may each end first.  Correct means: headers and
highlights are those of the last lines, Refresh ends with the shell's answer,
no callback hangs, and neither side is left behind at the end.

### The other programs

| Part | State | Hard behaviour | What makes it correct |
|---|---|---|---|
| pipe descriptors of the RAID (`init_disk`, `restart_disk`) | descriptor tables of parent and children | descriptors inherited by `fork`, numbers reused | each pipe has one reader and one writer, so that EPIPE and end of file happen |
| A3, an earlier RAID | as above | a restore that leaves parity zero, two different stripe indices | parity matches, reads match |
| A2, garbage collector and its data structures | list of chunks, tree or list of nodes; the generator's own list | an early return, unlinking nodes, sharing and cycles through hard links, addresses reused, a list that starts at an uninitialized pointer | nothing reachable is freed, everything else is, the collector returns, and the data structure never notices it |
| A1, parity files | a file of blocks | which block is rebuilt | the rebuilt data is the original |
| lab 11, chat server | table of clients, `select` set | full table, closed clients, stale snapshot, blocking writes | nothing but `select` blocks, nobody dropped, every message answered, every free place given out |
| lab 10, line server | buffer, `inbuf` | lines in pieces, several in one read, a full buffer | the lines printed are the lines sent |
| lab 8, password check | a pipe, an exit status | two records in one pipe, names that begin one another | the verdict fits the input |
| the rest (strings, types, bit operations, early labs, examples of `select`, sockets, pipes, exam questions) | local variables | none, or fragments of the above | see section 6 |

`PROJECT.json` lists every part with its status, and every hazard at its line.

## 2. The modules

```
Parity        blocks and their XOR
  Raid        controller + disks + pipes; its properties
    RaidInv   the inductive invariants
      MCRaid  for TLC
      RaidProofs               with ParityProofs
Volume        what the simulator promises its user; Raid is shown to implement it
RaidShell     what it promises the window;             Raid is shown to implement it
  RaidGui     the window and its threads;              MCRaidGui, RaidGuiProofs
PipeFds       descriptor tables of the same processes; MCPipeFds, StreamProofs
LineServer    lab 10, server and clients;              MCLineServer, StreamProofs
ChatServer    lab 11, server and clients;              MCChatServer, ChatServerProofs
FsTree        A2, the tree and its collector;          MCFsTree, FsTreeProofs
ValueList     a sequence of values; GcList is shown to implement it
GcList        A2, the list, its collector, its generator; MCGcList, GcListProofs
Validate      lab 8, the check and its writer;         MCValidate, StreamProofs
Parity
  ParityFile  A1, the parity of a file;                ParityProofs, MCRaidA3
  RaidA3      A3, the earlier simulator;               MCRaidA3, RaidA3Proofs
```

`StreamProofs` holds the proofs of three modules that share their lemmas about
sequences of bytes and least numbers or are too few for a module of their own;
`PipeFds` keeps the names `Init`, `Next` and `Spec` in it, and the other two call theirs
`LineInit`, `LineSpec`, `CheckInit`, `CheckSpec`.

**Parity.**  A block is the set of its one bits, so the program's byte-wise
`^=` is the symmetric difference and `XorOver(D, row)` is the outcome of an
`^=` loop over the blocks of `D` from a cleared accumulator.

**Raid.**  State and code:

| Variable | In the code |
|---|---|
| `pc` | which step of `read_block` or `write_block`, or of `checkpoint_and_wait`, is under way; `done`, `fatal` and `killed` after `main` has returned, `exit(1)` or SIGTERM |
| `phase` | in `read_block_from_disk`: before or after the command is sent |
| `req`, `reg` | the arguments, and `old_data` and `old_parity` of `write_block` |
| `rst` | the activations of `restore_disk_process`, innermost first: disk, stripe, the disks the stripe has still to be read from, the accumulator |
| `idx` | the loop index of `checkpoint_and_wait` |
| `out`, `shown` | what the last `rb` or `wb` returned; what `status` printed |
| `proc`, `orphans` | each disk's process: running, dead but not waited for, waited for; zombies whose pid `restart_disk` has overwritten |
| `mem`, `toDisk`, `fromDisk`, `file` | `disk_data`, the two pipes and `disk_<id>.dat` |
| `vol`, `losses` | history: the volume, set when `wb` sends the new parity; deaths since all disks last ran restored |

| Action | Code |
|---|---|
| `ReadCmd`, `WriteCmd` | `rb`, `wb` up to the first access; out of range they fail at once |
| `KillCmd`, `StatusCmd`, `ExitCmd` | the commands of these names |
| `SendRead`, `RecvBlock` | the two halves of `read_block_from_disk`, for a command or a restore; `RecvBlock` also does what the caller does with the block |
| `RecvEof` | end of file instead of the block: no restore |
| `SendWrite` | `write_block_to_disk` |
| `SendFails` | `EPIPE`: `restart_disk` and the start of the restore loop, in either access |
| `RestoreDone` | the end of `restore_disk_process`, and the failure of the access that called it |
| `SendExit`, `WaitChild` | the two loops of `checkpoint_and_wait` |
| `Sigterm` | `on_close` of `RAID-GUI.py` (only when `UnderGui`): the controller ends between any two of its steps |
| `DiskRead`, `DiskWrite`, `DiskExit`, `DiskEof` | one turn of the loop of `start_disk`; the last two end in `checkpoint_disk` and exit |
| `Crash` | a disk process ends on its own at any point (external) |

Abstractions, and why they lose nothing that the properties tell apart:

* A command, its block number and its data are written with separate `write`
  calls; they are one message here.  The reader blocks until a message is
  whole, and a disk that dies between two of the writes leaves the controller
  with `EPIPE` at the later one, as if it had died before the first.
* `PipeCap` counts messages where the kernel counts bytes.  A full pipe blocks
  the sender until the reader reads or dies, in both.
* `kill` and `waitpid` of the kill command are one step: the controller does
  nothing between them, and what the killed disk does meanwhile (reads and
  writes of its own memory, which is lost) is not seen by anyone.
* A SIGTERM between the `write` calls of one message leaves a part of it in
  the pipe; the disk's `read_full` then fails, and the disk checkpoints, as if
  the message had not been sent.
* An answer cut short by the death of the disk is end of file (`RecvEof`): the
  code fails in both cases in the same way.
* A restore started within a restore always ends the program: the access that
  started it fails, and the outer restore calls `exit(1)`.
* A disk told to exit, whose controller is gone or not, checkpoints and exits;
  an answer written to a controller that is gone raises `EPIPE`, which takes
  the same way out.
* Left out: failures of `fork`, `pipe`, `malloc` and of the checkpoint's file
  I/O, debug output and logs, `kill` with a disk number out of range, option
  parsing.  Each run starts from zeroed disks, as `start_disk` does: the
  checkpoint files are written and never read back.

**Volume.**  One command at a time on an array of blocks.  A read returns the
block or fails; a write that fails has taken effect or not, once for all, and
no later read disagrees.  `RaidVolume` maps `Raid` to it: the volume is `vol`,
and a write is committed when the parity block is sent.  The state functions
`vol`, `op` and `res` leave out everything about disks, so the refinement says
that disks dying and being restored are invisible but for failed commands.
`res` is what the shell shows (`raid_sim.c:150-166`): done when the call returned
0.  As `write_block` returns the number of the disk that failed, a failed `wb` to
a block of disk 0 is shown as done; `Misreported` names these blocks, and the
volume may fail a write to them `FailUnnoticed` (`raid_acked` is the run that
shows one).

**RaidShell and RaidGui.**  `RaidShell` is the simulator as seen through the
two pipes of the window: is it at its prompt, in an access, in `exit` or gone;
which disks does `kill(pid, 0)` find; and does some process still hold the
pipes, as every disk, forked by the shell, does.  `ShellView` maps `Raid` to it
(`ImplementsShell`): disks come back only during an `rb` or `wb`, `kill` alone
takes one away as long as they do not die on their own (a zombie still counts
as alive), and the pipes stay open until the last disk is gone.  `RaidGui`
extends `RaidShell`, takes each of its steps together with what the shell
reads and prints there, and adds the window:

| Variable, action | Code |
|---|---|
| `window`, `send` | whether the Tk window is there; the `write` a callback of the main thread is at, and what the callback does after it |
| `stdin`, `stdout`, `chunk`, `events` | a command or line on its way: in either pipe, decoded by the reader and not handed over, in the event queue |
| `reader` | the thread of `read_output`; a chunk that is not text ends it |
| `states`, `lit` | `disk_states`, `current_highlights` |
| `Command`, `ExitButton`, `CloseWindow` | a button or the command line; `send_exit`; `on_close` |
| `WriteLine`, `WriteFails` | the `write` of `send_text_command` or `on_close`, and the rest of its callback |
| `ReadChunk`, `Post`, `ReaderEof` | what one `read` brings; `root.after(0, append_output, line)`, for which the main thread has to be in its loop; the end of the `for` |
| `HandleEvent`, `TimerDue` | `append_output` with `parse_line_for_visual_updates`, or `destroy`; the 200 ms of `send_exit` |
| `ShellStatus`, `ShellKill`, `ShellAccess`, ... | the shell's step, with the lines it prints |

Only lines that change the window, and the bytes of a block, are in the pipes.
A block that is printed may or may not be text, and as the reader decodes what
a `read` brings as a whole, lines read along with such bytes are lost.  `parse_line_for_visual_updates` also
sees the text of a printed block and the echo of a line the user types; text that
imitates a `[CMD]` or `[STATUS]` line there would move the highlight or a header
(`RAID-GUI.py:369-389`, `402`), and is left out.
`reported` and `accessed` are history: what the last `status` found, and the
block the last `rb` or `wb` named.

**PipeFds.**  `Raid` gives each disk one reader and one writer per pipe and
lets `EPIPE` and end of file happen as soon as a process dies.  Whether they do
depends on who holds which end, which is what this module is about.  A table
maps descriptor numbers to ends; an end names the disk and which of its starts
the pipe was made for, so that a number given out twice is told apart.

| Variable, action | Code |
|---|---|
| `parent`, `controllers`, `fp` | the controller's descriptors, the numbers in `controllers[]`, the file of `wb` |
| `child`, `copy`, `left` | a disk's descriptors, its copy of `controllers[]`, the rounds of its close loop still to come |
| `InitDisk`, `Restore`, with `Fork` | `pipe`, `pipe`, `fork` of `init_disk`, and of `restart_disk` after `restore_disk_process` has closed the old ends |
| `CloseChildEnds`, `CloseInherited` | what the parent closes after `fork`; one round of what the child closes, its own two ends spared |
| `OpenFile`, `CloseFile`, `ParentEnds` | `wb`'s file, whose number lies among the pipes'; the end of the controller, at any point |
| `DiskEof`, `DiskDies` | end of file, when nobody holds the writing end; any other death, in the close loop too |

`DeathNoticed` is what `Raid`'s `Writable` and `RecvEof` rest on,
`ChildTableExact` its one reader and writer per pipe, and `EofReachesDisks` its
`DiskEof`.  One round of four closes is a step, and so is the group of
`pipe`, `pipe` and `fork`: the parent's own descriptors do not change under it,
and of the child's only its own steps and the looks of `NoHolder` see them.

**LineServer.**  `wire` holds the bytes sent and not read; a write appends a
piece and a read takes any number of bytes up to the room left, so that a line
may be cut anywhere.  `buf` keeps the bytes beyond `inbuf` as `memmove` leaves
them.  The client's message is a constant; `Stream` is what it sends.
`PrintLine` is one round of the inner loop, `ReadMore` its end, and
`CloseConnection` the end of the outer loop, which a `read` into no room takes
as well: the connection of a client with too long a line is closed, and the
client may die by `SIGPIPE`.  Lines of the test message are short words; only
their length, and where `\r` and `\n` stand, matter.

**ChatServer.**  `allFds`, `maxFd`, `users` and `readFds` are the variables of
`main`.  The loop body is split where a client can come in between: `Select`,
the accept (`NoConnection`, `AcceptConnection`, `TableFull`, `AcceptFails`),
and for each entry `select` chose the `read` and the `write`; `Serve` goes on
to the next chosen entry, passing the others by as the `for` loop does.  `Eof`,
`ReadFails` and `WriteToGone` are the ways a client is found gone; `client`
tells a socket that was closed from one that was reset, as `read` and `write`
do.  Bytes are counted, not named: the server copies them in order from a
buffer of its own and has no other place to mix them.  What it sends back is
`strlen` of what it read: of a client in `NulClients`, whose messages may hold NUL
bytes, `EchoBytes` is any number of bytes up to those read, none among them.  The client is
`chat_client.c`: a name, then message and answer in turn, and it may leave at
any point.  `FD_SET(-1)` is undefined; with the flags of the Makefile it sets a
bit that no descriptor of a small process has, and the model keeps it as `-1`
in `allFds`, where `select` does not look.  A failed `read` writes to `buf[-1]`
and sends what the stack held; the model keeps its two outcomes, the write
fails or there was nothing to write.

**FsTree.**  `name`, `links` and `fptr` are the nodes and their lists, `memory`
is the list of `gc.c` and `inUse` its marks; `stack` holds the activations of
`mark_fstree`, each with its place in the list it walks.

| Action | Code |
|---|---|
| `AddNode`, `AddHardLink`, `RemoveNode`, `PrintTree`, `MarkAndSweep` | the transactions of `do_fstree.c` |
| `MarkLink`, `MarkReturns` | one link in the loop of `mark_fstree`, and its return |
| `Sweep` | the second half of `mark_and_sweep` |
| `Finish` | the end of `main`: print, drop the root, collect |

A transaction is one step: nothing runs beside it.  Of the addresses `malloc`
may return the least free one stands for all, as the code compares addresses
and never orders them.  `NoLog` is the early return when the log cannot be
opened.  `Removed` keeps what the loop of `remove_node` does after it has taken
out the first link (`fstree.c:151-166`): it goes on searching.  `print_tree`
recurses without end on a cycle and ends the program (`overflow`); a removal
under a path that is not found dereferences NULL (`crashed`), where
`fstree.c:141` says it does nothing, as the last removal of
`transactions/fs_trans1` does.  A path that is not found is `Null` in `Walks`.
The reachable chunks are defined by closed sets of nodes and not by a walk, so
that the marking is compared with something it does not compute.

**GcList and ValueList.**  A file of transactions is written, by `mktrans` or
by hand, and then read by `do_list`.  `ll`, `cells` and `count` are the
generator's own list, which is never freed and starts at an uninitialized
pointer, NULL or not (`Wild`); `heap` and `head` are those of `do_list`, and
`memory` and `inUse` are the addresses on the list of `gc.c` and those with
`in_use` set.  The walks of `list.c` are one definition, `Pointers`,
for both memories: its value beyond the last node tells whether the walk ends
or follows a wild pointer.  Freed nodes keep their contents in `heap` until the
address is given out again, to any node, so that a pointer to one would show.

| Action | Code |
|---|---|
| `GenerateAdd`, `GenerateRemove`, `GenerateOther`, `FileWritten` | one round of the loop of `mktrans.c`, and its end |
| `Edit` | a line made by hand, any value (external) |
| `AddNode`, `DeleteNode`, `PrintNodes`, `Collect`, `Finish` | the transactions of `do_list.c`; its end, with the collection of everything |

`ValueList` is what a user of `do_list` is promised: a sequence that grows at
the front, loses the first of the equal values, and is printed as it is.  It
has no collector, so that the refinement says collecting, and using addresses
again, is invisible.  Comments and bad lines change nothing and are left out;
so is `mktrans` writing to its standard output, where the messages of `list.c`
come between the transactions.

**Validate.**  `input` holds the bytes written and not read; each `read` takes
what is there, at most `Size`, from a terminal at most a line, and may come at
any point between the writes or after the end of the writer.  At a terminal a
name of `MAX_PASSWORD` letters leaves its newline to the second `read`, which
takes it for an empty password (`OutOfStep`).  The writer at a pipe sends
what the comment at the head of `validate.c` asks for, exactly `MAX_PASSWORD`
bytes per record; `checkpasswd.c` stops at a `TODO` before it writes anything.
Strings are cut where the code cuts them, at the first `\0`, `\r` or `\n`.
A name has no `:`, which in a line of the file ends the name; a password may
have one.  A user has one line in a password file: of two, `validate` would
look at the first only.
`fgets` returns a line, or `MaxLine - 1` bytes of it; each round of the loop takes
the next such `Part`, `taken` bytes into the line, and `Stripped` is the part
without its last byte, a newline or not, and without what follows a `\r`.
`LinesWhole` are the files without a line longer than that or without its newline,
which the verdict is claimed for.

**ParityFile.**  The functions of `parity.c` on rows of blocks, and what
`restore_block` makes of a file; pure, and stated on `Parity`, as the byte-wise
loops are the same.

**RaidA3.**  `pc` is the access a command is about to make: `read`, then
`recover` when that failed, for `rb`; `oldData`, `oldParity`, `newParity`,
`newData` for `wb`.  `left` and `acc` are the loop of `read_block` over the other
disks, `rst` the restore under way and its stripe.  Accesses are one step, and
so is a stripe of a restore; `ReadFails` is a disk that dies after it was asked,
`SendFails` is `EPIPE`, `RestoreDone` the return into the access, which fails.
`ParitySlot` divides twice, as the calls with `parity_flag` do; `RestoreStripe`
reads parity by the block's number, divided once.  The history variables are
`vol`, the volume; `base`, its contents when the parity disk was last started;
`deaths`; `spread`, whether a stripe but the first was written; and `stale`,
whether the parity disk was ever started with something on the volume.
`ReadsRight` rests on `stale`: the proof refuted an earlier form, which looked
at `base` alone and holds of all runs of five commands, with one of nine (a
data disk restored from the parity of a volume it had not seen, the volume then
overwritten with zeros, and the parity disk started again).
Not modelled: writes in the pipes (that is `Raid`'s subject), `kill` of a number
that is no disk, which `simulate_disk_failure` takes as an index unchecked, and
disk sizes that are not a multiple of the block size.

## 3. The runs

| Run | Instance | Shows |
|---|---|---|
| `raid_array` | 2 data disks, 2 stripes, pipes of one message, 2 commands, kills, one death and SIGTERM at any step | `ArrayConsistent`, `CheckpointsMatchVolume`, `ExitWaitsForDisks`, `ClosingTearsOneDisk`, `FailureHealsDisk`, `ImplementsShell`; `CommandsReturn`, `ExitReturns`, `DisksStop` |
| `raid_crashes` | 2 data disks, 1 stripe, 4 commands, kills, one death and SIGTERM at any step | `ReadsSeeVolume`, `SingleLossSurvived`, `ImplementsVolume` |
| `raid_acked` | 1 data disk, 1 stripe, 2 commands | a finding: see section 5 |
| `gui` | 2 data disks, 3 stripes of which the window shows 2, a pipe of one command and one of three lines, 3 commands | `HeadersFollowReports`, `HighlightFollowsAccess`, `RefreshShows`, `WindowAnswers`, `ExitEnds` |
| `pipe_fds` | 2 data disks and parity, each started at most twice, 13 descriptors | `ParentTableExact`, `ChildTableExact`, `DeathNoticed`, `EofReachesDisks` |
| `lines` | a client with short lines and one with a line too long, 2 messages each in pieces of 1 to 3 bytes, buffer of 5, queue of 1 | `LinesPrinted`, `ClosedAfterLastLine`, `EveryClientServed` |
| `chat` | 3 clients with 3, 2 (with NUL bytes) and no messages, 2 entries, 2 free descriptors | `OnlySelectBlocks`, `ClientsKept`, `ExitsWhenSpent`, `MessagesAnswered`, `WaitingAccepted` |
| `fstree` | 4 nodes, 4 links, 6 transactions, paths of at most two names | `NoDangling`, `MarksExact`, `LinksNotShared`, `CollectorReturns` |
| `a3` | 2 data disks, 2 stripes, 5 commands, kills and one death at any step | `ReadsRight`, `ParityTracksChanges`, `OneLossServed`; and `RestoreBlockChecked`, `restore_block` on every file of three short lines |
| `list` | 2 values, 3 addresses, 5 lines, written by `mktrans` or by hand | `RemovalsFind`, `CollectionExact`, `ImplementsList` |
| `validate` | reads of 3 bytes, `fgets` of 9, 6 names, 7 passwords of which one has a colon, 24 password files of two users in whole lines and 8 with a long line or one without its newline, terminal and pipe | `VerdictRight` |
| `a3_stripes` | as `a3`, 3 commands, no death but `kill` | a finding |

**Bounds.**  Two data disks make parity differ from a mirror (with one, parity
is a copy) and give `NextSource` an order; two stripes make a restore loop go
round, a stale accumulator visible and `/` and `%` differ.  One bit per block
is enough for the runs because `^=` treats every bit alike.  Four commands are a write, a loss, the command
that finds it and restores, and a read of the restored data; a death besides
adds the second loss, which may strike within the restore of the first.
`PipeCap` 2 holds both writes of `wb` to one disk's neighbours unread and
makes a send block; `raid_array` uses 1, where every send may block.  Its two
commands are a `kill` and the command that finds it, or a `wb` and a disk that
dies in it or after it: the run reaches a SIGTERM that leaves the block of a
`wb` wrong, and one in a restore that leaves one stripe of a disk, or both,
wrong.  The
proofs of section 4 have no bounds on disks, stripes, bits, pipes, commands or
deaths.

In `pipe_fds` three disks put one before and one after a disk that is
restarted, and a second start is the first that meets reused numbers; 13
numbers are what three disks, the standard streams, a file and a restart need
at most.  In `lines` the buffer of 5 holds the longest line of the first client
exactly, its newline included, two messages give lines that end and begin in
one read, and the second client meets what the first left behind.  In `chat` a
third client finds the table full, and as descriptors are never closed the
first to come after a departure takes the last number or makes `accept` fail;
the client with NUL bytes may wait for ever for an answer, in an entry of its own, and
`BufSize` 2 has short and full messages, and three messages let a short answer
be followed by a full message, which is what `OnlySelectBlocks` is about.

In `fstree` four nodes are the root, two that hard links join in a cycle, and
one more; six transactions make the cycle, cut it loose, collect it and give its
addresses out again.  In `a3` two stripes share a parity block, the shortest way
to tell its number from a stripe's; five commands are a write, a kill, a read
that recovers, a second kill and a second read.

In `gui` the pipe of one command makes the main thread block with the second,
and the pipe of three lines takes one `status` of three disks whole and no line
besides, so that each of the three parties can be the one that waits; a block
number with a sign, one in the window and one below its last row are asked for.
Three commands are two that meet in the pipes and one that the window's end
meets.  In `list` three addresses are fewer than the lines, so that every one
is used again after a collection; two equal values, one of them removed, are
what tells the first from the others.  In `validate` one name begins the other,
one is empty, and names and passwords reach the size of a read, where no room is
left for the end of the string and a terminal's newline stays behind; the second
part of the long line looks like a line of its own.

**Fairness.**  `FairSpec` has weak fairness of the controller and of each disk
process: the kernel runs every process that can run, and a step of a process
that can run stays possible until it takes it or dies.  The user's commands,
the end of the input and the death of a disk have none: nobody must type and
no disk must die.  `PipeFds` has it for the steps of the disks alone.
`LineServer` has it for the server and for a client that has begun to write,
as `write_random_pieces` waits for nobody but the kernel; no client need come.
`ChatServer` has it for the server and for a client's read of an answer that
is there; its user need not type, and nobody need leave.  `FsTree` has it for the
collector alone, which waits for nothing; the input need not end.
`RaidGui` has it for the shell, the reader thread, the main thread and the
timer, not for the user.  `RaidA3`, `GcList` and `Validate` have none: only
safety is claimed of them.

TLC's deadlock check is on in every run but `gui`, `list` and `validate`, whose
processes end, and `gui` may also stop with all three parties waiting (`Stuck`,
which its liveness properties name as the one exception).  The only stuttering actions are
`Terminated` (`Raid`, `PipeFds`, where both sides must have ended; `FsTree`,
`RaidA3`), and
`Quiet` of the servers, which needs every client to have gone and the server
to wait, or to have exited.

## 4. What is proved

For every number of data disks above zero, every number of stripes, every set
of bits, every pipe capacity above zero, every bound on commands and deaths, with
or without the GUI (the named assumptions of `Raid`; the set of bits is arbitrary):

| Theorem | Says |
|---|---|
| `TypeCorrect` | `TypeOK`: among the rest, each block number computed by `write_block` or by a restore gives a slot of a disk |
| `InvariantCorrect` | `IInv`, the inductive invariant |
| `ReadsCorrect` | `ReadsSeeVolume` |
| `ArrayCorrect` | `ArrayConsistent` |
| `CheckpointsCorrect` | `CheckpointsMatchVolume` |
| `LossesCorrect`, `SingleLossCorrect` | `LossInv` and from it `SingleLossSurvived` |
| `ClosingCorrect` | `ClosingTearsOneDisk` |
| `HealCorrect`, `FailuresHeal` | `HealInv` and from it `FailureHealsDisk` |
| `WaitsCorrect`, `ExitWaitsCorrect` | `WaitInv` and from it `ExitWaitsForDisks` |
| `ShellImplemented` | `ImplementsShell`: `Spec` implies `ShellSpec` under the mapping `ShellView` |
| `VolumeImplemented` | `ImplementsVolume`: `Spec` implies `VSpec` under the mapping `RaidVolume` |
| `RebuildAnyBlock` | any block of a stripe is the XOR of the others |
| `RestoreBlockCorrect` | `restore_block` of A1 leaves the rows of any file as they were, whichever was deleted |

And for the earlier RAID, with every number of disks and of blocks of a disk, every
set of bits and every bound on commands and deaths (the assumptions of
`RaidA3`):

| Theorem | Says |
|---|---|
| `TypeCorrect` | `TypeOK`: every access is to a slot of a disk |
| `ServedCorrect`, `OneLossCorrect` | `ServedInv` and from it `OneLossServed` |
| `ReadsCorrect` | `ReadsRight` |
| `ParityCorrect` | `ParityTracksChanges` |

And for the window, with every number of disks and of rows, every capacity of
the two pipes that holds one command and one `status`, and any block numbers
(the assumptions of `RaidGui`):

| Theorem | Says |
|---|---|
| `GuiInvariantCorrect` | `GuiInv`, the inductive invariant |
| `HeadersCorrect` | `HeadersFollowReports` |
| `HighlightCorrect` | `HighlightFollowsAccess` |

And for the chat server, with every set of clients, every size of the table and of
the buffers, every limit of descriptors above those of the process itself and
any number of messages (the assumptions of `ChatServer`):

| Theorem | Says |
|---|---|
| `ChatInvariantCorrect` | `ChatInv`, the inductive invariant |
| `OnlySelectCorrect` | `OnlySelectBlocks` |
| `ClientsKeptCorrect` | `ClientsKept` |
| `ExitCorrect` | `ExitsWhenSpent` |

And for every number of disks, set of descriptors and bound on restarts (the
assumptions of `PipeFds`):

| Theorem | Says |
|---|---|
| `FdsCorrect` | `FdInv`, the inductive invariant of the tables |
| `ParentTableCorrect`, `ChildTableCorrect` | `ParentTableExact`, `ChildTableExact` |
| `DeathNoticedCorrect` | `DeathNoticed` |
| `OneProcessCorrect` | `OneProcessPerDisk` |

And for every set of addresses, names and paths and any number of transactions
(the assumptions of `FsTree`):

| Theorem | Says |
|---|---|
| `TreeInvariantCorrect` | `FsInv`, the inductive invariant of the tree and of the marking |
| `NoDanglingCorrect` | `NoDangling` |
| `MarksCorrect` | `MarksExact` |
| `LinksCorrect` | `LinksNotShared` |

For every set of values and of addresses and any number of transactions (the
assumptions of `GcList`):

| Theorem | Says |
|---|---|
| `ListsCorrect` | `IInv` of `GcListProofs`, the inductive invariant of both lists and of the file between them |
| `CollectionCorrect` | `CollectionExact` |
| `RemovalsCorrect` | `RemovalsFind` |
| `ListImplemented` | `ImplementsList`: `Spec` implies `LSpec` of `ValueList` |

For every set of clients, all messages that are not empty, any number of times and any sizes of
the pieces, every size of the buffer and of the queue (the assumptions of
`LineServer`):

| Theorem | Says |
|---|---|
| `LineInvariantCorrect` | `LineInv` of `StreamProofs`, the inductive invariant |
| `LinesPrintedCorrect` | `LinesPrinted` |
| `ClosedAfterLastLineCorrect` | `ClosedAfterLastLine` |

For every `MAX_PASSWORD` and `MAXLINE` as the first comment of `validate.c` asks
for, every set of letters, of names and of passwords
of `MAX_PASSWORD` letters at most, from a pipe or a terminal, and all password
files with one line per user (the
assumptions of `Validate`; `VerdictRight` claims nothing of a file with a line
that `fgets` splits or that has no newline):

| Theorem | Says |
|---|---|
| `CheckInvariantCorrect` | `CheckInv` of `StreamProofs`, the inductive invariant |
| `VerdictCorrect` | `VerdictRight` |

**The argument.**  `ReadsSeeVolume` is not inductive: the answer in a reply
pipe has to be right, so the disk has to hold the block when it answers, so
the writes in its command pipe have to lead there.  `Settles` says so: after
reading the messages in its pipe, the disk holds the block.  `DisksHold` then
claims the layout for all running disks but for the blocks `Exempt` lists: the
data block between the two writes of `write_block`, and the stripes a restore
has not reached.  `RestoreSums` says the accumulator of a restore is the XOR
of the blocks read so far, `BuffersMatch` that `write_block`'s buffers are not
stale, `RepliesRight` and `ReadsLast` that the only answer under way is the
one waited for.  When the sources of a stripe are used up, `RebuildAnyBlock`
makes the accumulator the missing block.  When a restore begins in the middle
of `write_block`, after the parity was sent, the block it rebuilds is the new
one, because `vol` changed with the parity; that is the step where `vol` had to
be set with the parity and not with the data.  After a second restore within
the first nothing is claimed of the disks (`Healthy`): the program is about to
give up, and `RestoreDone` of the inner one is its only way on.

Each action has a lemma (`SendWriteInv`, `DiskReadInv`, ...), and the
transformations several of them share have lemmas of their own:
`SettlesAppend` and `SettlesTail` for a send and a read, `SameControl` for the
steps of a disk, `DeathInv` for both ways to die.

`SingleLossSurvived` needs to know what `losses` stands for while restores
nest: `LossInv` bounds it from below by the disks that are not running and the
activations in `rst`, and says that `rst` is empty outside a command.
`ClosingTearsOneDisk` follows `IInv`'s claim about the disks past the end of
the controller: `TornInv` is that claim for `killed`, kept by the disk steps
that drain the pipes.  `Sigterm` leaves `rst` as it is, as history: the disk and
the stripe a restore had come to.  What it leaves unclaimed is what `Exempt` left
out before the signal: the data block whose parity was sent, or the stripes of
the one disk under restore.  With a restore interrupted by a second, `IInv`
claims nothing and the property nothing either.  `VolumeImplemented` needs
`ReadsSeeVolume`, at the step where a read succeeds, and `TypeOK`, for the number
that `write_block` returns: it is 0 for disk 0 alone.  Every other step is mapped
by comparing `VolOp` and `VolRes` before and after (`VolOpCases`,
`VolStutter`).

`FailureHealsDisk` speaks of runs in which no disk dies on its own.  There only
`kill` leaves a disk dead, and that between commands; `HealInv` is what that
leaves true within one: the disk under restore and the disk whose answer is
waited for both run, so that `RecvEof` cannot happen and only a `RestoreDone`
fails a command.  `ExitWaitsForDisks` counts children.  `WaitInv` bounds the
zombies and the overwritten ones together by the deaths, up to `exit`; in the
loop of waits each call takes one child as long as there is one, of the
`NumDisks + 1` told to exit and those zombies, so that after `NumDisks + 1`
calls at most one per death is left.  `ShellImplemented` maps every action to
a step of `RaidShell` or a stutter; it needs of the invariants that a disk is
restarted within a command only, and that none runs once nobody holds it.

For `PipeFds`, `ChildTableExact` speaks of a child that has closed what it had
to; `ChildInv` strengthens it to the children in their loop: every end beside
its own two will be closed by one of the rounds `left` to it.  That is so
because a child gets only the ends of `ParentInv`: of the disks made so far,
with the two of the child itself, and never a reading end of another disk's
commands.  `DeathNoticed` follows at once: only a disk itself ever keeps its
`cmdR` and `replyW`.

For `FsTree`, `Heap` claims of the whole memory list, garbage included, that it
leads to nothing freed: that is kept by each transaction without a word about
reachability, and by the sweep because the marked chunks are closed.
`ListsApart` keeps one node's removal out
of another's list.  `Marking` is the invariant of the walk: a marked link has a
marked node behind it, and a link of a marked node that is not marked itself is
still to come in some activation on the stack.  When the stack is empty the
marked nodes are therefore a closed set with the root in it, which contains
what is reachable; that nothing else is marked is kept step by step.  The path
looked up by a transaction leads to nodes of the memory list only
(`FoundAllocated`), by the least place along the walk where it would not.

For `GcList`, a list is a sequence of nodes, each once, that the `next` fields
follow to an end that is no node (`Chain`): NULL for `do_list`, NULL or `Wild`
for `mktrans`.  What the walks of `list.c` compute on a chain is proved without
induction over data: the least number at which `Pointers` could leave the chain
has a number before it, where it is on it (`ChainPointers`).  From that
`ToString` is the sequence of the values, `Reached` the set of the nodes, and
the node `remove_node` unlinks the first of its value (`ChainWalks`,
`ChainHits`).  `AddChain` and `RemoveChain` make the chain after an addition
and a removal, and what they do to the values is a step of `ValueList`.
`CollectionExact` is then that the nodes marked are those of the chain, all of
them on the memory list, and an address given out is on none.  For
`RemovalsFind` the file is what ties the two programs together: `Replays` says
which lists its lines lead through, each removal finding its value; `mktrans`
appends a line that leads on to its own new list, `do_list` takes the first
line away, and its list is always where the rest of the file begins.

For `RaidA3`, `ServedInv` says which disk a first death can have been at each
step, which is what `read_block` needs to do without it.  `StripeInv` is the
layout of the first stripe, where both divisions give slot 0, with the block
between the two writes and the one a restore has not reached taken out
(`Pending`), and with what `write_block` and the recovery hold of it
(`StripeRegs`).  `TrackInv` is the parity of all stripes while only the parity
disk has died: the XOR, over the blocks whose parity shares a slot, of what
changed since the disk was started; a write of one block changes one term of
one such sum (`XorOverUpdate`).

For `ChatServer`, `SocketsApart` (no two clients and no two entries have one
descriptor, and a new one is nobody's) makes the steps of one client leave what
is known of the others alone.  `SnapshotHolds` carries what `select` said
through the loop: each chosen entry from the present one on still has bytes or an
end of file, as clients only add to it and the server takes from its own entry
only.  `Exchange` bounds the bytes in three places, unread, held and echoed, by
what the client does next; the case it is there for is a client that has
answered the first half of an echo, and then either the rest of the echo or the
new message is at most one buffer.  `ClientsKept` is inductive beside `ChatInv`:
an entry is given up only in a step that serves it, of a client that has gone
(`RemoveKeeps`), and an entry taken was nobody's (`AcceptKeeps`).
`ExitsWhenSpent` follows from `SpentInv`, which accounts for every open
descriptor: those the process began with and one per client ever accepted.

For `RaidGui`, `Arrives(K, x, now)` says that the last line of kind `K` in the
queue, the reader's chunk and the pipe, taken as one sequence, is `x`, or there
is none and its effect is there.  `Free` and `Ends` of a concatenation
(`FreeConcat`, `EndsConcat`) reduce every step to a sequence cut in two: a read
and a hand-over leave the sequence as it is, the shell prints behind it, the
timer puts in a line of no kind, and `HandleEvent` takes the first.  The number
on a label counts the labels before it; that this is what
`highlight_logical_block` computes by `/` and `%` is `Numbered`, a bijection.

For `LineServer`, `LinesPrinted` says what is printed when `read` is called,
and has to be carried through the loop over the lines, where lines are read and
not yet printed.  `LineInv` cuts the stream of the client served in four at two
places: `Done`, the end of the last printed line, and `Got`, the bytes read.
Before `Done` all lines are printed, from there to `Got` the bytes are those at
the front of the buffer, from `Got` on they are on the wire or not yet sent
(`PieceCut`, `PieceJoin`).  `Done` is 0 or the end of a newline, so that no
newline lies across it, and `find_network_newline` on the buffer finds the next
newline of the stream (`EndInBuffer`).  `Lines` counts newlines; taking the
first of the buffer adds one to those counted and leaves the places of the
earlier ones alone (`LinesStep`), and bytes without one add no line
(`LinesSame`).  That the `k`-th newline exists, for `k` up to their number,
would be an induction over the stream: `EndsListed` claims it of the bytes up
to `Done` only, and the invariant carries it from line to line.  A `read` into
no room means a full buffer without a newline, which `LinesFit` denies
(`PrintedInRead` and the step of `CloseConnection`), so that a client whose
lines fit is closed at its end of file only.

For `Validate`, `CheckInv` says the input is the records written and not read,
behind the newline that a long name may have left (`Rest`).
A record is `Size` bytes from a program and a line from a terminal, and one
`read` takes one of either, no matter how many are there
(`ReadTakesRecord`), or the word without its newline when the word fills the read
(`ReadTakesWord`); cut at the first `\0`, `\r` or `\n` it is what was typed,
with room for the end of the string or not (`RecordString`).  Of a line of the
file, `validate` asks whether it is the name, a colon and the password, and
whether it begins with the name and a colon: as names have no colon the first
colon of the line is the end of its name, so that the two questions are about
the user and the password of the line (`NameOfLine`, `PairOfLine`), whatever
its end is (`LineOfEntry`); a whole line is one part (`WholePart`).  The lines before `lineno` are other users', and
the first of the user is the only one.

**Only model-checked.**  The eleven liveness properties, as liveness under fairness is
out of the prover's reach, and so is `ENABLED` (in `Stuck`).  Every invariant,
action property and refinement that a passing run checks is a theorem.  No definition is
`RECURSIVE`: the XOR over a set is stated by counting, which is what lets the
proofs reason about it without induction over data; the walks of `GcList` are
recursive functions, which the argument of the least number reaches.  The inductive invariants were model-checked before they
were proved, on the instances of the runs of their modules (`IInv`, `LossInv`,
`HealInv`, `WaitInv`, `FdInv`, `FsInv`, `ServedInv`, `StripeInv`, `TrackInv`,
`ChatInv`, `GuiInv`, `IInv` of `GcListProofs`, `SpentInv`, `LineInv`, `CheckInv`); the runs keep what follows from them.

## 5. What the code does against its own word

| Run | Source | What |
|---|---|---|
| `raid_acked` | `controller.c:485` | on failure `write_block` returns the number of the disk, and 0 is both disk 0 and success: `wb` reports a block written that was not |
| `a3_stripes` | A3 `controller.c:322` | the parity of a stripe is written at its number divided by `num_disks`, and the restore reads it elsewhere: after one kill a block reads back wrong |

Seen in the models, without a run of their own: a disk that died on its own is
restored without being waited for, `wait(NULL)` then counts the zombie, and the
program may end before the last disk has its checkpoint (`controller.c:595`;
`ExitWaitsForDisks` allows one such disk per death); the descriptor of a chat
client that has left is never closed, and when none is left `accept` fails and
the server exits (`chat_server.c:82`; `AcceptFails`, and `ExitsWhenSpent` for how long it lasts); the window can wait for
ever with both pipes full (`Stuck`, `RAID-GUI.py:405`), keeps the headers of
the last `status` when a kill or a restore has changed the disk, and stays open
when Exit is pressed after the shell has ended, as the `write` raises before
the timer is set (`RAID-GUI.py:444`); `status` calls a zombie ALIVE, as
`kill(pid, 0)` succeeds on it (`controller.c:741`); the access that finds a dead
disk restores it and still fails, so that the first `rb` after a `kill` prints
nothing, where test 7 of `test_raid.sh` expects the data (`controller.c:322`);
`remove_node` does not test the path it was given (`fstree.c:147`); and the
parity disk of A3 stays zero after a restart, though A3 `controller.c:499` says
"Parity will be recomputed automatically when new data is written"
(`ParityTracksChanges` says what it is instead).  In the chat server `strlen`
ends the echo at a NUL (`chat_server.c:87`), so that a message that begins with
one is never echoed back, though line 59 says so, and its client waits for
ever; `MessagesAnswered` is about the others.  In `validate` a name of
`MAX_PASSWORD` letters typed at a terminal leaves its newline to the second
`read` (`validate.c:69`): the right password is refused with 2, though lines
25-32 call `MAX_PASSWORD` supported and pieces from a keyboard separate
(`OutOfStep`).  And the byte that `validate.c:104` takes off as the newline may
be a letter: with a last line `ab:abb` that has none, user `ab` is let in with
password `ab`, and a line longer than `fgets`'s buffer loses one letter in each
part (`LinesWhole`).

## 6. The plan, and what is not modelled

Modelled: the RAID simulator with its pipe descriptors and its window, the
collector with both of its data structures, the line server, the chat server,
the password check, the parity of a file, and the earlier RAID.  Nothing is left
of the plan: the components are modelled, the runs pass, and what is not
liveness is proved.

**Not modelled**, and why:

* Option parsing and tokenising in `raid_sim.c`: sequential string handling
  with no state that a later step depends on.
* Failures of `fork`, `pipe` and `malloc`: each ends the command or the
  program where it happens.
* `readserver.c`, which prints what each `read` returns and keeps nothing;
  `select.c`, `read_from_2.c` and the programs of `src/Sockets`, which read a
  fixed number of messages from two children or one peer: `LineServer` and
  `ChatServer` are the complete forms of both.
* `src/Pipes`: pipelines of two or three processes that end after one pass;
  `PipeFds` has their question, who holds which end, in a larger form.
* The exam programs: `Question-9.c` has gaps where the answers go, and
  `Question-8.c` selects between its input and one child, by assumption one
  that never ends.
* `insert.c` and `traverse.c`: insertion into a list, of which `GcList` has a
  complete one; `bitsets.c` and the other bit and string examples and the early
  labs, which have no state beyond local variables.
* `checkpasswd.c`: it ends before `fork`, and what it should do is an exercise.
