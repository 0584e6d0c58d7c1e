------------------------------ MODULE Validate -------------------------------
(***************************************************************************)
(* src/Tutorial-Labs/lab8: validate.c takes a user name and a password     *)
(* with one read() each from its input, and its exit status says whether   *)
(* the password file has the pair.  The input is a terminal, or the pipe   *)
(* of a checkpasswd that keeps to the comment at the head of validate.c,   *)
(* as the one in the repository stops short of writing.                    *)
(***************************************************************************)
EXTENDS Integers, Sequences, FiniteSets

CONSTANTS Size,      \* MAX_PASSWORD
          MaxLine,   \* MAXLINE
          Letters,   \* the bytes of a password
          Names,     \* what is typed as a user's name
          Words,     \* what is typed as a password
          Passwords  \* password files: sequences of user, password and line end;
                     \* the last line may have none

(* The ":" of a line ends the name, so none is in it.                      *)
NameLetters == Letters \ {":"}

(* "MAX_PASSWORD must be less than MAXLINE/2": name, colon, password and   *)
(* NUL fit in userid.                                                      *)
ASSUME SizeAssumption == Size \in Nat \ {0} /\ MaxLine \in Nat /\ Size < MaxLine \div 2
ASSUME LettersAssumption == Letters \cap {"nul", "cr", "nl"} = {}
ASSUME NamesAssumption == \A u \in Names : u \in Seq(NameLetters) /\ Len(u) =< Size
ASSUME WordsAssumption == \A w \in Words : w \in Seq(Letters) /\ Len(w) =< Size
ASSUME PasswordsAssumption ==
  \A f \in Passwords :
    /\ f \in Seq([user : Seq(NameLetters), password : Seq(Letters),
                  end : {<<>>, <<"nl">>, <<"cr", "nl">>}])
    /\ \A i \in DOMAIN f : f[i].end = <<>> => i = Len(f)
    /\ \A i, j \in DOMAIN f : f[i].user = f[j].user => i = j

VARIABLES
  source,   \* "pipe" or "terminal"
  typed,    \* the name and the password of this run
  written,  \* records written: 0, 1 or 2
  closed,   \* the writer has closed, or ended
  input,    \* bytes written and not read
  at,       \* where main is: the two reads, the loop over the file, "exited", "no file"
  userid, password, \* strings
  lineno,   \* lines of the file read to their end
  taken,    \* bytes of the next line that fgets has returned
  file,     \* the password file
  status    \* exit status

writerVars == <<source, typed, written, closed>>
buffers    == <<userid, password>>
checkVars  == <<writerVars, input, at, buffers, lineno, taken, file, status>>

-----------------------------------------------------------------------------
(* Bytes and strings.                                                      *)

Has(s, c)   == \E i \in DOMAIN s : s[i] = c
Upto(s, c)  ==       \* the string, ended where the first c was
  IF Has(s, c)
  THEN SubSeq(s, 1, (CHOOSE i \in DOMAIN s : s[i] = c /\ \A j \in DOMAIN s : s[j] = c => i =< j) - 1)
  ELSE s
StartsWith(s, t) == Len(s) >= Len(t) /\ SubSeq(s, 1, Len(t)) = t

UserString(bytes) ==
  LET s == Upto(bytes, "nul") IN IF Has(s, "cr") THEN Upto(s, "cr") ELSE Upto(s, "nl")
PasswordString(bytes) == Upto(Upto(bytes, "nul"), "nl")

LineBytes(entry) == entry.user \o <<":">> \o entry.password \o entry.end

(* fgets returns what is left of a line, or MAXLINE - 1 bytes of it.       *)
PartEnd == LET len == Len(LineBytes(file[lineno + 1]))
           IN IF len - taken < MaxLine THEN len ELSE taken + MaxLine - 1
Part    == SubSeq(LineBytes(file[lineno + 1]), taken + 1, PartEnd)

(* Its last byte is taken off, newline or not, and what follows a \r.      *)
Stripped(part) == Upto(SubSeq(part, 1, Len(part) - 1), "cr")

-----------------------------------------------------------------------------
(* The writer.                                                             *)

(* Exactly MAX_PASSWORD bytes from a program, a line from a terminal.      *)
Record(word) ==
  IF source = "terminal" THEN word \o <<"nl">>
  ELSE [i \in 1 .. Size |-> IF i =< Len(word) THEN word[i] ELSE "nul"]

WriteRecord ==
  /\ written < 2 /\ ~closed
  /\ written' = written + 1
  /\ input' = input \o Record(typed[written + 1])
  /\ UNCHANGED <<source, typed, closed, at, buffers, lineno, taken, file, status>>

CloseInput ==
  /\ ~closed /\ closed' = TRUE
  /\ UNCHANGED <<source, typed, written, input, at, buffers, lineno, taken, file, status>>

-----------------------------------------------------------------------------
(* validate.                                                               *)

Exit(code) == at' = "exited" /\ status' = code

(* read(STDIN_FILENO, ..., MAX_PASSWORD): a pipe gives what it has, a      *)
(* terminal no more than a line.                                           *)
BytesThere ==
  LET k == IF source = "terminal" THEN Len(Upto(input, "nl")) + 1 ELSE Len(input)
  IN IF k < Size THEN k ELSE Size

ReadFails(from) ==
  /\ at = from /\ input = <<>> /\ closed
  /\ Exit(1)
  /\ UNCHANGED <<writerVars, input, buffers, lineno, taken, file>>

ReadUser ==
  /\ at = "user" /\ input # <<>>
  /\ userid' = UserString(SubSeq(input, 1, BytesThere))
  /\ input' = SubSeq(input, BytesThere + 1, Len(input))
  /\ at' = "password"
  /\ UNCHANGED <<writerVars, password, lineno, taken, file, status>>

ReadPassword ==
  /\ at = "password" /\ input # <<>>
  /\ password' = PasswordString(SubSeq(input, 1, BytesThere))
  /\ input' = SubSeq(input, BytesThere + 1, Len(input))
  /\ at' = "file"
  /\ UNCHANGED <<writerVars, userid, lineno, taken, file, status>>

UserNoColon == userid                           \* mutant: user_length without the ":"
UserPart    == userid \o <<":">>

(* One turn of the loop over the file; the first that begins with the user *)
(* decides.                                                                *)
CompareLine ==
  /\ at = "file" /\ lineno < Len(file)
  /\ IF PartEnd = Len(LineBytes(file[lineno + 1]))
     THEN lineno' = lineno + 1 /\ taken' = 0
     ELSE taken' = PartEnd /\ UNCHANGED lineno
  /\ LET line == Stripped(Part) IN
     IF line = userid \o <<":">> \o password THEN Exit(0)
     ELSE IF StartsWith(line, UserPart) THEN Exit(2)
     ELSE UNCHANGED <<at, status>>
  /\ UNCHANGED <<writerVars, input, buffers, file>>

NoSuchUser ==
  /\ at = "file" /\ lineno = Len(file)
  /\ Exit(3)
  /\ UNCHANGED <<writerVars, input, buffers, lineno, taken, file>>

(* fopen fails.                                                            *)
NoFile ==
  /\ at = "file" /\ lineno = 0 /\ taken = 0
  /\ at' = "no file" /\ status' = 1
  /\ UNCHANGED <<writerVars, input, buffers, lineno, taken, file>>

-----------------------------------------------------------------------------
CheckInit ==
  /\ source \in {"pipe", "terminal"}
  /\ typed \in Names \X Words
  /\ written = 0 /\ closed = FALSE /\ input = <<>>
  /\ at = "user" /\ userid = <<>> /\ password = <<>>
  /\ lineno = 0 /\ taken = 0 /\ file \in Passwords /\ status = -1

Writer == WriteRecord \/ CloseInput
Main ==
  \/ ReadFails("user") \/ ReadUser \/ ReadFails("password") \/ ReadPassword
  \/ CompareLine \/ NoSuchUser \/ NoFile

CheckNext == Writer \/ Main

CheckSpec == CheckInit /\ [][CheckNext]_checkVars
-----------------------------------------------------------------------------
(* What the comment at the head of validate.c says of the exit values.     *)
Verdict(u, p) ==
  IF \E i \in DOMAIN file : file[i].user = u /\ file[i].password = p THEN 0
  ELSE IF \E i \in DOMAIN file : file[i].user = u THEN 2 ELSE 3

(* A name as long as MAX_PASSWORD, typed at a terminal, leaves the newline *)
(* behind it to the second read.                                           *)
OutOfStep == source = "terminal" /\ Len(typed[1]) = Size

(* Every line of the file fits in fgets's buffer and ends with a newline.  *)
LinesWhole ==
  \A i \in DOMAIN file : file[i].end # <<>> /\ Len(LineBytes(file[i])) < MaxLine

(* With a file of whole lines the exit status is the verdict on what was   *)
(* typed, whenever the writes come relative to the reads, and 1 when       *)
(* something was missing: the two reads stay in step with the records, and *)
(* no name or password passes for the part of a longer one.  When a        *)
(* terminal puts the reads out of step the password is taken to be empty,  *)
(* whatever is typed for it.                                               *)
VerdictRight ==
  at = "exited" /\ LinesWhole =>
    \/ status = 1 /\ written < 2
    \/ ~OutOfStep /\ status = Verdict(typed[1], typed[2]) /\ written = 2
    \/ OutOfStep /\ status = Verdict(typed[1], <<>>)
=============================================================================
