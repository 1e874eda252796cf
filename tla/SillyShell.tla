----------------------------- MODULE SillyShell -----------------------------
(***************************************************************************)
(* The prompt loop of the experiments, as stdin_loop has it: a line is     *)
(* taken with cin.getline into a buffer of LINE_SIZE, split into words,    *)
(* and obeyed; the loop ends with exit or when the stream has met its end. *)
(* A line that does not fit leaves the stream failed: it is obeyed as far  *)
(* as it fits, and nothing can be read from then on.  The user is          *)
(* external.  The other shells extend this one with commands of their own. *)
(***************************************************************************)
EXTENDS Integers, Sequences

CONSTANT Lines   \* what the user may type: the words of what fits of a line,
                 \* and whether it fits

WordsOf(lines) == UNION {{l.words[i] : i \in DOMAIN l.words} : l \in lines}
LinesAssumption ==
  \A l \in Lines : l.fits \in BOOLEAN /\ l.words \in Seq(WordsOf(Lines))

VARIABLES
  input,    \* the lines typed and not read: none, or one
  closed,   \* the user has ended the input
  stream,   \* the state of cin: good, failed or eof
  cmd,      \* the words of the line read last
  shell     \* reading, obeying or exited

shellVars == <<input, closed, stream, cmd, shell>>

ShellInit ==
  /\ input = <<>> /\ closed = FALSE
  /\ stream = "good" /\ cmd = <<>> /\ shell = "reading"

Type ==
  /\ ~closed /\ input = <<>> /\ shell # "exited"
  /\ \E l \in Lines : input' = <<l>>
  /\ UNCHANGED <<closed, stream, cmd, shell>>

CloseInput ==
  /\ ~closed
  /\ closed' = TRUE
  /\ UNCHANGED <<input, stream, cmd, shell>>

User == Type \/ CloseInput

-----------------------------------------------------------------------------
(* cin.getline and string2vector.                                          *)

Obeys(words, state) ==
  /\ shell = "reading" /\ shell' = "obeying"
  /\ cmd' = words /\ stream' = state
  /\ UNCHANGED closed

GetLine ==
  /\ stream = "good" /\ input # <<>> /\ input[1].fits
  /\ Obeys(input[1].words, "good") /\ input' = <<>>

(* The last line has no newline: it is obeyed, and the loop ends.          *)
GetLastLine ==
  /\ stream = "good" /\ closed /\ input # <<>> /\ input[1].fits
  /\ Obeys(input[1].words, "eof") /\ input' = <<>>

GetEnd ==
  /\ stream = "good" /\ closed /\ input = <<>>
  /\ Obeys(<<>>, "eof") /\ UNCHANGED input

(* What fits of the line, which may end within a word, is obeyed.          *)
GetTooLong ==
  /\ stream = "good" /\ input # <<>> /\ ~input[1].fits
  /\ Obeys(input[1].words, "failed") /\ input' = <<>>

(* Mutant: getline leaves the buffer as it is.                             *)
GetStale ==
  /\ stream = "failed"
  /\ Obeys(cmd, "failed") /\ UNCHANGED input

(* A failed stream gives an empty line, again and again.                   *)
GetNothing ==
  /\ stream = "failed"
  /\ Obeys(<<>>, "failed") /\ UNCHANGED input

Reads == GetLine \/ GetLastLine \/ GetEnd \/ GetTooLong \/ GetNothing

-----------------------------------------------------------------------------
(* The commands.                                                           *)

(* The line starts with the name and has at least n words.                 *)
Is(name, n) == Len(cmd) >= n /\ cmd[1] = name

(* Mutant: the loop does not look at the stream.                           *)
DoneForEver ==
  /\ shell = "obeying" /\ shell' = "reading"
  /\ UNCHANGED <<input, closed, stream, cmd>>

(* while (!cin.eof())                                                      *)
Done ==
  /\ shell = "obeying"
  /\ shell' = IF stream = "eof" THEN "exited" ELSE "reading"
  /\ UNCHANGED <<input, closed, stream, cmd>>

Help == Is("help", 1) /\ Done
Exit ==
  /\ Is("exit", 1) /\ shell = "obeying"
  /\ shell' = "exited" /\ UNCHANGED <<input, closed, stream, cmd>>

-----------------------------------------------------------------------------
(* Properties, of every shell whose steps are fair.                        *)

(* After a line that did not fit no line is obeyed any more, least of all  *)
(* one that is still in the buffer.                                        *)
NothingIsObeyedTwice ==
  [][stream = "failed" /\ shell = "reading" /\ shell' = "obeying" => cmd' = <<>>]_shellVars

(* The end of the input ends the shell, unless a line did not fit.         *)
EndOfInputEnds == closed ~> (shell = "exited" \/ stream = "failed")

=============================================================================
