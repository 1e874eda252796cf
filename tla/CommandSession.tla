--------------------------- MODULE CommandSession ---------------------------
(***************************************************************************)
(* The line protocol of GLBCommandServer::server, between a controller     *)
(* and the thread each of its connections gets.  A batch is the lines up   *)
(* to one whose first word is OVER; it is run when OVER arrives, and the   *)
(* replies are written when it has run.  A connection may be lost at any   *)
(* point: the lines on their way are then cut anywhere, a last line may    *)
(* arrive without its newline, and the thread at the other end finds out   *)
(* when it next reads or writes.  The controller is external: it sends a   *)
(* batch, waits for OVER, and after a loss sends the batch again.          *)
(*                                                                         *)
(* A line is the sequence of its words, as splitStr leaves it.             *)
(***************************************************************************)
EXTENDS Integers, SequencesExt

CONSTANTS
  Batches,        \* the batches, in the order the controller sends them
  MaxConns,       \* bound: connections the controller opens
  MaxListed       \* bound: lines DEBUG_DOMAINS lists

ASSUME MaxConnsAssumption == MaxConns \in Nat
ASSUME MaxListedAssumption == MaxListed \in Nat

(* A line has a word, be it empty; a batch ends before the first OVER.     *)
Line == Seq(STRING) \ {<<>>}

ASSUME BatchesAssumption ==
  /\ Batches \in Seq(Seq(Line))
  /\ \A b \in DOMAIN Batches : \A k \in DOMAIN Batches[b] : Batches[b][k][1] # "OVER"

Conns == 1..MaxConns

VARIABLES
  conn,      \* connections opened so far; the last one is the controller's
  batch,     \* the batch the controller is at
  sent,      \* how many lines of it, OVER included, it has written on conn
  lost,      \* the connections that are gone
  wire,      \* per connection: the lines on their way to the server
  torn,      \* per connection: its last line has lost its newline
  back,      \* per connection: the replies on their way back
  answers,   \* the replies the controller has read
  pc,        \* per connection: where its thread is
  inLines,   \* per connection: the lines stored
  i,         \* per connection: the stored line to run next
  outLines,  \* per connection: the replies to write
  log,       \* history: the lines run
  mark,      \* history: the length of log at the last acknowledgement
  ran,       \* history, per connection: those of its lines that were run
  due        \* history, per connection: the batches whose OVER was sent on it

ctlVars == <<conn, batch, sent, answers, mark, due>>
netVars == <<lost, wire, torn, back>>
srvVars == <<pc, inLines, i, outLines, log, ran>>
vars == <<ctlVars, netVars, srvVars>>

OVER == <<"OVER">>

(* cmdMatch: the command has its name and at least nArgs words.            *)
cmdMatch(nArgs, sv, expected) == Len(sv) >= nArgs /\ sv[1] = expected

Arity == [DEBUG_DOMAINS |-> 1, ADD_DOMAIN |-> 3, DEL_DOMAIN |-> 2,
          SNAPSHOT |-> 2, COUNTS |-> 1, CLR_COUNTS |-> 1, SET_SOA |-> 3,
          SET_NS |-> 2, CLR_DOMAINS |-> 1]

(* The handler the chain of cmdMatches gives a line to.                    *)
Handler(sv) ==
  IF \E h \in DOMAIN Arity : cmdMatch(Arity[h], sv, h)
  THEN CHOOSE h \in DOMAIN Arity : cmdMatch(Arity[h], sv, h)
  ELSE "unknownCommand"

(* What a handler may add to outLines, each line named for its handler:    *)
(* one toJson, but of debugDomains a line for every domain it comes by.    *)
Replies(sv) ==
  {[k \in 1..n |-> Handler(sv)] :
     n \in IF Handler(sv) = "DEBUG_DOMAINS" THEN 0..MaxListed ELSE {1}}

Init ==
  /\ conn = 0 /\ batch = 1 /\ sent = 0 /\ answers = <<>> /\ mark = 0
  /\ ran = [c \in Conns |-> <<>>] /\ due = [c \in Conns |-> <<>>]
  /\ lost = {} /\ torn = [c \in Conns |-> FALSE]
  /\ wire = [c \in Conns |-> <<>>] /\ back = [c \in Conns |-> <<>>]
  /\ pc = [c \in Conns |-> "off"]
  /\ inLines = [c \in Conns |-> <<>>] /\ outLines = [c \in Conns |-> <<>>]
  /\ i = [c \in Conns |-> 1] /\ log = <<>>

-----------------------------------------------------------------------------
(* The controller.                                                         *)

Lines(b) == Append(Batches[b], OVER)
Connected == conn > 0 /\ conn \notin lost

Connect ==
  /\ ~Connected
  /\ conn < MaxConns
  /\ batch <= Len(Batches)
  /\ conn' = conn + 1
  /\ sent' = 0
  /\ pc' = [pc EXCEPT ![conn + 1] = "reading"]
  /\ UNCHANGED <<batch, answers, mark, due, netVars, inLines, i, outLines, log, ran>>

Send ==
  /\ Connected
  /\ batch <= Len(Batches)
  /\ sent < Len(Lines(batch))
  /\ sent' = sent + 1
  /\ wire' = [wire EXCEPT ![conn] = Append(@, Lines(batch)[sent + 1])]
  /\ due' = IF sent' = Len(Lines(batch))
            THEN [due EXCEPT ![conn] = @ \o Batches[batch]] ELSE due
  /\ UNCHANGED <<conn, batch, answers, mark, lost, torn, back, srvVars>>

Acknowledge ==
  /\ Connected
  /\ back[conn] # <<>>
  /\ answers' = Append(answers, Head(back[conn]))
  /\ back' = [back EXCEPT ![conn] = Tail(@)]
  /\ batch' = batch + 1
  /\ sent' = 0
  /\ mark' = Len(log)
  /\ UNCHANGED <<conn, due, lost, wire, torn, srvVars>>

(* What is on its way is cut after the first n lines, the next of which    *)
(* may still arrive, whole but for its newline.                            *)
Lose ==
  /\ Connected
  /\ lost' = lost \cup {conn}
  /\ back' = [back EXCEPT ![conn] = <<>>]
  /\ \E n \in 0..Len(wire[conn]), t \in BOOLEAN :
       /\ t => n < Len(wire[conn])
       /\ torn' = [torn EXCEPT ![conn] = t]
       /\ wire' = [wire EXCEPT ![conn] = SubSeq(@, 1, IF t THEN n + 1 ELSE n)]
  /\ UNCHANGED <<ctlVars, srvVars>>

-----------------------------------------------------------------------------
(* The thread of a connection.                                             *)

(* eof(): getline has met the end, which it does after a torn line.        *)
Eof(c, unread) == c \in lost /\ torn[c] /\ unread = <<>>

Read(c) ==
  /\ pc[c] = "reading"
  /\ wire[c] # <<>>
  /\ wire' = [wire EXCEPT ![c] = Tail(@)]
  /\ UNCHANGED <<ctlVars, lost, torn, back, log, ran>>

(* The line is stored; when the stream has ended the loop does, too.       *)
StoreLine(c) ==
  /\ Read(c)
  /\ Head(wire[c])[1] # "OVER"
  /\ inLines' = [inLines EXCEPT ![c] = Append(@, Head(wire[c]))]
  /\ pc' = [pc EXCEPT ![c] = IF Eof(c, Tail(wire[c])) THEN "closed" ELSE "reading"]
  /\ UNCHANGED <<i, outLines>>

BeginBatch(c) ==
  /\ Read(c)
  /\ Head(wire[c])[1] = "OVER"
  /\ pc' = [pc EXCEPT ![c] = "running"]
  /\ i' = [i EXCEPT ![c] = 1]
  /\ outLines' = [outLines EXCEPT ![c] = <<>>]
  /\ UNCHANGED inLines

(* Mutant: no look at the stream after getline.                            *)
RunsWhatIsThere(c) ==
  /\ pc[c] = "reading"
  /\ c \in lost /\ wire[c] = <<>>
  /\ pc' = [pc EXCEPT ![c] = IF inLines[c] = <<>> THEN "closed" ELSE "running"]
  /\ UNCHANGED <<ctlVars, netVars, inLines, i, outLines, log, ran>>

(* The stream is bad: what was stored is dropped without a reply.          *)
ReadFails(c) ==
  /\ pc[c] = "reading"
  /\ c \in lost /\ wire[c] = <<>>
  /\ pc' = [pc EXCEPT ![c] = "closed"]
  /\ UNCHANGED <<ctlVars, netVars, inLines, i, outLines, log, ran>>

(* A handler runs the next line, and is recorded to have.                  *)
Runs(c) ==
  /\ log' = Append(log, inLines[c][i[c]])
  /\ ran' = [ran EXCEPT ![c] = Append(@, inLines[c][i[c]])]

RunCommand(c) ==
  /\ pc[c] = "running"
  /\ i[c] <= Len(inLines[c])
  /\ Runs(c)
  /\ \E r \in Replies(inLines[c][i[c]]) :
       outLines' = [outLines EXCEPT ![c] = @ \o r]
  /\ i' = [i EXCEPT ![c] = @ + 1]
  /\ UNCHANGED <<ctlVars, netVars, pc, inLines>>

(* A handler throws, before or after its effect: the session ends.         *)
CommandThrows(c) ==
  /\ pc[c] = "running"
  /\ i[c] <= Len(inLines[c])
  /\ Runs(c) \/ UNCHANGED <<log, ran>>
  /\ pc' = [pc EXCEPT ![c] = "closed"]
  /\ UNCHANGED <<ctlVars, netVars, inLines, i, outLines>>

(* outLines go out once last commands have run; they reach the controller  *)
(* if it is still there.  kept lines stay stored for the next batch.       *)
Writes(c, last, replies, kept) ==
  /\ pc[c] = "running"
  /\ i[c] > last
  /\ back' = IF c \in lost THEN back ELSE [back EXCEPT ![c] = @ \o replies]
  /\ inLines' = [inLines EXCEPT ![c] = kept]
  /\ outLines' = [outLines EXCEPT ![c] = <<>>]
  /\ i' = [i EXCEPT ![c] = 1]
  /\ pc' = [pc EXCEPT ![c] = IF Eof(c, wire[c]) THEN "closed" ELSE "reading"]
  /\ UNCHANGED <<ctlVars, lost, wire, torn, log, ran>>

(* Mutants of WriteReplies: no inLines.clear(), an off-by-one in the loop  *)
(* before it, no OVER after the replies.                                   *)
KeepsLines(c) == Writes(c, Len(inLines[c]), <<outLines[c]>>, inLines[c])
SkipsLast(c) == Writes(c, Len(inLines[c]) - 1, <<outLines[c]>>, <<>>)
LeavesOutOver(c) == Writes(c, Len(inLines[c]), <<>>, <<>>)

WriteReplies(c) == Writes(c, Len(inLines[c]), <<outLines[c]>>, <<>>)

WriteFails(c) ==
  /\ pc[c] = "running"
  /\ i[c] > Len(inLines[c])
  /\ c \in lost
  /\ pc' = [pc EXCEPT ![c] = "closed"]
  /\ UNCHANGED <<ctlVars, netVars, inLines, i, outLines, log, ran>>

Server(c) ==
  \/ StoreLine(c) \/ BeginBatch(c) \/ ReadFails(c)
  \/ RunCommand(c) \/ CommandThrows(c) \/ WriteReplies(c) \/ WriteFails(c)

(* Nothing more to send, or no connection to send it on.                   *)
Finished ==
  /\ batch > Len(Batches) \/ (~Connected /\ conn = MaxConns)
  /\ \A c \in Conns :
       \/ pc[c] \in {"off", "closed"}
       \/ pc[c] = "reading" /\ wire[c] = <<>> /\ c \notin lost
  /\ UNCHANGED vars

Next ==
  \/ Connect \/ Send \/ Acknowledge \/ Lose \/ Finished
  \/ \E c \in Conns : Server(c)

Spec ==
  /\ Init /\ [][Next]_vars
  /\ \A c \in Conns : WF_vars(Server(c))
  /\ WF_vars(Acknowledge)

-----------------------------------------------------------------------------
(* Properties.                                                             *)

(* A connection runs the batches sent on it, in order and line by line,    *)
(* and never a line of a batch whose OVER it has not been sent;            *)
(* inLines.clear() and the break on a bad stream are what this rests on.   *)
RunsWholeBatchesInOrder == \A c \in Conns : IsPrefix(ran[c], due[c])

(* out is what the handlers of cmds add, in order: cmds[j]'s from the line *)
(* after end[j - 1] to end[j].                                             *)
Answers(out, cmds) ==
  \E end \in [0..Len(cmds) -> 0..Len(out)] :
    /\ end[0] = 0 /\ end[Len(cmds)] = Len(out)
    /\ \A j \in 1..Len(cmds) :
         /\ end[j - 1] <= end[j]
         /\ SubSeq(out, end[j - 1] + 1, end[j]) \in Replies(cmds[j])

(* One reply for each command, where none lists the domains.               *)
Paired(out, cmds) ==
  (\A j \in 1..Len(cmds) : Handler(cmds[j]) # "DEBUG_DOMAINS")
    => out = [j \in 1..Len(cmds) |-> Handler(cmds[j])]

(* The lines a controller reads before OVER are the replies to the batch   *)
(* it sent last, in its order and no others.  It may pair them with its    *)
(* commands by position as long as none is a DEBUG_DOMAINS, which adds any *)
(* number of lines, or none, with nothing to tell where they end.          *)
AnswersFitTheirBatch ==
  /\ Len(answers) = batch - 1
  /\ \A k \in 1..Len(answers) :
       Answers(answers[k], Batches[k]) /\ Paired(answers[k], Batches[k])

(* Acknowledged batches have run, in order; see AtLeastOnce.               *)
Promise ==
  INSTANCE AtLeastOnce
    WITH acked <- batch - 1,
         since <- SubSeq(log, mark + 1, Len(log))

ImplementsAtLeastOnce == Promise!Spec

(* A batch whose OVER was sent is answered, unless its connection ends.    *)
BatchesAreAnswered ==
  \A b \in 1..Len(Batches), c \in Conns :
    (conn = c /\ batch = b /\ sent = Len(Lines(b)))
      ~> (batch > b \/ c \in lost \/ pc[c] = "closed")
=============================================================================
