------------------------ MODULE CommandSessionProofs ------------------------
(***************************************************************************)
(* What the line protocol guarantees, whatever the batches are and however *)
(* many connections the controller goes through: every connection runs     *)
(* what is due on it in order, the replies read are those to the batches   *)
(* sent, and the abstract AtLeastOnce is implemented.                      *)
(***************************************************************************)
EXTENDS CommandSession, SequenceTheorems, TLAPS

(* The lines of the batches up to the current one.                         *)
LinesOf(k) == {Batches[k][n] : n \in 1..Len(Batches[k])}
Known(b) == UNION {LinesOf(k) : k \in {m \in 1..Len(Batches) : m <= b}}
AnyLine == Line \cup {OVER}
Handlers == {Handler(l) : l \in AnyLine}
Fits(out, cmds) == Answers(out, cmds) /\ Paired(out, cmds)
Since == SubSeq(log, mark + 1, Len(log))
Embeds(s, t) == Promise!Embeds(s, t)

TypeInv ==
  /\ conn \in 0..MaxConns /\ batch \in 1..Len(Batches) + 1 /\ sent \in Nat
  /\ lost \subseteq 1..conn
  /\ wire \in [Conns -> Seq(Known(batch) \cup {OVER})]
  /\ inLines \in [Conns -> Seq(Known(batch))]
  /\ torn \in [Conns -> BOOLEAN]
  /\ back \in [Conns -> Seq(Seq(Handlers))]
  /\ outLines \in [Conns -> Seq(Handlers)]
  /\ answers \in Seq(Seq(Handlers))
  /\ pc \in [Conns -> {"off", "reading", "running", "closed"}]
  /\ i \in [Conns -> Nat \ {0}]
  /\ log \in Seq(AnyLine) /\ mark \in 0..Len(log)
  /\ ran \in [Conns -> Seq(AnyLine)] /\ due \in [Conns -> Seq(AnyLine)]

(* A connection not opened yet has nothing.                                *)
UnopenedInv ==
  \A c \in Conns : c > conn =>
    /\ pc[c] = "off"
    /\ wire[c] = <<>> /\ back[c] = <<>> /\ inLines[c] = <<>>
    /\ ran[c] = <<>> /\ due[c] = <<>>

(* What is still due on a connection is what it has stored, or stored and  *)
(* on its way up to an OVER, be the connection lost or not.                *)
DueOnOver(c) ==
  \A k \in 1..Len(wire[c]) : wire[c][k][1] = "OVER" =>
    /\ k = Len(wire[c])
    /\ due[c] = ran[c] \o (inLines[c] \o SubSeq(wire[c], 1, k - 1))
DueNow(c) ==
  /\ wire[c] = <<>>
  /\ due[c] = ran[c] \o SubSeq(inLines[c], i[c], Len(inLines[c]))
Ordered(c) ==
  /\ IsPrefix(ran[c], due[c])
  /\ pc[c] = "reading" => DueOnOver(c)
  /\ pc[c] = "running" => DueNow(c)
OrderInv == \A c \in Conns : Ordered(c)

(* The stages of a batch on the controller's connection c.                 *)
Sending(c) ==
  /\ pc[c] = "reading" /\ back[c] = <<>> /\ due[c] = ran[c]
  /\ batch <= Len(Batches) => /\ sent <= Len(Batches[batch])
                              /\ inLines[c] \o wire[c] = SubSeq(Batches[batch], 1, sent)
  /\ batch > Len(Batches) => sent = 0 /\ inLines[c] = <<>> /\ wire[c] = <<>>
AllSent == batch <= Len(Batches) /\ sent = Len(Lines(batch))
Sent(c) ==
  /\ pc[c] = "reading" /\ back[c] = <<>> /\ AllSent
  /\ inLines[c] \o wire[c] = Lines(batch)
Running(c) ==
  /\ pc[c] = "running" /\ back[c] = <<>> /\ AllSent
  /\ inLines[c] = Batches[batch]
  /\ i[c] <= Len(inLines[c]) + 1
  /\ Fits(outLines[c], SubSeq(inLines[c], 1, i[c] - 1))
  /\ Embeds(SubSeq(inLines[c], 1, i[c] - 1), Since)
Answered(c) ==
  /\ pc[c] = "reading" /\ AllSent
  /\ inLines[c] = <<>> /\ wire[c] = <<>> /\ due[c] = ran[c]
  /\ \E h \in Seq(Handlers) : back[c] = <<h>> /\ Fits(h, Batches[batch])
  /\ Embeds(Batches[batch], Since)
Ended(c) == pc[c] = "closed" /\ back[c] = <<>> /\ AllSent

Stage(c) == Sending(c) \/ Sent(c) \/ Running(c) \/ Answered(c) \/ Ended(c)
LiveInv == \A c \in Conns : c = conn /\ c \notin lost => Stage(c)

IInv == TypeInv /\ UnopenedInv /\ OrderInv /\ LiveInv /\ AnswersFitTheirBatch

-----------------------------------------------------------------------------
(* Sequences.                                                              *)

(* What moves from the front of t to the end of s stays between them.      *)
LEMMA Moved ==
  ASSUME NEW S, NEW s \in Seq(S), NEW t \in Seq(S), t # <<>>
  PROVE  /\ Head(t) \in S /\ Head(t) = t[1] /\ Len(t) >= 1
         /\ Tail(t) \in Seq(S) /\ Len(Tail(t)) = Len(t) - 1
         /\ Append(s, Head(t)) \in Seq(S)
         /\ Append(s, Head(t)) \o Tail(t) = s \o t
         /\ \A k \in 1..Len(Tail(t)) :
              /\ Tail(t)[k] = t[k + 1]
              /\ Append(s, Head(t)) \o SubSeq(Tail(t), 1, k - 1) = s \o SubSeq(t, 1, k)
<1> DEFINE a == Append(s, Head(t))
<1>1. /\ Head(t) \in S /\ Head(t) = t[1] /\ Len(t) \in Nat /\ Len(t) >= 1
      /\ Tail(t) \in Seq(S) /\ Len(Tail(t)) = Len(t) - 1
      /\ \A k \in 1..Len(Tail(t)) : Tail(t)[k] = t[k + 1]
  BY HeadTailProperties, LenProperties
<1>2. a \in Seq(S) /\ <<t[1]>> \in Seq(S) /\ a = s \o <<t[1]>>
  BY <1>1, AppendProperties, AppendIsConcat
<1> HIDE DEF a
<1>3. ASSUME NEW n \in 0..Len(Tail(t))
      PROVE  a \o SubSeq(Tail(t), 1, n) = s \o SubSeq(t, 1, n + 1)
  <2> DEFINE u == SubSeq(Tail(t), 1, n)
             v == SubSeq(t, 2, n + 1)
  <2>1. n \in Nat /\ n + 1 \in 1..Len(t) /\ n + 1 - 2 + 1 = n
    BY <1>1
  <2>2. \A k \in 1..n : Tail(t)[k] \in S /\ Tail(t)[k] = t[k + 1]
    BY <1>1, <2>1, ElementOfSeq
  <2>3. \A k \in 2..n + 1 : t[k] \in S
    BY <2>1, ElementOfSeq
  <2>4. /\ u \in Seq(S) /\ Len(u) = n
        /\ \A k \in 1..n - 1 + 1 : u[k] = Tail(t)[1 + k - 1]
    BY <2>1, <2>2, SubSeqProperties
  <2>5. /\ v \in Seq(S) /\ Len(v) = n
        /\ \A k \in 1..n + 1 - 2 + 1 : v[k] = t[2 + k - 1]
    BY <2>1, <2>3, SubSeqProperties
  <2> HIDE DEF u, v
  <2>6. ASSUME NEW k \in 1..n PROVE u[k] = v[k]
    <3>1. k \in 1..n - 1 + 1 /\ k \in 1..n + 1 - 2 + 1 /\ 1 + k - 1 = k /\ 2 + k - 1 = k + 1
      BY <2>1
    <3> QED BY <3>1, <2>2, <2>4, <2>5
  <2>7. u = v
    BY <2>4, <2>5, <2>6, SeqEqual
  <2>8. SubSeq(t, 1, n + 1) = <<t[1]>> \o SubSeq(t, 1 + 1, n + 1)
    BY <2>1, <1>1, SubSeqRecursiveFirst
  <2>9. a \o v = s \o (<<t[1]>> \o v)
    BY <1>2, <2>5, ConcatAssociative
  <2> QED BY <2>7, <2>8, <2>9 DEF u, v
<1>4. a \o Tail(t) = s \o t
  <2>1. Len(Tail(t)) \in 0..Len(Tail(t)) /\ Len(Tail(t)) + 1 = Len(t)
    BY <1>1
  <2>2. SubSeq(Tail(t), 1, Len(Tail(t))) = Tail(t) /\ SubSeq(t, 1, Len(t)) = t
    BY <1>1, SubSeqFull
  <2> QED BY <2>1, <1>3, <2>2
<1>5. ASSUME NEW k \in 1..Len(Tail(t))
      PROVE  a \o SubSeq(Tail(t), 1, k - 1) = s \o SubSeq(t, 1, k)
  <2>1. k - 1 \in 0..Len(Tail(t)) /\ k - 1 + 1 = k
    BY <1>1
  <2> QED BY <2>1, <1>3
<1> QED BY <1>1, <1>2, <1>4, <1>5 DEF a

(* A prefix, and the line after it.                                        *)
LEMMA OneLineMore ==
  ASSUME NEW S, NEW b \in Seq(S), NEW n \in 0..Len(b) - 1
  PROVE  /\ SubSeq(b, 1, n) \in Seq(S) /\ Len(SubSeq(b, 1, n)) = n
         /\ SubSeq(b, 1, n + 1) = Append(SubSeq(b, 1, n), b[n + 1])
<1>1. Len(b) \in Nat /\ n + 1 \in 1..Len(b) /\ b[n + 1] \in S
  BY LenProperties
<1>2. SubSeq(b, 1, n) \in Seq(S) /\ Len(SubSeq(b, 1, n)) = n
  BY <1>1, SubSeqProperties
<1>3. SubSeq(b, 1, n + 1) = SubSeq(b, 1, n + 1 - 1) \o <<b[n + 1]>>
  BY <1>1, SubSeqRecursiveSecond
<1>4. n + 1 - 1 = n
  OBVIOUS
<1>5. Append(SubSeq(b, 1, n), b[n + 1]) = SubSeq(b, 1, n) \o <<b[n + 1]>>
  BY <1>1, <1>2, AppendIsConcat
<1> QED BY <1>2, <1>3, <1>4, <1>5

LEMMA AppendToConcat ==
  ASSUME NEW S, NEW s \in Seq(S), NEW t \in Seq(S), NEW x \in S
  PROVE  s \o Append(t, x) = Append(s \o t, x)
<1>1. s \o t \in Seq(S) /\ <<x>> \in Seq(S)
  BY ConcatProperties
<1> QED BY <1>1, AppendIsConcat, ConcatAssociative

(* What is run next leaves the rest due.                                   *)
LEMMA OneRun ==
  ASSUME NEW S, NEW r \in Seq(S), NEW u \in Seq(S), NEW k \in 1..Len(u)
  PROVE  /\ u[k] \in S /\ Append(r, u[k]) \in Seq(S)
         /\ SubSeq(u, k + 1, Len(u)) \in Seq(S)
         /\ r \o SubSeq(u, k, Len(u)) = Append(r, u[k]) \o SubSeq(u, k + 1, Len(u))
<1>1. Len(u) \in Nat /\ u[k] \in S /\ Len(u) \in k..Len(u) /\ k + 1 \in Int /\ <<u[k]>> \in Seq(S)
      /\ \A n \in k + 1..Len(u) : u[n] \in S
  BY LenProperties
<1>2. Append(r, u[k]) \in Seq(S) /\ Append(r, u[k]) = r \o <<u[k]>>
  BY <1>1, AppendProperties, AppendIsConcat
<1>3. SubSeq(u, k, Len(u)) = <<u[k]>> \o SubSeq(u, k + 1, Len(u))
  BY <1>1, SubSeqRecursiveFirst
<1>4. SubSeq(u, k + 1, Len(u)) \in Seq(S)
  BY <1>1, SubSeqProperties
<1> DEFINE v == SubSeq(u, k + 1, Len(u))
           x == <<u[k]>>
<1>5. v \in Seq(S) /\ x \in Seq(S)
  BY <1>1, <1>4
<1> HIDE DEF v, x
<1>6. (r \o x) \o v = r \o (x \o v)
  <2>1. ASSUME NEW p \in Seq(S), NEW q \in Seq(S) PROVE (r \o p) \o q = r \o (p \o q)
    BY ConcatAssociative, SMTT(20)
  <2> QED BY <1>5, <2>1
<1>7. SubSeq(u, k, Len(u)) = x \o v
  BY <1>3 DEF v, x
<1>8. Append(r, u[k]) = r \o x
  BY <1>2 DEF x
<1>9. r \o SubSeq(u, k, Len(u)) = Append(r, u[k]) \o v
  BY <1>6, <1>7, <1>8
<1> QED BY <1>1, <1>2, <1>5, <1>9 DEF v

LEMMA PrefixOfConcat ==
  ASSUME NEW S, NEW s \in Seq(S), NEW t \in Seq(S)
  PROVE  IsPrefix(s, s \o t)
<1>1. /\ s \o t \in Seq(S) /\ Len(s \o t) = Len(s) + Len(t)
      /\ \A k \in 1..Len(s) : (s \o t)[k] = s[k]
      /\ Len(s) \in Nat /\ Len(t) \in Nat
  BY ConcatProperties, LenProperties
<1> DEFINE p == SubSeq(s \o t, 1, Len(s))
<1>2. \A k \in 1..Len(s) : (s \o t)[k] \in S
  BY <1>1, LenProperties
<1>3. /\ p \in Seq(S) /\ Len(p) = Len(s)
      /\ \A k \in 1..Len(s) : p[k] = (s \o t)[1 + k - 1]
  BY <1>1, <1>2, SubSeqProperties
<1> HIDE DEF p
<1>4. p = s
  BY <1>1, <1>3, SeqEqual
<1>5. SubSeq(s, 1, Len(s)) = s
  BY SubSeqFull
<1> QED BY <1>1, <1>4, <1>5 DEF IsPrefix, p

LEMMA LaterRun ==
  ASSUME NEW S, NEW s \in Seq(S), NEW x \in S, NEW m \in 0..Len(s)
  PROVE  /\ SubSeq(s, m + 1, Len(s)) \in Seq(S)
         /\ SubSeq(Append(s, x), m + 1, Len(Append(s, x))) = Append(SubSeq(s, m + 1, Len(s)), x)
<1> DEFINE a == Append(s, x)
           u == SubSeq(s, m + 1, Len(s))
           v == SubSeq(a, m + 1, Len(a))
<1>1. Len(s) \in Nat /\ m + 1 \in Int /\ \A k \in 1..Len(s) : s[k] \in S
  BY LenProperties
<1>2. /\ a \in Seq(S) /\ Len(a) = Len(s) + 1
      /\ \A k \in 1..Len(s) : a[k] = s[k]
      /\ a[Len(s) + 1] = x
  BY AppendProperties
<1> HIDE DEF a
<1>3. /\ u \in Seq(S) /\ Len(u) = Len(s) - m
      /\ \A k \in 1..Len(s) - m : u[k] = s[m + k]
  BY <1>1, SubSeqProperties
<1>4. /\ v \in Seq(S) /\ Len(v) = Len(s) + 1 - m
      /\ \A k \in 1..Len(s) + 1 - m : v[k] = a[m + k]
  <2>1. \A k \in m + 1..Len(a) : a[k] \in S
    BY <1>1, <1>2, ElementOfSeq
  <2> QED BY <2>1, <1>1, <1>2, SubSeqProperties
<1> HIDE DEF u, v
<1>5. /\ Append(u, x) \in Seq(S) /\ Len(Append(u, x)) = Len(u) + 1
      /\ \A k \in 1..Len(u) : Append(u, x)[k] = u[k]
      /\ Append(u, x)[Len(u) + 1] = x
  BY <1>3, AppendProperties
<1>6. ASSUME NEW k \in 1..Len(v) PROVE v[k] = Append(u, x)[k]
  <2>1. CASE k <= Len(u)
    BY <2>1, <1>1, <1>2, <1>3, <1>4, <1>5
  <2>2. CASE k = Len(u) + 1
    BY <2>2, <1>1, <1>2, <1>3, <1>4, <1>5
  <2> QED BY <2>1, <2>2, <1>1, <1>3, <1>4
<1>7. Len(v) = Len(Append(u, x))
  BY <1>1, <1>3, <1>4, <1>5
<1>8. v = Append(u, x)
  BY <1>4, <1>5, <1>6, <1>7, SeqEqual
<1> QED BY <1>3, <1>8 DEF a, u, v

-----------------------------------------------------------------------------
(* What embeds in the lines run still does when more are run.              *)

LEMMA NothingEmbeds == ASSUME NEW t, Len(t) \in Nat PROVE Embeds(<<>>, t)
<1> DEFINE p == [k \in {} |-> 0]
<1>1. Len(<<>>) = 0 /\ 1..0 = {}
  OBVIOUS
<1>2. p \in [1..Len(<<>>) -> 1..Len(t)] /\ \A k \in 1..Len(<<>>) : FALSE
  BY <1>1
<1> HIDE DEF p
<1> QED BY <1>2 DEF Embeds, Promise!Embeds

LEMMA EmbedsLater ==
  ASSUME NEW S, NEW s \in Seq(S), NEW t \in Seq(S), NEW x \in S, Embeds(s, t)
  PROVE  Embeds(s, Append(t, x))
<1>1. PICK p \in [1..Len(s) -> 1..Len(t)] :
        /\ \A k, n \in 1..Len(s) : k < n => p[k] < p[n]
        /\ \A k \in 1..Len(s) : t[p[k]] = s[k]
  BY DEF Embeds, Promise!Embeds
<1>2. /\ Len(Append(t, x)) = Len(t) + 1 /\ Len(t) \in Nat
      /\ \A k \in 1..Len(t) : Append(t, x)[k] = t[k]
  BY AppendProperties, LenProperties
<1>3. p \in [1..Len(s) -> 1..Len(Append(t, x))]
  BY <1>2
<1>4. \A k \in 1..Len(s) : Append(t, x)[p[k]] = s[k]
  BY <1>1, <1>2
<1> QED BY <1>1, <1>3, <1>4 DEF Embeds, Promise!Embeds

LEMMA EmbedsNext ==
  ASSUME NEW S, NEW s \in Seq(S), NEW t \in Seq(S), NEW x \in S, Embeds(s, t)
  PROVE  Embeds(Append(s, x), Append(t, x))
<1>1. PICK p \in [1..Len(s) -> 1..Len(t)] :
        /\ \A k, n \in 1..Len(s) : k < n => p[k] < p[n]
        /\ \A k \in 1..Len(s) : t[p[k]] = s[k]
  BY DEF Embeds, Promise!Embeds
<1> DEFINE a == Append(s, x)
           b == Append(t, x)
           q == [k \in 1..Len(s) + 1 |-> IF k <= Len(s) THEN p[k] ELSE Len(t) + 1]
<1>2. /\ Len(a) = Len(s) + 1 /\ Len(s) \in Nat
      /\ \A k \in 1..Len(s) : a[k] = s[k]
      /\ a[Len(s) + 1] = x
  BY AppendProperties, LenProperties
<1>3. /\ Len(b) = Len(t) + 1 /\ Len(t) \in Nat
      /\ \A k \in 1..Len(t) : b[k] = t[k]
      /\ b[Len(t) + 1] = x
  BY AppendProperties, LenProperties
<1> HIDE DEF a, b
<1>4. \A k \in 1..Len(s) : q[k] = p[k] /\ p[k] \in 1..Len(t)
  BY <1>2
<1>5. q[Len(s) + 1] = Len(t) + 1
  BY <1>2
<1>6. q \in [1..Len(a) -> 1..Len(b)]
  BY <1>2, <1>3
<1> HIDE DEF q
<1>7. ASSUME NEW k \in 1..Len(a), NEW n \in 1..Len(a), k < n PROVE q[k] < q[n]
  <2>1. k \in 1..Len(s) /\ (n \in 1..Len(s) \/ n = Len(s) + 1)
    BY <1>7, <1>2
  <2>2. CASE n \in 1..Len(s)
    BY <2>1, <2>2, <1>1, <1>4, <1>7
  <2>3. CASE n = Len(s) + 1
    BY <2>1, <2>3, <1>3, <1>4, <1>5
  <2> QED BY <2>1, <2>2, <2>3
<1>8. ASSUME NEW k \in 1..Len(a) PROVE b[q[k]] = a[k]
  <2>1. k \in 1..Len(s) \/ k = Len(s) + 1
    BY <1>2
  <2>2. CASE k \in 1..Len(s)
    <3>1. q[k] = p[k] /\ p[k] \in 1..Len(t) /\ a[k] = s[k] /\ t[p[k]] = s[k]
      BY <2>2, <1>1, <1>2, <1>4
    <3> QED BY <3>1, <1>3
  <2>3. CASE k = Len(s) + 1
    BY <2>3, <1>2, <1>3, <1>5
  <2> QED BY <2>1, <2>2, <2>3
<1>9. Embeds(a, b)
  BY <1>6, <1>7, <1>8 DEF Embeds, Promise!Embeds
<1> QED BY <1>9 DEF a, b

(* The replies: nothing answers no command, and what a handler adds for    *)
(* the next command answers it.                                            *)
LEMMA FitsNone == Fits(<<>>, <<>>)
<1>1. Len(<<>>) = 0
  OBVIOUS
<1>2. Answers(<<>>, <<>>)
  <2> DEFINE end == [j \in 0..0 |-> 0]
  <2>1. end \in [0..Len(<<>>) -> 0..Len(<<>>)] /\ end[0] = 0
    BY <1>1
  <2> HIDE DEF end
  <2> QED BY <2>1, <1>1 DEF Answers
<1>3. Paired(<<>>, <<>>)
  <2>1. [j \in 1..0 |-> Handler(<<>>[j])] = <<>>
    OBVIOUS
  <2> QED BY <2>1, <1>1 DEF Paired
<1> QED BY <1>2, <1>3 DEF Fits

LEMMA RepliesOf ==
  ASSUME NEW x \in AnyLine, NEW r \in Replies(x)
  PROVE  /\ r \in Seq(Handlers)
         /\ Handler(x) # "DEBUG_DOMAINS" => r = <<Handler(x)>>
<1>1. Handler(x) \in Handlers
  BY DEF Handlers
<1>2. PICK m \in IF Handler(x) = "DEBUG_DOMAINS" THEN 0..MaxListed ELSE {1} :
        r = [k \in 1..m |-> Handler(x)]
  BY DEF Replies
<1>3. m \in Nat
  BY <1>2, MaxListedAssumption
<1>4. r \in Seq(Handlers)
  BY <1>1, <1>2, <1>3
<1>5. ASSUME Handler(x) # "DEBUG_DOMAINS" PROVE r = <<Handler(x)>>
  BY <1>2, <1>5
<1> QED BY <1>4, <1>5

(* What is concatenated is found again.                                    *)
LEMMA PartsOfConcat ==
  ASSUME NEW S, NEW s \in Seq(S), NEW t \in Seq(S)
  PROVE  /\ \A a, b \in 0..Len(s) : a <= b => SubSeq(s \o t, a + 1, b) = SubSeq(s, a + 1, b)
         /\ SubSeq(s \o t, Len(s) + 1, Len(s \o t)) = t
<1> DEFINE u == s \o t
<1>1. /\ u \in Seq(S) /\ Len(u) = Len(s) + Len(t) /\ Len(s) \in Nat /\ Len(t) \in Nat
      /\ \A k \in 1..Len(s) : u[k] = s[k]
      /\ \A k \in 1..Len(t) : u[Len(s) + k] = t[k]
      /\ \A k \in 1..Len(s) : s[k] \in S
      /\ \A k \in 1..Len(u) : u[k] \in S
  <2>1. /\ u \in Seq(S) /\ Len(u) = Len(s) + Len(t) /\ Len(s) \in Nat /\ Len(t) \in Nat
        /\ \A k \in 1..Len(s) + Len(t) : u[k] = IF k <= Len(s) THEN s[k] ELSE t[k - Len(s)]
    BY ConcatProperties, LenProperties
  <2> HIDE DEF u
  <2>2. \A k \in 1..Len(u) : u[k] \in S
    BY <2>1, ElementOfSeq
  <2>3. \A k \in 1..Len(s) : s[k] \in S
    BY ElementOfSeq
  <2>4. \A k \in 1..Len(s) : u[k] = s[k]
    BY <2>1
  <2>5. \A k \in 1..Len(t) : u[Len(s) + k] = t[k]
    BY <2>1
  <2> QED BY <2>1, <2>2, <2>3, <2>4, <2>5
<1> HIDE DEF u
<1>2. ASSUME NEW a \in 0..Len(s), NEW b \in 0..Len(s), a <= b
      PROVE  SubSeq(u, a + 1, b) = SubSeq(s, a + 1, b)
  <2> DEFINE v == SubSeq(u, a + 1, b)
             w == SubSeq(s, a + 1, b)
  <2>1. /\ a + 1 \in Int /\ b \in Int
        /\ \A k \in a + 1..b : u[k] \in S /\ s[k] \in S /\ u[k] = s[k]
    BY <1>1
  <2>2. /\ v \in Seq(S) /\ Len(v) = IF a + 1 <= b THEN b - (a + 1) + 1 ELSE 0
        /\ \A k \in 1..b - (a + 1) + 1 : v[k] = u[a + 1 + k - 1]
    BY <2>1, SubSeqProperties
  <2>3. /\ w \in Seq(S) /\ Len(w) = IF a + 1 <= b THEN b - (a + 1) + 1 ELSE 0
        /\ \A k \in 1..b - (a + 1) + 1 : w[k] = s[a + 1 + k - 1]
    BY <2>1, SubSeqProperties
  <2> HIDE DEF v, w
  <2>4. Len(v) = Len(w)
    BY <2>2, <2>3
  <2>5. ASSUME NEW k \in 1..Len(v) PROVE v[k] = w[k]
    <3>1. k \in 1..b - (a + 1) + 1 /\ a + 1 + k - 1 \in a + 1..b
      BY <2>2
    <3> QED BY <3>1, <2>1, <2>2, <2>3
  <2>6. v = w
    BY <2>2, <2>3, <2>4, <2>5, SeqEqual
  <2> QED BY <2>6 DEF v, w
<1>3. SubSeq(u, Len(s) + 1, Len(u)) = t
  <2> DEFINE v == SubSeq(u, Len(s) + 1, Len(u))
  <2>1. /\ Len(s) + 1 \in Int /\ Len(u) \in Int
        /\ \A k \in Len(s) + 1..Len(u) : u[k] \in S
    BY <1>1
  <2>2. /\ v \in Seq(S)
        /\ Len(v) = IF Len(s) + 1 <= Len(u) THEN Len(u) - (Len(s) + 1) + 1 ELSE 0
        /\ \A k \in 1..Len(u) - (Len(s) + 1) + 1 : v[k] = u[Len(s) + 1 + k - 1]
    BY <2>1, SubSeqProperties
  <2> HIDE DEF v
  <2>3. Len(v) = Len(t)
    BY <2>2, <1>1
  <2>4. ASSUME NEW k \in 1..Len(v) PROVE v[k] = t[k]
    <3>1. /\ k \in 1..Len(u) - (Len(s) + 1) + 1 /\ k \in 1..Len(t)
          /\ Len(s) + 1 + k - 1 = Len(s) + k
      BY <2>3, <1>1
    <3> QED BY <3>1, <2>2, <1>1
  <2>5. v = t
    BY <2>2, <2>3, <2>4, <1>1, SeqEqual
  <2> QED BY <2>5 DEF v
<1> QED BY <1>2, <1>3 DEF u

LEMMA FitsNext ==
  ASSUME NEW cmds \in Seq(AnyLine), NEW x \in AnyLine,
         NEW out \in Seq(Handlers), NEW r \in Replies(x), Fits(out, cmds)
  PROVE  out \o r \in Seq(Handlers) /\ Fits(out \o r, Append(cmds, x))
<1> DEFINE all == out \o r
           next == Append(cmds, x)
<1>1. r \in Seq(Handlers) /\ (Handler(x) # "DEBUG_DOMAINS" => r = <<Handler(x)>>)
  BY RepliesOf
<1>2. /\ all \in Seq(Handlers) /\ Len(all) = Len(out) + Len(r)
      /\ Len(out) \in Nat /\ Len(r) \in Nat
      /\ \A k \in 1..Len(out) : all[k] = out[k]
      /\ \A k \in 1..Len(r) : all[Len(out) + k] = r[k]
      /\ \A a, b \in 0..Len(out) : a <= b => SubSeq(all, a + 1, b) = SubSeq(out, a + 1, b)
      /\ SubSeq(all, Len(out) + 1, Len(all)) = r
  BY <1>1, ConcatProperties, LenProperties, PartsOfConcat
<1>3. /\ next \in Seq(AnyLine) /\ Len(next) = Len(cmds) + 1 /\ Len(cmds) \in Nat
      /\ \A k \in 1..Len(cmds) : next[k] = cmds[k]
      /\ next[Len(cmds) + 1] = x
  BY AppendProperties, LenProperties
<1> HIDE DEF all, next
<1>4. Answers(all, next)
  <2>1. PICK end \in [0..Len(cmds) -> 0..Len(out)] :
          /\ end[0] = 0 /\ end[Len(cmds)] = Len(out)
          /\ \A j \in 1..Len(cmds) :
               /\ end[j - 1] <= end[j]
               /\ SubSeq(out, end[j - 1] + 1, end[j]) \in Replies(cmds[j])
    BY DEF Fits, Answers
  <2> DEFINE new == [j \in 0..Len(next) |-> IF j \in 0..Len(cmds) THEN end[j] ELSE Len(all)]
  <2>2. /\ new \in [0..Len(next) -> 0..Len(all)]
        /\ \A j \in 0..Len(cmds) : new[j] = end[j]
        /\ new[Len(next)] = Len(all)
    BY <2>1, <1>2, <1>3
  <2> HIDE DEF new
  <2>3. new[0] = 0
    BY <2>1, <2>2, <1>3
  <2>4. ASSUME NEW j \in 1..Len(next)
        PROVE  /\ new[j - 1] <= new[j]
               /\ SubSeq(all, new[j - 1] + 1, new[j]) \in Replies(next[j])
    <3>1. CASE j \in 1..Len(cmds)
      <4>0. j - 1 \in 0..Len(cmds) /\ j \in 0..Len(cmds)
        BY <3>1, <1>3
      <4>1. /\ new[j - 1] = end[j - 1] /\ new[j] = end[j] /\ next[j] = cmds[j]
            /\ end[j - 1] \in 0..Len(out) /\ end[j] \in 0..Len(out)
            /\ end[j - 1] <= end[j]
        BY <4>0, <3>1, <2>1, <2>2, <1>3
      <4>2. SubSeq(all, end[j - 1] + 1, end[j]) = SubSeq(out, end[j - 1] + 1, end[j])
        BY <4>1, <1>2
      <4> QED BY <4>1, <4>2, <3>1, <2>1
    <3>2. CASE j = Len(cmds) + 1
      <4>0. j - 1 = Len(cmds) /\ j = Len(next) /\ Len(cmds) \in 0..Len(cmds)
        BY <3>2, <1>3
      <4>1. new[j - 1] = Len(out) /\ new[j] = Len(all) /\ next[j] = x
        BY <4>0, <3>2, <2>1, <2>2, <1>3
      <4>2. Len(out) <= Len(all)
        BY <1>2
      <4>3. SubSeq(all, Len(out) + 1, Len(all)) = r
        BY <1>2
      <4>4. SubSeq(all, Len(out) + 1, Len(all)) \in Replies(x)
        BY <4>3
      <4> QED BY <4>1, <4>2, <4>4
    <3> QED BY <3>1, <3>2, <1>3
  <2> QED BY <2>2, <2>3, <2>4 DEF Answers
<1>5. Paired(all, next)
  <2> SUFFICES ASSUME \A j \in 1..Len(next) : Handler(next[j]) # "DEBUG_DOMAINS"
               PROVE  all = [j \in 1..Len(next) |-> Handler(next[j])]
    BY DEF Paired
  <2>1. \A j \in 1..Len(cmds) : Handler(cmds[j]) # "DEBUG_DOMAINS"
    BY <1>3
  <2>2. out = [j \in 1..Len(cmds) |-> Handler(cmds[j])]
    BY <2>1 DEF Fits, Paired
  <2>3. Handler(x) # "DEBUG_DOMAINS"
    BY <1>3
  <2>4. r = <<Handler(x)>>
    BY <2>3, <1>1
  <2>5. Len(out) = Len(cmds) /\ \A j \in 1..Len(cmds) : out[j] = Handler(cmds[j])
    BY <2>2, <1>2, <1>3
  <2>6. Len(r) = 1 /\ r[1] = Handler(x)
    BY <2>4
  <2>7. Len(all) = Len(next)
    BY <2>5, <2>6, <1>2, <1>3
  <2>8. ASSUME NEW j \in 1..Len(next) PROVE all[j] = Handler(next[j])
    <3>1. CASE j \in 1..Len(cmds)
      BY <3>1, <2>5, <1>2, <1>3
    <3>2. CASE j = Len(cmds) + 1
      BY <3>2, <2>5, <2>6, <1>2, <1>3
    <3> QED BY <3>1, <3>2, <1>3
  <2> QED BY <2>7, <2>8, <1>2
<1> QED BY <1>2, <1>4, <1>5 DEF Fits, all, next

-----------------------------------------------------------------------------
(* Lines.                                                                  *)

LEMMA KnownLines ==
  ASSUME NEW b \in Int
  PROVE  /\ OVER \in AnyLine /\ OVER[1] = "OVER"
         /\ Known(b) \subseteq AnyLine /\ Known(b) \cup {OVER} \subseteq AnyLine
         /\ Known(b) \subseteq Known(b + 1)
         /\ \A l \in Known(b) : l[1] # "OVER"
         /\ \A l \in Known(b) : \E k \in 1..Len(Batches) : \E n \in 1..Len(Batches[k]) :
              k <= b /\ l = Batches[k][n]
         /\ b \in 1..Len(Batches) => /\ Batches[b] \in Seq(AnyLine)
                                    /\ Len(Batches[b]) \in Nat
                                    /\ \A n \in 1..Len(Batches[b]) : Batches[b][n] \in Known(b)
<1>1. OVER \in AnyLine /\ OVER[1] = "OVER"
  <2>1. <<"OVER">>[1] = "OVER"
    OBVIOUS
  <2> QED BY <2>1 DEF OVER, AnyLine
<1>2. \A k \in 1..Len(Batches) : Batches[k] \in Seq(AnyLine)
  <2>1. \A k \in 1..Len(Batches) : Batches[k] \in Seq(Line)
    BY BatchesAssumption, ElementOfSeq
  <2>2. Line \subseteq AnyLine
    BY DEF AnyLine
  <2> QED BY <2>1, <2>2, SeqMonotonic
<1>3. \A k \in 1..Len(Batches) : \A n \in 1..Len(Batches[k]) :
        Batches[k][n] \in AnyLine /\ Batches[k][n][1] # "OVER"
  BY <1>2, BatchesAssumption, LenProperties
<1>4. \A l \in Known(b) : \E k \in 1..Len(Batches) : \E n \in 1..Len(Batches[k]) :
        k <= b /\ l = Batches[k][n]
  BY DEF Known, LinesOf
<1>5. Known(b) \subseteq Known(b + 1)
  <2>1. {m \in 1..Len(Batches) : m <= b} \subseteq {m \in 1..Len(Batches) : m <= b + 1}
    OBVIOUS
  <2> QED BY <2>1, Zenon DEF Known
<1>6. \A l \in Known(b) : l \in AnyLine /\ l[1] # "OVER"
  BY <1>3, <1>4
<1>7. ASSUME b \in 1..Len(Batches)
      PROVE  /\ Batches[b] \in Seq(AnyLine)
             /\ Len(Batches[b]) \in Nat
             /\ \A n \in 1..Len(Batches[b]) : Batches[b][n] \in Known(b)
  <2>1. Batches[b] \in Seq(AnyLine) /\ Len(Batches[b]) \in Nat
    BY <1>2, <1>7, LenProperties
  <2>2. \A n \in 1..Len(Batches[b]) : Batches[b][n] \in Known(b)
    BY <1>7 DEF Known, LinesOf
  <2> QED BY <2>1, <2>2
<1> QED BY <1>1, <1>4, <1>5, <1>6, <1>7

(* What a connection holds is lines, the last of the batch being OVER.     *)
LEMMA Typed ==
  ASSUME TypeInv
  PROVE  /\ batch \in Int /\ sent \in Nat /\ conn \in Int
         /\ batch <= Len(Batches) =>
              /\ batch \in 1..Len(Batches) /\ Batches[batch] \in Seq(AnyLine)
              /\ Lines(batch) \in Seq(AnyLine)
              /\ Len(Lines(batch)) = Len(Batches[batch]) + 1
              /\ Len(Batches[batch]) \in Nat
              /\ Lines(batch)[Len(Batches[batch]) + 1] = OVER
              /\ \A n \in 1..Len(Batches[batch]) :
                   /\ Lines(batch)[n] = Batches[batch][n]
                   /\ Batches[batch][n] \in Known(batch)
         /\ \A c \in Conns : /\ wire[c] \in Seq(AnyLine) /\ inLines[c] \in Seq(AnyLine)
                             /\ wire[c] \in Seq(Known(batch) \cup {OVER})
                             /\ inLines[c] \in Seq(Known(batch))
                             /\ ran[c] \in Seq(AnyLine) /\ due[c] \in Seq(AnyLine)
         /\ Since \in Seq(AnyLine)
<1>1. Len(Batches) \in Nat /\ batch \in Int /\ sent \in Nat /\ conn \in Int
  BY BatchesAssumption, LenProperties, MaxConnsAssumption DEF TypeInv
<1>2. ASSUME batch <= Len(Batches)
      PROVE  /\ batch \in 1..Len(Batches) /\ Batches[batch] \in Seq(AnyLine)
             /\ Lines(batch) \in Seq(AnyLine)
             /\ Len(Lines(batch)) = Len(Batches[batch]) + 1
             /\ Len(Batches[batch]) \in Nat
             /\ Lines(batch)[Len(Batches[batch]) + 1] = OVER
             /\ \A n \in 1..Len(Batches[batch]) :
                  /\ Lines(batch)[n] = Batches[batch][n]
                  /\ Batches[batch][n] \in Known(batch)
  <2>1. batch \in 1..Len(Batches)
    BY <1>1, <1>2 DEF TypeInv
  <2>2. /\ Batches[batch] \in Seq(AnyLine) /\ Len(Batches[batch]) \in Nat
        /\ \A n \in 1..Len(Batches[batch]) : Batches[batch][n] \in Known(batch)
        /\ OVER \in AnyLine
    BY <2>1, <1>1, KnownLines
  <2>3. /\ Append(Batches[batch], OVER) \in Seq(AnyLine)
        /\ Len(Append(Batches[batch], OVER)) = Len(Batches[batch]) + 1
        /\ \A n \in 1..Len(Batches[batch]) :
             Append(Batches[batch], OVER)[n] = Batches[batch][n]
        /\ Append(Batches[batch], OVER)[Len(Batches[batch]) + 1] = OVER
    BY <2>2, AppendProperties
  <2> QED BY <2>1, <2>2, <2>3 DEF Lines
<1>3. ASSUME NEW c \in Conns
      PROVE  /\ wire[c] \in Seq(AnyLine) /\ inLines[c] \in Seq(AnyLine)
             /\ wire[c] \in Seq(Known(batch) \cup {OVER})
             /\ inLines[c] \in Seq(Known(batch))
             /\ ran[c] \in Seq(AnyLine) /\ due[c] \in Seq(AnyLine)
  <2>1. /\ wire[c] \in Seq(Known(batch) \cup {OVER})
        /\ inLines[c] \in Seq(Known(batch))
        /\ ran[c] \in Seq(AnyLine) /\ due[c] \in Seq(AnyLine)
    BY DEF TypeInv
  <2>2. Known(batch) \subseteq AnyLine /\ Known(batch) \cup {OVER} \subseteq AnyLine
    BY <1>1, KnownLines
  <2>3. inLines[c] \in Seq(AnyLine)
    BY <2>1, <2>2, SeqMonotonic
  <2>4. wire[c] \in Seq(AnyLine)
    BY <2>1, <2>2, SeqMonotonic
  <2> QED BY <2>1, <2>3, <2>4
<1>4. Since \in Seq(AnyLine)
  <2>1. /\ Len(log) \in Nat /\ mark + 1 \in Int
        /\ \A k \in mark + 1..Len(log) : log[k] \in AnyLine
    BY LenProperties DEF TypeInv
  <2>2. SubSeq(log, mark + 1, Len(log)) \in Seq(AnyLine)
    BY <2>1, SubSeqProperties
  <2> QED BY <2>2 DEF Since
<1> QED BY <1>1, <1>2, <1>3, <1>4

LEMMA InitInv == Init => IInv
<1> SUFFICES ASSUME Init PROVE IInv
  OBVIOUS
<1>1. Len(Batches) \in Nat /\ MaxConns \in Nat
  BY BatchesAssumption, LenProperties, MaxConnsAssumption
<1>2. /\ <<>> \in Seq(Known(batch) \cup {OVER}) /\ <<>> \in Seq(Known(batch))
      /\ <<>> \in Seq(Seq(Handlers)) /\ <<>> \in Seq(Handlers) /\ <<>> \in Seq(AnyLine)
      /\ Len(<<>>) = 0
  BY EmptySeq
<1>3. TypeInv
  BY <1>1, <1>2 DEF Init, TypeInv
<1>4. UnopenedInv
  BY DEF Init, UnopenedInv
<1>5. OrderInv
  <2>1. <<>> \o <<>> = <<>>
    BY ConcatEmptySeq, <1>2
  <2>2. IsPrefix(<<>>, <<>>)
    BY <2>1, <1>2, PrefixOfConcat
  <2>3. \A c \in Conns : ran[c] = <<>> /\ due[c] = <<>> /\ pc[c] = "off"
    BY DEF Init
  <2> QED BY <2>2, <2>3 DEF OrderInv, Ordered
<1>6. LiveInv
  BY <1>1 DEF Init, LiveInv, Conns
<1>7. AnswersFitTheirBatch
  BY <1>2 DEF Init, AnswersFitTheirBatch
<1> QED BY <1>3, <1>4, <1>5, <1>6, <1>7 DEF IInv

-----------------------------------------------------------------------------
(* A connection nothing happens to stays as it is.                         *)

Same(c) ==
  /\ pc'[c] = pc[c] /\ wire'[c] = wire[c] /\ inLines'[c] = inLines[c]
  /\ i'[c] = i[c] /\ outLines'[c] = outLines[c] /\ back'[c] = back[c]
  /\ due'[c] = due[c] /\ ran'[c] = ran[c]

LEMMA StaysOrdered == ASSUME NEW c \in Conns, Same(c), Ordered(c) PROVE Ordered(c)'
BY DEF Same, Ordered, DueOnOver, DueNow

(* More lines may have been run meanwhile, by other connections.           *)
MoreRun == log' = log \/ \E x \in AnyLine : log' = Append(log, x)

LEMMA SinceGrows ==
  ASSUME TypeInv, UNCHANGED mark, NEW x \in AnyLine, log' = Append(log, x)
  PROVE  Since \in Seq(AnyLine) /\ Since' = Append(Since, x)
<1>1. log \in Seq(AnyLine) /\ mark \in 0..Len(log)
  BY DEF TypeInv
<1>2. /\ SubSeq(log, mark + 1, Len(log)) \in Seq(AnyLine)
      /\ SubSeq(Append(log, x), mark + 1, Len(Append(log, x))) = Append(SubSeq(log, mark + 1, Len(log)), x)
  BY <1>1, LaterRun, ZenonT(20)
<1> QED BY <1>2 DEF Since

LEMMA StaysEmbedded ==
  ASSUME TypeInv, UNCHANGED mark, MoreRun, NEW s \in Seq(AnyLine), Embeds(s, Since)
  PROVE  Embeds(s, Since')
<1>1. CASE log' = log
  BY <1>1 DEF Since
<1>2. ASSUME NEW x \in AnyLine, log' = Append(log, x) PROVE Embeds(s, Since')
  <2>1. Since \in Seq(AnyLine) /\ Since' = Append(Since, x)
    BY <1>2, SinceGrows
  <2> QED BY <2>1, EmbedsLater
<1> QED BY <1>1, <1>2 DEF MoreRun

LEMMA StaysAtStage ==
  ASSUME TypeInv, NEW c \in Conns, Same(c), UNCHANGED <<batch, sent, mark>>, MoreRun, Stage(c)
  PROVE  Stage(c)'
<1>1. CASE Sending(c)
  BY <1>1 DEF Same, Stage, Sending
<1>2. CASE Sent(c)
  BY <1>2 DEF Same, Stage, Sent, AllSent, Lines
<1>3. CASE Running(c)
  <2>1. SubSeq(inLines[c], 1, i[c] - 1) \in Seq(AnyLine)
    <3>1. inLines[c] \in Seq(AnyLine) /\ i[c] - 1 \in 0..Len(inLines[c])
      <4>1. inLines[c] \in Seq(AnyLine)
        BY Typed
      <4>2. Len(inLines[c]) \in Nat /\ i[c] \in Nat \ {0} /\ i[c] <= Len(inLines[c]) + 1
        BY <4>1, <1>3, LenProperties DEF Running, TypeInv
      <4> QED BY <4>1, <4>2
    <3>2. \A k \in 1..i[c] - 1 : inLines[c][k] \in AnyLine
      BY <3>1, LenProperties
    <3> QED BY <3>1, <3>2, SubSeqProperties
  <2>2. Embeds(SubSeq(inLines[c], 1, i[c] - 1), Since')
    BY <1>3, <2>1, StaysEmbedded DEF Running
  <2>3. Running(c)'
    BY <1>3, <2>2 DEF Same, Running, AllSent, Lines
  <2> QED BY <2>3 DEF Stage
<1>4. CASE Answered(c)
  <2>1. Batches[batch] \in Seq(AnyLine)
    BY <1>4, Typed DEF Answered, AllSent
  <2>2. Embeds(Batches[batch], Since')
    BY <1>4, <2>1, StaysEmbedded DEF Answered
  <2>3. Answered(c)'
    BY <1>4, <2>2 DEF Same, Answered, AllSent, Lines
  <2> QED BY <2>3 DEF Stage
<1>5. CASE Ended(c)
  BY <1>5 DEF Same, Stage, Ended, AllSent, Lines
<1> QED BY <1>1, <1>2, <1>3, <1>4, <1>5 DEF Stage

-----------------------------------------------------------------------------
(* The controller's steps.                                                 *)

LEMMA ConnectStep == ASSUME IInv, Connect PROVE IInv'
<1>0. /\ conn \in 0..MaxConns /\ conn + 1 \in Conns /\ conn + 1 \notin lost
      /\ MaxConns \in Nat /\ conn \in Nat
  BY MaxConnsAssumption DEF IInv, TypeInv, Connect, Conns
<1>1. /\ conn' = conn + 1 /\ sent' = 0 /\ pc' = [pc EXCEPT ![conn + 1] = "reading"]
      /\ UNCHANGED <<batch, answers, mark, due, lost, wire, torn, back>>
      /\ UNCHANGED <<inLines, i, outLines, log, ran>>
  BY DEF Connect, netVars
<1>2. /\ batch <= Len(Batches) /\ (conn = 0 \/ conn \in lost)
      /\ wire[conn + 1] = <<>> /\ back[conn + 1] = <<>> /\ inLines[conn + 1] = <<>>
      /\ ran[conn + 1] = <<>> /\ due[conn + 1] = <<>>
  BY <1>0 DEF Connect, Connected, IInv, UnopenedInv
<1>3. pc'[conn + 1] = "reading" /\ \A c \in Conns : c # conn + 1 => pc'[c] = pc[c]
  BY <1>0, <1>1 DEF IInv, TypeInv
<1>4. TypeInv'
  <2>1. lost' \subseteq 1..conn' /\ conn' \in 0..MaxConns /\ sent' \in Nat
    BY <1>0, <1>1 DEF IInv, TypeInv, Conns
  <2>2. pc' \in [Conns -> {"off", "reading", "running", "closed"}]
    BY <1>1 DEF IInv, TypeInv
  <2> QED BY <1>1, <2>1, <2>2 DEF IInv, TypeInv
<1>5. UnopenedInv'
  BY <1>0, <1>1, <1>3 DEF IInv, UnopenedInv, Conns
<1>6. OrderInv'
  <2> SUFFICES ASSUME NEW c \in Conns PROVE Ordered(c)'
    BY DEF OrderInv
  <2>1. CASE c # conn + 1
    <3>1. Same(c)
      BY <2>1, <1>1, <1>3 DEF Same
    <3> QED BY <3>1, StaysOrdered DEF IInv, OrderInv
  <2>2. CASE c = conn + 1
    <3>1. Ordered(c)
      BY DEF IInv, OrderInv
    <3>2. IsPrefix(ran[c], due[c])'
      BY <3>1, <1>1 DEF Ordered
    <3>3. DueOnOver(c)'
      BY <2>2, <1>1, <1>2 DEF DueOnOver
    <3> QED BY <2>2, <3>2, <3>3, <1>3 DEF Ordered
  <2> QED BY <2>1, <2>2
<1>7. LiveInv'
  <2> SUFFICES ASSUME NEW c \in Conns, c = conn + 1 PROVE Stage(c)'
    BY <1>1 DEF LiveInv
  <2>1. Batches[batch] \in Seq(AnyLine) /\ Len(Batches[batch]) \in Nat
    BY <1>2, Typed DEF IInv
  <2>2. <<>> \o <<>> = <<>> /\ SubSeq(Batches[batch], 1, 0) = <<>>
    BY ConcatEmptySeq, EmptySeq, SubSeqEmpty
  <2>3. Sending(c)'
    BY <1>1, <1>2, <1>3, <2>1, <2>2 DEF Sending
  <2> QED BY <2>3 DEF Stage
<1>8. AnswersFitTheirBatch'
  BY <1>1 DEF IInv, AnswersFitTheirBatch
<1> QED BY <1>4, <1>5, <1>6, <1>7, <1>8 DEF IInv

LEMMA LoseStep == ASSUME IInv, Lose PROVE IInv'
<1>0. /\ conn \in Conns /\ conn \in 1..conn /\ conn \notin lost
      /\ wire[conn] \in Seq(AnyLine) /\ Len(wire[conn]) \in Nat
      /\ wire[conn] \in Seq(Known(batch) \cup {OVER})
  <2>1. conn \in Conns /\ conn \in 1..conn /\ conn \notin lost
    BY MaxConnsAssumption DEF IInv, TypeInv, Lose, Connected, Conns
  <2>2. wire[conn] \in Seq(AnyLine) /\ wire[conn] \in Seq(Known(batch) \cup {OVER})
    BY <2>1, Typed DEF IInv
  <2> QED BY <2>1, <2>2, LenProperties
<1>1. PICK n \in 0..Len(wire[conn]), t \in BOOLEAN :
        /\ t => n < Len(wire[conn])
        /\ torn' = [torn EXCEPT ![conn] = t]
        /\ wire' = [wire EXCEPT ![conn] = SubSeq(@, 1, IF t THEN n + 1 ELSE n)]
  BY DEF Lose
<1> DEFINE m == IF t THEN n + 1 ELSE n
           w == SubSeq(wire[conn], 1, m)
<1>2. m \in 0..Len(wire[conn])
  BY <1>0, <1>1
<1> HIDE DEF m
<1>3. /\ w \in Seq(Known(batch) \cup {OVER}) /\ Len(w) = m
      /\ \A k \in 1..m : w[k] = wire[conn][k]
  <2>1. \A k \in 1..m : wire[conn][k] \in Known(batch) \cup {OVER}
    BY <1>0, <1>2, ElementOfSeq
  <2> QED BY <1>2, <2>1, SubSeqProperties
<1>4. /\ lost' = lost \cup {conn} /\ back' = [back EXCEPT ![conn] = <<>>]
      /\ wire' = [wire EXCEPT ![conn] = w]
      /\ UNCHANGED <<conn, batch, sent, answers, mark, due>>
      /\ UNCHANGED <<pc, inLines, i, outLines, log, ran>>
  BY <1>1 DEF Lose, ctlVars, srvVars, m
<1>5. /\ \A c \in Conns : c # conn => wire'[c] = wire[c] /\ back'[c] = back[c]
      /\ wire'[conn] = w
  BY <1>0, <1>4 DEF IInv, TypeInv
<1>6. TypeInv'
  <2>1. lost' \subseteq 1..conn
    BY <1>0, <1>4 DEF IInv, TypeInv
  <2>2. <<>> \in Seq(Seq(Handlers))
    BY EmptySeq
  <2>3. wire' \in [Conns -> Seq(Known(batch) \cup {OVER})]
    BY <1>0, <1>3, <1>4 DEF IInv, TypeInv
  <2>4. back' \in [Conns -> Seq(Seq(Handlers))] /\ torn' \in [Conns -> BOOLEAN]
    BY <1>1, <1>4, <2>2 DEF IInv, TypeInv
  <2> QED BY <1>4, <2>1, <2>3, <2>4 DEF IInv, TypeInv
<1>7. UnopenedInv'
  BY <1>0, <1>4, <1>5 DEF IInv, UnopenedInv
<1>8. OrderInv'
  <2> SUFFICES ASSUME NEW c \in Conns PROVE Ordered(c)'
    BY DEF OrderInv
  <2>0. Ordered(c)
    BY DEF IInv, OrderInv
  <2>1. CASE c # conn
    <3>1. Same(c)
      BY <2>1, <1>4, <1>5 DEF Same
    <3> QED BY <3>1, <2>0, StaysOrdered
  <2>2. CASE c = conn
    <3>1. IsPrefix(ran[c], due[c])'
      BY <2>0, <1>4 DEF Ordered
    <3>2. ASSUME pc[c] = "reading" PROVE DueOnOver(c)'
      <4> SUFFICES ASSUME NEW k \in 1..Len(w), w[k][1] = "OVER"
                   PROVE  /\ k = Len(w)
                          /\ due[c] = ran[c] \o (inLines[c] \o SubSeq(w, 1, k - 1))
        <5>1. /\ wire'[c] = w /\ due'[c] = due[c] /\ ran'[c] = ran[c]
              /\ inLines'[c] = inLines[c]
          BY <2>2, <1>4, <1>5
        <5> HIDE DEF w
        <5> QED BY <5>1, ZenonT(20) DEF DueOnOver
      <4>1. k \in 1..Len(wire[c]) /\ k \in 1..m /\ wire[c][k][1] = "OVER"
        BY <2>2, <1>2, <1>3
      <4>2. k = Len(wire[c]) /\ due[c] = ran[c] \o (inLines[c] \o SubSeq(wire[c], 1, k - 1))
        BY <4>1, <2>0, <3>2 DEF Ordered, DueOnOver
      <4>3. m = Len(wire[c]) /\ w = wire[c]
        BY <4>1, <4>2, <2>2, <1>0, <1>2, SubSeqFull
      <4> QED BY <4>2, <4>3
    <3>3. ASSUME pc[c] = "running" PROVE DueNow(c)'
      <4>1. DueNow(c)
        BY <2>0, <3>3 DEF Ordered
      <4>2. w = <<>>
        <5>1. wire[c] = <<>> /\ Len(wire[c]) = 0
          BY <4>1 DEF DueNow
        <5> QED BY <5>1, <2>2, <1>0, <1>2, SubSeqFull
      <4> QED BY <4>1, <4>2, <2>2, <1>4, <1>5 DEF DueNow
    <3> QED BY <3>1, <3>2, <3>3, <1>4 DEF Ordered
  <2> QED BY <2>1, <2>2
<1>9. LiveInv'
  BY <1>4 DEF LiveInv
<1>10. AnswersFitTheirBatch'
  BY <1>4 DEF IInv, AnswersFitTheirBatch
<1> QED BY <1>6, <1>7, <1>8, <1>9, <1>10 DEF IInv

(* While a batch is being sent its OVER is not on the way.                 *)
LEMMA NoOverYet ==
  ASSUME TypeInv, NEW c \in Conns, Sending(c), batch <= Len(Batches)
  PROVE  /\ sent \in 0..Len(Batches[batch])
         /\ Len(inLines[c]) + Len(wire[c]) = sent
         /\ \A k \in 1..Len(wire[c]) : wire[c][k] \in Known(batch) /\ wire[c][k][1] # "OVER"
<1> DEFINE b == Batches[batch]
           w == wire[c]
           n == inLines[c]
<1>1. /\ b \in Seq(AnyLine) /\ w \in Seq(AnyLine) /\ n \in Seq(AnyLine)
      /\ batch \in Int /\ batch \in 1..Len(Batches)
      /\ \A k \in 1..Len(b) : b[k] \in Known(batch)
  BY Typed
<1>2. sent \in Nat /\ sent <= Len(b) /\ n \o w = SubSeq(b, 1, sent)
  BY DEF Sending, TypeInv
<1> HIDE DEF b, w, n
<1>3. Len(b) \in Nat /\ Len(w) \in Nat /\ Len(n) \in Nat /\ \A k \in 1..sent : b[k] \in AnyLine
  BY <1>1, <1>2, LenProperties
<1>4. /\ Len(SubSeq(b, 1, sent)) = sent
      /\ \A k \in 1..sent : SubSeq(b, 1, sent)[k] = b[k]
  BY <1>2, <1>3, SubSeqProperties
<1>5. /\ Len(n \o w) = Len(n) + Len(w)
      /\ \A k \in 1..Len(n) + Len(w) : (n \o w)[k] = IF k <= Len(n) THEN n[k] ELSE w[k - Len(n)]
  BY <1>1, ConcatProperties
<1>6. sent = Len(n) + Len(w)
  BY <1>2, <1>4, <1>5
<1>7. ASSUME NEW k \in 1..Len(w) PROVE w[k] \in Known(batch) /\ w[k][1] # "OVER"
  <2>1. /\ Len(n) + k \in 1..Len(n) + Len(w) /\ ~(Len(n) + k <= Len(n))
        /\ Len(n) + k - Len(n) = k /\ Len(n) + k \in 1..sent /\ Len(n) + k \in 1..Len(b)
    BY <1>2, <1>3, <1>6
  <2>2. (n \o w)[Len(n) + k] = w[k]
    BY <2>1, <1>5
  <2>3. w[k] = b[Len(n) + k]
    BY <2>1, <2>2, <1>2, <1>4
  <2>4. w[k] \in Known(batch)
    BY <2>1, <2>3, <1>1
  <2>5. \A l \in Known(batch) : l[1] # "OVER"
    BY <1>1, KnownLines
  <2> QED BY <2>4, <2>5
<1>8. sent \in 0..Len(b)
  BY <1>2, <1>3
<1> QED BY <1>6, <1>7, <1>8 DEF b, w, n

LEMMA FrontOfAppend ==
  ASSUME NEW S, NEW s \in Seq(S), NEW x \in S
  PROVE  SubSeq(Append(s, x), 1, Len(s)) = s
<1> DEFINE a == Append(s, x)
<1>1. /\ a \in Seq(S) /\ Len(a) = Len(s) + 1 /\ Len(s) \in Nat
      /\ \A k \in 1..Len(s) : a[k] = s[k] /\ s[k] \in S
  BY AppendProperties, LenProperties
<1> HIDE DEF a
<1>2. /\ SubSeq(a, 1, Len(s)) \in Seq(S) /\ Len(SubSeq(a, 1, Len(s))) = Len(s)
      /\ \A k \in 1..Len(s) : SubSeq(a, 1, Len(s))[k] = s[k]
  BY <1>1, SubSeqProperties
<1>3. SubSeq(a, 1, Len(s)) = s
  BY <1>2, SeqEqual
<1> QED BY <1>3 DEF a

LEMMA SendStep == ASSUME IInv, Send PROVE IInv'
<1> DEFINE b == Batches[batch]
           x == Lines(batch)[sent + 1]
<1>0. PICK c \in Conns : c = conn /\ c \notin lost /\ batch <= Len(Batches)
  BY MaxConnsAssumption DEF IInv, TypeInv, Send, Connected, Conns
<1>1. /\ batch \in Int /\ batch \in 1..Len(Batches)
      /\ b \in Seq(AnyLine) /\ Len(b) \in Nat /\ Len(Lines(batch)) = Len(b) + 1
      /\ Lines(batch)[Len(b) + 1] = OVER /\ Lines(batch) = Append(b, OVER)
      /\ \A n \in 1..Len(b) : Lines(batch)[n] = b[n] /\ b[n] \in Known(batch)
  BY <1>0, Typed DEF IInv, Lines
<1>2. /\ wire[c] \in Seq(AnyLine) /\ inLines[c] \in Seq(AnyLine) /\ ran[c] \in Seq(AnyLine)
      /\ wire[c] \in Seq(Known(batch) \cup {OVER})
      /\ Known(batch) \cup {OVER} \subseteq AnyLine /\ Known(batch) \subseteq AnyLine
      /\ OVER \in AnyLine /\ due[c] \in Seq(AnyLine)
  BY <1>0, <1>1, Typed, KnownLines DEF IInv
<1>3. sent \in Nat /\ sent < Len(Lines(batch)) /\ sent' = sent + 1
  BY DEF IInv, TypeInv, Send
<1>4. Sending(c)
  <2>1. Stage(c)
    BY <1>0 DEF IInv, LiveInv
  <2>2. ~AllSent
    BY <1>1, <1>3 DEF AllSent
  <2> QED BY <2>1, <2>2 DEF Stage, Sent, Running, Answered, Ended
<1>5. /\ sent \in 0..Len(b) /\ pc[c] = "reading" /\ back[c] = <<>> /\ due[c] = ran[c]
      /\ inLines[c] \o wire[c] = SubSeq(b, 1, sent)
      /\ \A k \in 1..Len(wire[c]) : wire[c][k][1] # "OVER"
  BY <1>0, <1>4, NoOverYet DEF IInv, Sending
<1>6. /\ wire' = [wire EXCEPT ![c] = Append(@, x)]
      /\ UNCHANGED <<conn, batch, answers, mark, lost, torn, back, pc, inLines, i, outLines, log, ran>>
      /\ sent + 1 = Len(Lines(batch)) => due' = [due EXCEPT ![c] = @ \o b]
      /\ sent + 1 # Len(Lines(batch)) => due' = due
  BY <1>0, <1>3 DEF Send, srvVars
<1>7. /\ wire'[c] = Append(wire[c], x)
      /\ \A d \in Conns : d # c => wire'[d] = wire[d] /\ due'[d] = due[d]
  BY <1>0, <1>6 DEF IInv, TypeInv
<1>8. x \in Known(batch) \cup {OVER} /\ x \in AnyLine
  <2>1. sent + 1 \in 1..Len(b) \/ sent + 1 = Len(b) + 1
    BY <1>1, <1>5
  <2> QED BY <2>1, <1>1, <1>2
<1> HIDE DEF b, x
<1>9. /\ Append(wire[c], x) \in Seq(AnyLine) /\ Append(wire[c], x) \in Seq(Known(batch) \cup {OVER})
      /\ Len(wire[c]) \in Nat /\ Len(Append(wire[c], x)) = Len(wire[c]) + 1
      /\ \A k \in 1..Len(wire[c]) : Append(wire[c], x)[k] = wire[c][k]
      /\ Append(wire[c], x)[Len(wire[c]) + 1] = x
      /\ inLines[c] \o Append(wire[c], x) = Append(inLines[c] \o wire[c], x)
      /\ SubSeq(Append(wire[c], x), 1, Len(wire[c])) = wire[c]
  <2>1. Append(wire[c], x) \in Seq(Known(batch) \cup {OVER})
    BY <1>2, <1>8, AppendProperties
  <2>2. /\ Append(wire[c], x) \in Seq(AnyLine) /\ Len(Append(wire[c], x)) = Len(wire[c]) + 1
        /\ \A k \in 1..Len(wire[c]) : Append(wire[c], x)[k] = wire[c][k]
        /\ Append(wire[c], x)[Len(wire[c]) + 1] = x
    BY <1>2, <1>8, AppendProperties
  <2>3. inLines[c] \o Append(wire[c], x) = Append(inLines[c] \o wire[c], x)
    <3> DEFINE w == wire[c]
               n == inLines[c]
    <3>1. w \in Seq(AnyLine) /\ n \in Seq(AnyLine)
      BY <1>2
    <3> HIDE DEF w, n
    <3>2. n \o Append(w, x) = Append(n \o w, x)
      BY <3>1, <1>8, AppendToConcat
    <3> QED BY <3>2 DEF w, n
  <2>4. SubSeq(Append(wire[c], x), 1, Len(wire[c])) = wire[c]
    BY <1>2, <1>8, FrontOfAppend
  <2> QED BY <2>1, <2>2, <2>3, <2>4, <1>2, LenProperties
<1>10. ASSUME sent < Len(b)
       PROVE  /\ due'[c] = due[c] /\ Sending(c)'
              /\ x[1] # "OVER"
  <2>1. sent + 1 # Len(Lines(batch)) /\ sent + 1 \in 1..Len(b) /\ sent \in 0..Len(b) - 1
    BY <1>10, <1>1, <1>3
  <2>2. x = b[sent + 1] /\ x \in Known(batch)
    BY <2>1, <1>1 DEF x
  <2>3. x[1] # "OVER"
    BY <2>2, <1>1, KnownLines
  <2>4. SubSeq(b, 1, sent + 1) = Append(SubSeq(b, 1, sent), x)
    BY <2>1, <2>2, <1>1, OneLineMore
  <2>5. inLines[c] \o Append(wire[c], x) = SubSeq(b, 1, sent + 1)
    BY <2>4, <1>5, <1>9
  <2>6. due' = due
    BY <2>1, <1>6
  <2>7. Sending(c)'
    <3>1. /\ pc'[c] = "reading" /\ back'[c] = <<>> /\ due'[c] = ran'[c]
          /\ batch' = batch /\ batch <= Len(Batches) /\ sent' = sent + 1
      BY <2>6, <1>0, <1>3, <1>5, <1>6
    <3>2. sent + 1 <= Len(Batches[batch])
      BY <2>1, <1>1 DEF b
    <3>3. inLines'[c] \o wire'[c] = SubSeq(Batches[batch], 1, sent + 1)
      BY <2>5, <1>6, <1>7 DEF b
    <3>4. ~(batch > Len(Batches))
      BY <1>1, BatchesAssumption, LenProperties
    <3> QED BY <3>1, <3>2, <3>3, <3>4 DEF Sending
  <2> QED BY <2>3, <2>6, <2>7
<1>11. ASSUME ~(sent < Len(b))
       PROVE  /\ x = OVER /\ inLines[c] \o wire[c] = b
              /\ due'[c] = ran[c] \o b /\ Sent(c)'
  <2>1. sent = Len(b) /\ sent + 1 = Len(Lines(batch))
    BY <1>11, <1>1, <1>5
  <2>2. x = OVER
    BY <2>1, <1>1 DEF x
  <2>3. inLines[c] \o wire[c] = b
    BY <2>1, <1>1, <1>5, SubSeqFull
  <2>4. due'[c] = ran[c] \o b
    BY <2>1, <1>0, <1>5, <1>6 DEF IInv, TypeInv
  <2>5. Sent(c)'
    BY <2>1, <2>2, <2>3, <1>0, <1>1, <1>3, <1>5, <1>6, <1>7, <1>9 DEF Sent, AllSent, Lines, b
  <2> QED BY <2>2, <2>3, <2>4, <2>5
<1>12. TypeInv'
  <2>1. wire' \in [Conns -> Seq(Known(batch) \cup {OVER})]
    BY <1>0, <1>6, <1>9 DEF IInv, TypeInv
  <2>2. due' \in [Conns -> Seq(AnyLine)]
    <3>1. due[c] \o b \in Seq(AnyLine)
      BY <1>1, <1>2, ConcatProperties
    <3>2. due \in [Conns -> Seq(AnyLine)]
      BY DEF IInv, TypeInv
    <3>3. due' = due \/ due' = [due EXCEPT ![c] = due[c] \o b]
      BY <1>6
    <3> QED BY <3>1, <3>2, <3>3
  <2>3. /\ sent' \in Nat
        /\ UNCHANGED <<conn, batch, answers, mark, lost, torn, back, pc, inLines, i, outLines, log, ran>>
    BY <1>3, <1>6
  <2> QED BY <2>1, <2>2, <2>3 DEF IInv, TypeInv
<1>13. UnopenedInv'
  BY <1>0, <1>6, <1>7 DEF IInv, UnopenedInv, TypeInv, Conns
<1>14. OrderInv'
  <2> SUFFICES ASSUME NEW d \in Conns PROVE Ordered(d)'
    BY DEF OrderInv
  <2>0. Ordered(d)
    BY DEF IInv, OrderInv
  <2>1. CASE d # c
    <3>1. Same(d)
      BY <2>1, <1>6, <1>7 DEF Same
    <3> QED BY <3>1, <2>0, StaysOrdered
  <2>2. CASE d = c /\ sent < Len(b)
    <3>1. \A k \in 1..Len(wire'[c]) : wire'[c][k][1] # "OVER"
      BY <2>2, <1>5, <1>7, <1>9, <1>10
    <3>2. DueOnOver(d)'
      BY <2>2, <3>1 DEF DueOnOver
    <3>3. IsPrefix(ran[d], due[d])'
      BY <2>0, <2>2, <1>6, <1>10 DEF Ordered
    <3> QED BY <2>2, <3>2, <3>3, <1>5, <1>6 DEF Ordered
  <2>3. CASE d = c /\ ~(sent < Len(b))
    <3>1. IsPrefix(ran[d], due[d])'
      <4>1. IsPrefix(ran[c], ran[c] \o b)
        BY <1>1, <1>2, PrefixOfConcat
      <4> QED BY <4>1, <2>3, <1>6, <1>11
    <3>2. DueOnOver(d)'
      <4> SUFFICES ASSUME NEW k \in 1..Len(wire'[c]), wire'[c][k][1] = "OVER"
                   PROVE  /\ k = Len(wire'[c])
                          /\ due'[c] = ran[c] \o (inLines[c] \o SubSeq(wire'[c], 1, k - 1))
        BY <2>3, <1>6 DEF DueOnOver
      <4>1. k = Len(wire[c]) + 1
        BY <1>5, <1>7, <1>9
      <4>2. SubSeq(wire'[c], 1, k - 1) = wire[c]
        BY <4>1, <1>7, <1>9
      <4> QED BY <4>1, <4>2, <2>3, <1>7, <1>9, <1>11
    <3> QED BY <2>3, <3>1, <3>2, <1>5, <1>6 DEF Ordered
  <2> QED BY <2>1, <2>2, <2>3
<1>15. LiveInv'
  <2>1. Stage(c)'
    BY <1>10, <1>11 DEF Stage
  <2> QED BY <2>1, <1>0, <1>6 DEF LiveInv
<1>16. AnswersFitTheirBatch'
  BY <1>6 DEF IInv, AnswersFitTheirBatch
<1> QED BY <1>12, <1>13, <1>14, <1>15, <1>16 DEF IInv

LEMMA AcknowledgeStep == ASSUME IInv, Acknowledge PROVE IInv'
<1>0. PICK c \in Conns : c = conn /\ c \notin lost /\ back[c] # <<>>
  BY MaxConnsAssumption DEF IInv, TypeInv, Acknowledge, Connected, Conns
<1>1. Answered(c)
  <2>1. Stage(c)
    BY <1>0 DEF IInv, LiveInv
  <2> QED BY <2>1, <1>0 DEF Stage, Sending, Sent, Running, Ended
<1>2. /\ batch \in Int /\ batch \in 1..Len(Batches) /\ Len(Batches) \in Nat
      /\ Batches[batch] \in Seq(AnyLine) /\ Len(Batches[batch]) \in Nat
  BY <1>1, Typed, BatchesAssumption, LenProperties DEF IInv, Answered, AllSent
<1>3. PICK h \in Seq(Handlers) :
        /\ Fits(h, Batches[batch])
        /\ back[c] = <<h>> /\ Head(back[c]) = h /\ Tail(back[c]) = <<>>
  BY <1>1 DEF Answered
<1>4. /\ answers' = Append(answers, h) /\ back' = [back EXCEPT ![c] = <<>>]
      /\ batch' = batch + 1 /\ sent' = 0 /\ mark' = Len(log)
      /\ UNCHANGED <<conn, due, lost, wire, torn, pc, inLines, i, outLines, log, ran>>
  BY <1>3, <1>0 DEF Acknowledge, srvVars, IInv, TypeInv
<1>5. back'[c] = <<>> /\ \A d \in Conns : d # c => back'[d] = back[d]
  BY <1>0, <1>4 DEF IInv, TypeInv
<1>6. TypeInv'
  <2>1. /\ batch' \in 1..Len(Batches) + 1 /\ sent' \in Nat
        /\ mark' \in 0..Len(log') /\ log' \in Seq(AnyLine)
    BY <1>2, <1>4, LenProperties DEF IInv, TypeInv
  <2>2. answers' \in Seq(Seq(Handlers)) /\ back' \in [Conns -> Seq(Seq(Handlers))]
    BY <1>3, <1>4, EmptySeq, AppendProperties DEF IInv, TypeInv
  <2>3. Known(batch) \subseteq Known(batch')
    BY <1>2, <1>4, KnownLines
  <2>4. wire' \in [Conns -> Seq(Known(batch') \cup {OVER})]
    <3>1. Seq(Known(batch) \cup {OVER}) \subseteq Seq(Known(batch') \cup {OVER})
      BY <2>3, SeqMonotonic
    <3> QED BY <3>1, <1>4 DEF IInv, TypeInv
  <2>5. inLines' \in [Conns -> Seq(Known(batch'))]
    <3>1. Seq(Known(batch)) \subseteq Seq(Known(batch'))
      BY <2>3, SeqMonotonic
    <3> QED BY <3>1, <1>4 DEF IInv, TypeInv
  <2> QED BY <2>1, <2>2, <2>4, <2>5, <1>4 DEF IInv, TypeInv
<1>7. UnopenedInv'
  BY <1>0, <1>4, <1>5 DEF IInv, UnopenedInv, TypeInv, Conns
<1>8. OrderInv'
  BY <1>4 DEF IInv, OrderInv, Ordered, DueOnOver, DueNow
<1>9. LiveInv'
  <2>1. batch + 1 <= Len(Batches) =>
          Batches[batch + 1] \in Seq(AnyLine) /\ Len(Batches[batch + 1]) \in Nat
    BY <1>2, KnownLines
  <2>2. <<>> \o <<>> = <<>> /\ SubSeq(Batches[batch + 1], 1, 0) = <<>>
    BY ConcatEmptySeq, EmptySeq, SubSeqEmpty
  <2>3. Sending(c)'
    <3>1. /\ pc'[c] = "reading" /\ back'[c] = <<>> /\ due'[c] = ran'[c]
          /\ inLines'[c] = <<>> /\ wire'[c] = <<>>
          /\ batch' = batch + 1 /\ sent' = 0
      BY <1>1, <1>4, <1>5 DEF Answered
    <3>2. batch + 1 <= Len(Batches) => 0 <= Len(Batches[batch + 1])
      BY <2>1
    <3> QED BY <3>1, <3>2, <2>2 DEF Sending
  <2> QED BY <2>3, <1>0, <1>4 DEF LiveInv, Stage
<1>10. AnswersFitTheirBatch'
  <2>1. /\ Len(answers) = batch - 1
        /\ \A k \in 1..Len(answers) : Fits(answers[k], Batches[k])
    BY DEF IInv, AnswersFitTheirBatch, Fits
  <2>2. /\ Len(answers') = Len(answers) + 1 /\ answers'[Len(answers) + 1] = h
        /\ \A k \in 1..Len(answers) : answers'[k] = answers[k]
    BY <1>3, <1>4, AppendProperties DEF IInv, TypeInv
  <2>3. Len(answers') = batch' - 1
    BY <2>1, <2>2, <1>2, <1>4
  <2>4. ASSUME NEW k \in 1..Len(answers')
        PROVE  Fits(answers'[k], Batches[k])
    <3>1. CASE k \in 1..Len(answers)
      BY <3>1, <2>1, <2>2
    <3>2. CASE k = batch
      BY <3>2, <2>1, <2>2, <1>2, <1>3
    <3> QED BY <3>1, <3>2, <2>1, <2>2, <1>2
  <2> QED BY <2>3, <2>4 DEF AnswersFitTheirBatch, Fits
<1> QED BY <1>6, <1>7, <1>8, <1>9, <1>10 DEF IInv

-----------------------------------------------------------------------------
(* The steps of a connection's thread touch no other connection.           *)

LEMMA ServerStep ==
  ASSUME IInv, NEW c \in Conns, pc[c] # "off",
         UNCHANGED <<conn, batch, sent, answers, mark, lost>>, MoreRun,
         \A d \in Conns : d # c => Same(d),
         TypeInv', Ordered(c)', c = conn /\ c \notin lost => Stage(c)'
  PROVE  IInv'
<1>1. UnopenedInv'
  BY DEF IInv, UnopenedInv, Same
<1>2. OrderInv'
  <2> SUFFICES ASSUME NEW d \in Conns, d # c PROVE Ordered(d)'
    BY DEF OrderInv
  <2> QED BY StaysOrdered DEF IInv, OrderInv
<1>3. LiveInv'
  <2> SUFFICES ASSUME NEW d \in Conns, d # c, d = conn, d \notin lost PROVE Stage(d)'
    BY DEF LiveInv
  <2> QED BY StaysAtStage DEF IInv, LiveInv
<1>4. AnswersFitTheirBatch'
  BY DEF IInv, AnswersFitTheirBatch
<1> QED BY <1>1, <1>2, <1>3, <1>4 DEF IInv

LEMMA StoreStep == ASSUME IInv, NEW c \in Conns, StoreLine(c) PROVE IInv'
<1> DEFINE w == wire[c]
           n == inLines[c]
           a == Append(inLines[c], Head(wire[c]))
<1>1. /\ w \in Seq(AnyLine) /\ n \in Seq(AnyLine) /\ batch \in Int
      /\ w \in Seq(Known(batch) \cup {OVER}) /\ n \in Seq(Known(batch))
      /\ Len(Batches) \in Nat
  BY Typed, BatchesAssumption, LenProperties DEF IInv
<1>2. /\ pc[c] = "reading" /\ w # <<>> /\ Head(w)[1] # "OVER"
      /\ wire' = [wire EXCEPT ![c] = Tail(w)] /\ inLines' = [inLines EXCEPT ![c] = a]
      /\ pc' = [pc EXCEPT ![c] = IF Eof(c, Tail(w)) THEN "closed" ELSE "reading"]
      /\ UNCHANGED <<conn, batch, sent, answers, mark, due>>
      /\ UNCHANGED <<lost, torn, back, log, ran, i, outLines>>
  BY DEF StoreLine, Read, ctlVars
<1>3. /\ wire'[c] = Tail(w) /\ inLines'[c] = a
      /\ pc'[c] \in {"closed", "reading"}
  BY <1>2 DEF IInv, TypeInv, Eof
<1>4. c \notin lost => pc'[c] = "reading"
  BY <1>2 DEF IInv, TypeInv, Eof
<1>5. \A d \in Conns : d # c => Same(d)
  BY <1>2 DEF IInv, TypeInv, Same
<1> HIDE DEF w, n, a
<1>6. /\ Head(w) = w[1] /\ Len(w) >= 1 /\ Len(w) \in Nat /\ Tail(w) \in Seq(AnyLine)
      /\ Len(Tail(w)) = Len(w) - 1
      /\ a \o Tail(w) = n \o w
      /\ \A k \in 1..Len(Tail(w)) :
           /\ Tail(w)[k] = w[k + 1]
           /\ a \o SubSeq(Tail(w), 1, k - 1) = n \o SubSeq(w, 1, k)
  <2>1. /\ Len(w) \in Nat /\ Head(w) = w[1] /\ Len(w) >= 1
        /\ Tail(w) \in Seq(AnyLine) /\ Len(Tail(w)) = Len(w) - 1
    BY <1>1, <1>2, Moved, LenProperties
  <2>2. a = Append(n, Head(w))
    BY DEF a, n, w
  <2>3. a \o Tail(w) = n \o w
    BY <2>2, <1>1, <1>2, Moved
  <2>4. \A k \in 1..Len(Tail(w)) :
          /\ Tail(w)[k] = w[k + 1]
          /\ a \o SubSeq(Tail(w), 1, k - 1) = n \o SubSeq(w, 1, k)
    BY <2>2, <1>1, <1>2, Moved, SMTT(20)
  <2> QED BY <2>1, <2>3, <2>4
<1>7. /\ Head(w) \in Known(batch) /\ a \in Seq(Known(batch))
      /\ Tail(w) \in Seq(Known(batch) \cup {OVER})
  <2>1. Head(w) \in Known(batch) \cup {OVER} /\ Tail(w) \in Seq(Known(batch) \cup {OVER})
    BY <1>1, <1>2, HeadTailProperties
  <2>2. Head(w) # OVER
    BY <1>1, <1>2, KnownLines
  <2>3. Append(n, Head(w)) \in Seq(Known(batch))
    BY <2>1, <2>2, <1>1, AppendProperties
  <2> QED BY <2>1, <2>2, <2>3 DEF a, n, w
<1>8. TypeInv'
  <2>1. wire' \in [Conns -> Seq(Known(batch) \cup {OVER})]
    BY <1>2, <1>7 DEF IInv, TypeInv
  <2>2. inLines' \in [Conns -> Seq(Known(batch))]
    BY <1>2, <1>7 DEF IInv, TypeInv
  <2>3. pc' \in [Conns -> {"off", "reading", "running", "closed"}]
    BY <1>2 DEF IInv, TypeInv
  <2> QED BY <2>1, <2>2, <2>3, <1>2 DEF IInv, TypeInv
<1>9. Ordered(c)'
  <2>1. Ordered(c)
    BY DEF IInv, OrderInv
  <2>2. IsPrefix(ran[c], due[c])'
    BY <2>1, <1>2 DEF Ordered
  <2>3. DueOnOver(c)'
    <3> SUFFICES ASSUME NEW k \in 1..Len(Tail(w)), Tail(w)[k][1] = "OVER"
                 PROVE  /\ k = Len(Tail(w))
                        /\ due[c] = ran[c] \o (a \o SubSeq(Tail(w), 1, k - 1))
      BY <1>2, <1>3 DEF DueOnOver
    <3> DEFINE j == k + 1
    <3>1. j \in 1..Len(w) /\ w[j][1] = "OVER" /\ j - 1 = k /\ j = k + 1
      BY <1>6
    <3> HIDE DEF j
    <3>2. j = Len(w) /\ due[c] = ran[c] \o (n \o SubSeq(w, 1, j - 1))
      BY <3>1, <2>1, <1>2 DEF Ordered, DueOnOver, w, n
    <3>3. n \o SubSeq(w, 1, j - 1) = a \o SubSeq(Tail(w), 1, k - 1)
      BY <3>1, <1>6
    <3> QED BY <3>1, <3>2, <3>3, <1>6
  <2> QED BY <2>2, <2>3, <1>3 DEF Ordered
<1>10. ASSUME c = conn, c \notin lost PROVE Stage(c)'
  <2>1. Stage(c) /\ pc[c] = "reading" /\ wire[c] # <<>>
    BY <1>2, <1>10 DEF IInv, LiveInv, w
  <2>2. inLines'[c] \o wire'[c] = inLines[c] \o wire[c]
    BY <1>3, <1>6 DEF w, n
  <2>3. CASE Sending(c)
    <3>1. ~(batch > Len(Batches))
      BY <2>1, <2>3 DEF Sending
    <3>2. batch <= Len(Batches)
      BY <3>1, <1>1
    <3> QED BY <2>2, <2>3, <3>1, <3>2, <1>2, <1>4, <1>10 DEF Sending, Stage
  <2>4. CASE Sent(c)
    BY <2>2, <2>4, <1>2, <1>4, <1>10 DEF Sent, AllSent, Lines, Stage
  <2> QED BY <2>1, <2>3, <2>4 DEF Stage, Running, Answered, Ended
<1>11. pc[c] # "off" /\ MoreRun
  BY <1>2 DEF MoreRun
<1> QED BY <1>2, <1>5, <1>8, <1>9, <1>10, <1>11, ServerStep

LEMMA BeginStep == ASSUME IInv, NEW c \in Conns, BeginBatch(c) PROVE IInv'
<1> DEFINE w == wire[c]
           n == inLines[c]
<1>1. /\ w \in Seq(AnyLine) /\ n \in Seq(AnyLine) /\ batch \in Int
      /\ w \in Seq(Known(batch) \cup {OVER})
      /\ ran[c] \in Seq(AnyLine) /\ Len(Batches) \in Nat
  BY Typed, BatchesAssumption, LenProperties DEF IInv
<1>2. /\ pc[c] = "reading" /\ w # <<>> /\ Head(w)[1] = "OVER"
      /\ wire' = [wire EXCEPT ![c] = Tail(w)] /\ pc' = [pc EXCEPT ![c] = "running"]
      /\ i' = [i EXCEPT ![c] = 1] /\ outLines' = [outLines EXCEPT ![c] = <<>>]
      /\ UNCHANGED <<conn, batch, sent, answers, mark, due>>
      /\ UNCHANGED <<lost, torn, back, log, ran, inLines>>
  BY DEF BeginBatch, Read, ctlVars
<1>3. /\ wire'[c] = Tail(w) /\ pc'[c] = "running" /\ i'[c] = 1 /\ outLines'[c] = <<>>
  BY <1>2 DEF IInv, TypeInv
<1>4. \A d \in Conns : d # c => Same(d)
  BY <1>2 DEF IInv, TypeInv, Same
<1> HIDE DEF w, n
<1>5. /\ Head(w) = w[1] /\ Len(w) >= 1 /\ Len(w) \in Nat
      /\ Tail(w) \in Seq(Known(batch) \cup {OVER}) /\ Len(Tail(w)) = Len(w) - 1
  BY <1>1, <1>2, HeadTailProperties, LenProperties
<1>6. Ordered(c)
  BY DEF IInv, OrderInv
<1>7. /\ Len(w) = 1 /\ Tail(w) = <<>> /\ due[c] = ran[c] \o n
  <2>1. 1 \in 1..Len(w) /\ w[1][1] = "OVER"
    BY <1>2, <1>5
  <2>2. 1 = Len(w) /\ due[c] = ran[c] \o (n \o SubSeq(w, 1, 1 - 1))
    BY <2>1, <1>2, <1>6 DEF Ordered, DueOnOver, w, n
  <2>3. Tail(w) = <<>>
    BY <2>2, <1>5, EmptySeq
  <2>4. n \o SubSeq(w, 1, 1 - 1) = n
    BY <1>1, SubSeqEmpty, ConcatEmptySeq
  <2> QED BY <2>2, <2>3, <2>4
<1>8. TypeInv'
  <2>1. wire' \in [Conns -> Seq(Known(batch) \cup {OVER})]
    BY <1>2, <1>5 DEF IInv, TypeInv
  <2>2. /\ pc' \in [Conns -> {"off", "reading", "running", "closed"}]
        /\ i' \in [Conns -> Nat \ {0}] /\ outLines' \in [Conns -> Seq(Handlers)]
    BY <1>2, EmptySeq DEF IInv, TypeInv
  <2> QED BY <2>1, <2>2, <1>2 DEF IInv, TypeInv
<1>9. Ordered(c)'
  <2>1. IsPrefix(ran[c], due[c])'
    BY <1>2, <1>6 DEF Ordered
  <2>2. SubSeq(n, 1, Len(n)) = n
    BY <1>1, SubSeqFull
  <2>3. DueNow(c)'
    BY <2>2, <1>2, <1>3, <1>7 DEF DueNow, n
  <2> QED BY <2>1, <2>3, <1>3 DEF Ordered
<1>10. ASSUME c = conn, c \notin lost PROVE Stage(c)'
  <2>1. Stage(c) /\ pc[c] = "reading" /\ w # <<>>
    BY <1>2, <1>10 DEF IInv, LiveInv
  <2>2. ~Sending(c)
    <3> SUFFICES ASSUME Sending(c) PROVE FALSE
      OBVIOUS
    <3>1. batch <= Len(Batches)
      <4>1. ~(batch > Len(Batches))
        BY <2>1 DEF Sending, w
      <4> QED BY <4>1, <1>1
    <3>2. w[1][1] # "OVER"
      <4>1. \A k \in 1..Len(w) : w[k][1] # "OVER"
        BY <3>1, NoOverYet DEF IInv, w
      <4>2. 1 \in 1..Len(w)
        BY <1>5
      <4> QED BY <4>1, <4>2
    <3> QED BY <3>2, <1>2, <1>5
  <2>3. Sent(c)
    BY <2>1, <2>2 DEF Stage, Running, Answered, Ended, w
  <2>4. /\ batch <= Len(Batches) /\ sent = Len(Lines(batch)) /\ back[c] = <<>>
        /\ n \o w = Append(Batches[batch], OVER)
    BY <2>3 DEF Sent, AllSent, Lines, n, w
  <2>5. Batches[batch] \in Seq(AnyLine) /\ OVER \in AnyLine
    BY <2>4, <1>1, Typed, KnownLines DEF IInv
  <2>6. n = Batches[batch]
    <3>1. w[1] \in AnyLine /\ w = <<w[1]>>
      <4>1. w[1] \in AnyLine
        <5>1. 1 \in 1..Len(w)
          BY <1>7
        <5> QED BY <5>1, <1>1, ElementOfSeq
      <4>2. <<w[1]>> \in Seq(AnyLine) /\ Len(<<w[1]>>) = 1 /\ <<w[1]>>[1] = w[1]
        BY <4>1
      <4> QED BY <4>1, <4>2, <1>1, <1>7, SeqEqual
    <3>2. Append(n, w[1]) = n \o <<w[1]>>
      BY <3>1, <1>1, AppendIsConcat
    <3>3. Append(n, w[1]) = Append(Batches[batch], OVER)
      BY <3>1, <3>2, <2>4
    <3> QED BY <3>1, <3>3, <2>5, <1>1, AppendInjective
  <2>7. SubSeq(n, 1, 1 - 1) = <<>> /\ 1 - 1 = 0
    BY SubSeqEmpty
  <2>8. Len(Since) \in Nat
    BY Typed, LenProperties DEF IInv
  <2>9. Embeds(<<>>, Since)
    BY <2>8, NothingEmbeds
  <2>10. Since' = Since
    BY <1>2 DEF Since
  <2>11. 1 <= Len(n) + 1
    BY <1>1, LenProperties
  <2>12. Running(c)'
    <3>1. /\ pc'[c] = "running" /\ back'[c] = <<>> /\ inLines'[c] = n
          /\ i'[c] = 1 /\ outLines'[c] = <<>> /\ batch' = batch /\ sent' = sent
      BY <2>4, <1>2, <1>3 DEF n
    <3>2. AllSent'
      BY <2>4, <3>1 DEF AllSent, Lines
    <3>3. Embeds(SubSeq(n, 1, 1 - 1), Since')
      BY <2>7, <2>9, <2>10
    <3>4. Fits(<<>>, SubSeq(n, 1, 1 - 1))
      BY <2>7, FitsNone
    <3> QED BY <3>1, <3>2, <3>3, <3>4, <2>6, <2>11 DEF Running
  <2> QED BY <2>12 DEF Stage
<1>11. pc[c] # "off" /\ MoreRun
  BY <1>2 DEF MoreRun
<1> QED BY <1>2, <1>4, <1>8, <1>9, <1>10, <1>11, ServerStep

LEMMA FailStep == ASSUME IInv, NEW c \in Conns, ReadFails(c) \/ WriteFails(c) PROVE IInv'
<1>1. /\ pc[c] # "off" /\ c \in lost /\ pc' = [pc EXCEPT ![c] = "closed"]
      /\ UNCHANGED <<conn, batch, sent, answers, mark, due>>
      /\ UNCHANGED <<lost, wire, torn, back, inLines, i, outLines, log, ran>>
  BY DEF ReadFails, WriteFails, ctlVars, netVars
<1>2. pc'[c] = "closed" /\ \A d \in Conns : d # c => Same(d)
  BY <1>1 DEF IInv, TypeInv, Same
<1>3. TypeInv'
  <2>1. pc' \in [Conns -> {"off", "reading", "running", "closed"}]
    BY <1>1 DEF IInv, TypeInv
  <2> QED BY <2>1, <1>1 DEF IInv, TypeInv
<1>4. Ordered(c)'
  BY <1>1, <1>2 DEF IInv, OrderInv, Ordered
<1>5. MoreRun
  BY <1>1 DEF MoreRun
<1> QED BY <1>1, <1>2, <1>3, <1>4, <1>5, ServerStep

(* The line to run next is one that is due next.                           *)
LEMMA NextIsDue ==
  ASSUME IInv, NEW c \in Conns, pc[c] = "running", i[c] <= Len(inLines[c])
  PROVE  /\ inLines[c][i[c]] \in AnyLine /\ inLines[c][i[c]] \in Known(batch)
         /\ i[c] \in 1..Len(inLines[c]) /\ Len(inLines[c]) \in Nat
         /\ Append(ran[c], inLines[c][i[c]]) \in Seq(AnyLine)
         /\ due[c] = Append(ran[c], inLines[c][i[c]]) \o SubSeq(inLines[c], i[c] + 1, Len(inLines[c]))
         /\ IsPrefix(Append(ran[c], inLines[c][i[c]]), due[c])
         /\ wire[c] = <<>>
<1> DEFINE n == inLines[c]
           k == i[c]
           x == n[k]
           r == ran[c]
           rest == SubSeq(n, k + 1, Len(n))
<1>1. n \in Seq(AnyLine) /\ n \in Seq(Known(batch)) /\ r \in Seq(AnyLine)
  BY Typed DEF IInv
<1>2. k \in Nat \ {0} /\ k <= Len(n)
  BY DEF IInv, TypeInv
<1>3. wire[c] = <<>> /\ due[c] = r \o SubSeq(n, k, Len(n))
  BY DEF IInv, OrderInv, Ordered, DueNow
<1> HIDE DEF n, k, r
<1>4. Len(n) \in Nat /\ k \in 1..Len(n)
  BY <1>1, <1>2, LenProperties
<1>5. x \in AnyLine /\ x \in Known(batch)
  BY <1>1, <1>4, ElementOfSeq
<1>6. /\ Append(r, x) \in Seq(AnyLine) /\ rest \in Seq(AnyLine)
      /\ r \o SubSeq(n, k, Len(n)) = Append(r, x) \o rest
  BY <1>1, <1>4, OneRun, ZenonT(20)
<1>7. IsPrefix(Append(r, x), Append(r, x) \o rest)
  <2> DEFINE a == Append(r, x)
  <2>1. a \in Seq(AnyLine) /\ rest \in Seq(AnyLine)
    BY <1>6
  <2> HIDE DEF a, rest
  <2>2. IsPrefix(a, a \o rest)
    BY <2>1, PrefixOfConcat
  <2> QED BY <2>2 DEF a
<1>8. /\ due[c] = Append(r, x) \o rest /\ IsPrefix(Append(r, x), due[c])
      /\ Append(r, x) \in Seq(AnyLine)
  BY <1>3, <1>6, <1>7, Zenon
<1> QED BY <1>3, <1>4, <1>5, <1>8, ZenonT(20) DEF n, k, r

LEMMA ThrowStep == ASSUME IInv, NEW c \in Conns, CommandThrows(c) PROVE IInv'
<1> DEFINE x == inLines[c][i[c]]
<1>1. /\ pc[c] = "running" /\ i[c] <= Len(inLines[c])
      /\ \/ log' = Append(log, x) /\ ran' = [ran EXCEPT ![c] = Append(@, x)]
         \/ UNCHANGED <<log, ran>>
      /\ pc' = [pc EXCEPT ![c] = "closed"]
      /\ UNCHANGED <<conn, batch, sent, answers, mark, due>>
      /\ UNCHANGED <<lost, wire, torn, back, inLines, i, outLines>>
  BY DEF CommandThrows, Runs, ctlVars, netVars
<1>2. /\ x \in AnyLine /\ Append(ran[c], x) \in Seq(AnyLine)
      /\ IsPrefix(Append(ran[c], x), due[c])
  BY <1>1, NextIsDue
<1> HIDE DEF x
<1>3. /\ pc'[c] = "closed" /\ ran'[c] \in {ran[c], Append(ran[c], x)}
      /\ \A d \in Conns : d # c => Same(d)
  <2>1. pc'[c] = "closed" /\ \A d \in Conns : d # c => pc'[d] = pc[d]
    BY <1>1 DEF IInv, TypeInv
  <2>2. /\ ran'[c] \in {ran[c], Append(ran[c], x)}
        /\ \A d \in Conns : d # c => ran'[d] = ran[d]
    BY <1>1 DEF IInv, TypeInv
  <2> QED BY <2>1, <2>2, <1>1 DEF Same
<1>4. TypeInv'
  <2>1. log' \in Seq(AnyLine) /\ mark \in 0..Len(log')
    <3>1. log \in Seq(AnyLine) /\ mark \in 0..Len(log) /\ Len(log) \in Nat
      BY LenProperties DEF IInv, TypeInv
    <3>2. Append(log, x) \in Seq(AnyLine) /\ Len(Append(log, x)) = Len(log) + 1
      BY <3>1, <1>2, AppendProperties
    <3>3. CASE log' = Append(log, x)
      BY <3>1, <3>2, <3>3
    <3>4. CASE log' = log
      BY <3>1, <3>4
    <3> QED BY <1>1, <3>3, <3>4
  <2>2. ran' \in [Conns -> Seq(AnyLine)]
    BY <1>1, <1>2 DEF IInv, TypeInv
  <2>3. pc' \in [Conns -> {"off", "reading", "running", "closed"}]
    BY <1>1 DEF IInv, TypeInv
  <2> QED BY <2>1, <2>2, <2>3, <1>1 DEF IInv, TypeInv
<1>5. Ordered(c)'
  <2>1. IsPrefix(ran[c], due[c])
    BY DEF IInv, OrderInv, Ordered
  <2>2. IsPrefix(ran[c], due[c])'
    BY <2>1, <1>1, <1>2, <1>3
  <2> QED BY <2>2, <1>3 DEF Ordered
<1>6. ASSUME c = conn, c \notin lost PROVE Stage(c)'
  <2>1. Stage(c)
    BY <1>6 DEF IInv, LiveInv
  <2>2. Running(c)
    BY <2>1, <1>1 DEF Stage, Sending, Sent, Answered, Ended
  <2>3. Ended(c)'
    BY <2>2, <1>1, <1>3 DEF Running, Ended, AllSent, Lines
  <2> QED BY <2>3 DEF Stage
<1>7. pc[c] # "off" /\ MoreRun
  BY <1>1, <1>2 DEF MoreRun
<1> QED BY <1>1, <1>3, <1>4, <1>5, <1>6, <1>7, ServerStep

LEMMA RunStep == ASSUME IInv, NEW c \in Conns, RunCommand(c) PROVE IInv'
<1> DEFINE n == inLines[c]
           k == i[c]
           x == n[k]
<1>1. /\ pc[c] = "running" /\ k <= Len(n)
      /\ log' = Append(log, x) /\ ran' = [ran EXCEPT ![c] = Append(@, x)]
      /\ \E r \in Replies(x) : outLines' = [outLines EXCEPT ![c] = @ \o r]
      /\ i' = [i EXCEPT ![c] = k + 1]
      /\ UNCHANGED <<conn, batch, sent, answers, mark, due>>
      /\ UNCHANGED <<lost, wire, torn, back, pc, inLines>>
  BY DEF RunCommand, Runs, ctlVars, netVars
<1>2. /\ x \in AnyLine /\ k \in 1..Len(n) /\ Len(n) \in Nat
      /\ Append(ran[c], x) \in Seq(AnyLine)
      /\ due[c] = Append(ran[c], x) \o SubSeq(n, k + 1, Len(n))
      /\ IsPrefix(Append(ran[c], x), due[c]) /\ wire[c] = <<>>
  BY <1>1, NextIsDue
<1>3. PICK r \in Replies(x) : outLines' = [outLines EXCEPT ![c] = @ \o r]
  BY <1>1
<1>4. /\ ran'[c] = Append(ran[c], x) /\ i'[c] = k + 1
      /\ outLines'[c] = outLines[c] \o r
      /\ \A d \in Conns : d # c => Same(d)
  BY <1>1, <1>3 DEF IInv, TypeInv, Same
<1>5. n \in Seq(AnyLine)
  BY Typed DEF IInv
<1> HIDE DEF x
<1>6. log' \in Seq(AnyLine) /\ mark \in 0..Len(log') /\ Since' = Append(Since, x)
  <2>1. log \in Seq(AnyLine) /\ mark \in 0..Len(log) /\ Len(log) \in Nat
    BY LenProperties DEF IInv, TypeInv
  <2>2. Append(log, x) \in Seq(AnyLine) /\ Len(Append(log, x)) = Len(log) + 1
    BY <2>1, <1>2, AppendProperties
  <2>3. log' = Append(log, x) /\ mark' = mark /\ mark \in 0..Len(Append(log, x))
    BY <1>1, <2>1, <2>2
  <2>4. Since' = Append(Since, x)
    BY <1>2, <2>3, SinceGrows DEF IInv
  <2> QED BY <2>2, <2>3, <2>4
<1>7. TypeInv'
  <2>1. ran' \in [Conns -> Seq(AnyLine)]
    BY <1>1, <1>2 DEF IInv, TypeInv
  <2>2. outLines' \in [Conns -> Seq(Handlers)]
    <3>1. r \in Seq(Handlers) /\ outLines[c] \in Seq(Handlers)
      BY <1>2, RepliesOf DEF IInv, TypeInv
    <3>2. outLines[c] \o r \in Seq(Handlers)
      BY <3>1, ConcatProperties
    <3> QED BY <3>2, <1>3 DEF IInv, TypeInv
  <2>3. i' \in [Conns -> Nat \ {0}]
    <3>1. k + 1 \in Nat \ {0}
      BY <1>2
    <3>2. i \in [Conns -> Nat \ {0}]
      BY DEF IInv, TypeInv
    <3> QED BY <3>1, <3>2, <1>1
  <2> QED BY <2>1, <2>2, <2>3, <1>1, <1>6 DEF IInv, TypeInv
<1>8. Ordered(c)'
  <2>1. DueNow(c)'
    BY <1>1, <1>2, <1>4 DEF DueNow
  <2> QED BY <2>1, <1>1, <1>2, <1>4 DEF Ordered
<1>9. ASSUME c = conn, c \notin lost PROVE Stage(c)'
  <2>1. Running(c)
    <3>1. Stage(c)
      BY <1>9 DEF IInv, LiveInv
    <3> QED BY <3>1, <1>1 DEF Stage, Sending, Sent, Answered, Ended
  <2>2. k - 1 \in 0..Len(n) - 1 /\ k - 1 \in 0..Len(n) /\ k - 1 + 1 = k /\ k - 1 < Len(n) /\ k + 1 - 1 = k
    BY <1>2
  <2>3. /\ SubSeq(n, 1, k - 1) \in Seq(AnyLine)
        /\ SubSeq(n, 1, k) = Append(SubSeq(n, 1, k - 1), x)
    BY <2>2, <1>5, OneLineMore DEF x
  <2>4. Fits(outLines[c] \o r, SubSeq(n, 1, k))
    <3>1. Fits(outLines[c], SubSeq(n, 1, k - 1)) /\ outLines[c] \in Seq(Handlers)
      BY <2>1 DEF Running, IInv, TypeInv
    <3> QED BY <3>1, <2>3, <1>2, FitsNext
  <2>5. Embeds(Append(SubSeq(n, 1, k - 1), x), Append(Since, x))
    <3>1. Embeds(SubSeq(n, 1, k - 1), Since) /\ Since \in Seq(AnyLine)
      BY <2>1, Typed DEF Running, IInv
    <3> QED BY <3>1, <2>3, <1>2, EmbedsNext
  <2>6. Running(c)'
    <3>1. /\ pc'[c] = "running" /\ back'[c] = <<>> /\ AllSent'
          /\ inLines'[c] = Batches[batch'] /\ inLines'[c] = n
      BY <2>1, <1>1 DEF Running, AllSent, Lines
    <3>2. i'[c] <= Len(inLines'[c]) + 1 /\ i'[c] - 1 = k
      BY <3>1, <2>2, <1>2, <1>4
    <3>3. Fits(outLines'[c], SubSeq(n, 1, k))
      BY <2>4, <1>4
    <3>4. Embeds(SubSeq(n, 1, k), Since')
      BY <2>3, <2>5, <1>6
    <3> QED BY <3>1, <3>2, <3>3, <3>4 DEF Running
  <2> QED BY <2>6 DEF Stage
<1>10. pc[c] # "off" /\ MoreRun
  BY <1>1, <1>2 DEF MoreRun
<1> QED BY <1>1, <1>4, <1>7, <1>8, <1>9, <1>10, ServerStep

LEMMA WriteStep == ASSUME IInv, NEW c \in Conns, WriteReplies(c) PROVE IInv'
<1>1. /\ pc[c] = "running" /\ i[c] > Len(inLines[c])
      /\ back' = IF c \in lost THEN back ELSE [back EXCEPT ![c] = @ \o <<outLines[c]>>]
      /\ inLines' = [inLines EXCEPT ![c] = <<>>] /\ outLines' = [outLines EXCEPT ![c] = <<>>]
      /\ i' = [i EXCEPT ![c] = 1]
      /\ pc' = [pc EXCEPT ![c] = IF Eof(c, wire[c]) THEN "closed" ELSE "reading"]
      /\ UNCHANGED <<conn, batch, sent, answers, mark, due>>
      /\ UNCHANGED <<lost, wire, torn, log, ran>>
  BY DEF WriteReplies, Writes, ctlVars
<1>2. /\ pc'[c] \in {"closed", "reading"} /\ (c \notin lost => pc'[c] = "reading")
      /\ inLines'[c] = <<>>
      /\ c \notin lost => back'[c] = back[c] \o <<outLines[c]>>
  BY <1>1 DEF IInv, TypeInv, Eof
<1>3. \A d \in Conns : d # c => Same(d)
  <2>1. \A d \in Conns : d # c => back'[d] = back[d]
    BY <1>1 DEF IInv, TypeInv
  <2> QED BY <2>1, <1>1 DEF IInv, TypeInv, Same
<1>4. /\ inLines[c] \in Seq(AnyLine) /\ Len(inLines[c]) \in Nat /\ i[c] \in Nat \ {0}
      /\ ran[c] \in Seq(AnyLine)
  BY Typed, LenProperties DEF IInv, TypeInv
<1>5. wire[c] = <<>> /\ due[c] = ran[c] /\ IsPrefix(ran[c], due[c])
  <2>1. /\ wire[c] = <<>> /\ IsPrefix(ran[c], due[c])
        /\ due[c] = ran[c] \o SubSeq(inLines[c], i[c], Len(inLines[c]))
    BY <1>1 DEF IInv, OrderInv, Ordered, DueNow
  <2>2. SubSeq(inLines[c], i[c], Len(inLines[c])) = <<>>
    BY <1>1, <1>4, SubSeqEmpty
  <2> QED BY <2>1, <2>2, <1>4, ConcatEmptySeq
<1>6. TypeInv'
  <2>1. /\ inLines' \in [Conns -> Seq(Known(batch))] /\ outLines' \in [Conns -> Seq(Handlers)]
        /\ i' \in [Conns -> Nat \ {0}]
    BY <1>1, EmptySeq DEF IInv, TypeInv
  <2>2. pc' \in [Conns -> {"off", "reading", "running", "closed"}]
    BY <1>1 DEF IInv, TypeInv
  <2>3. back' \in [Conns -> Seq(Seq(Handlers))]
    <3>1. back[c] \o <<outLines[c]>> \in Seq(Seq(Handlers))
      <4>1. back[c] \in Seq(Seq(Handlers)) /\ <<outLines[c]>> \in Seq(Seq(Handlers))
        BY DEF IInv, TypeInv
      <4> QED BY <4>1, ConcatProperties
    <3> QED BY <3>1, <1>1 DEF IInv, TypeInv
  <2> QED BY <2>1, <2>2, <2>3, <1>1 DEF IInv, TypeInv
<1>7. Ordered(c)'
  <2>1. DueOnOver(c)'
    BY <1>1, <1>5 DEF DueOnOver
  <2> QED BY <2>1, <1>1, <1>2, <1>5 DEF Ordered
<1>8. ASSUME c = conn, c \notin lost PROVE Stage(c)'
  <2>1. Running(c)
    <3>1. Stage(c)
      BY <1>8 DEF IInv, LiveInv
    <3> QED BY <3>1, <1>1 DEF Stage, Sending, Sent, Answered, Ended
  <2>2. /\ back[c] = <<>> /\ AllSent /\ inLines[c] = Batches[batch]
        /\ i[c] <= Len(inLines[c]) + 1
        /\ Fits(outLines[c], SubSeq(inLines[c], 1, i[c] - 1))
        /\ Embeds(SubSeq(inLines[c], 1, i[c] - 1), Since)
    BY <2>1 DEF Running
  <2>3. i[c] - 1 = Len(inLines[c]) /\ SubSeq(inLines[c], 1, Len(inLines[c])) = inLines[c]
    BY <2>2, <1>1, <1>4, SubSeqFull
  <2>4. Fits(outLines[c], Batches[batch]) /\ Embeds(Batches[batch], Since)
    BY <2>2, <2>3
  <2>5. back[c] \o <<outLines[c]>> = <<outLines[c]>>
    <3>1. <<outLines[c]>> \in Seq(Seq(Handlers))
      BY DEF IInv, TypeInv
    <3> QED BY <3>1, <2>2, ConcatEmptySeq
  <2>6. Answered(c)'
    <3>1. /\ pc'[c] = "reading" /\ AllSent' /\ inLines'[c] = <<>> /\ wire'[c] = <<>>
          /\ due'[c] = ran'[c] /\ batch' = batch /\ Since' = Since
      BY <2>2, <1>1, <1>2, <1>5, <1>8 DEF AllSent, Lines, Since
    <3>2. back'[c] = <<outLines[c]>> /\ outLines[c] \in Seq(Handlers)
      BY <2>5, <1>2, <1>8 DEF IInv, TypeInv
    <3> QED BY <3>1, <3>2, <2>4 DEF Answered
  <2> QED BY <2>6 DEF Stage
<1>9. pc[c] # "off" /\ MoreRun
  BY <1>1 DEF MoreRun
<1> QED BY <1>1, <1>3, <1>6, <1>7, <1>8, <1>9, ServerStep

-----------------------------------------------------------------------------

LEMMA NextInv == IInv /\ [Next]_vars => IInv'
<1> SUFFICES ASSUME IInv, [Next]_vars PROVE IInv'
  OBVIOUS
<1>1. CASE Connect
  BY <1>1, ConnectStep
<1>2. CASE Send
  BY <1>2, SendStep
<1>3. CASE Acknowledge
  BY <1>3, AcknowledgeStep
<1>4. CASE Lose
  BY <1>4, LoseStep
<1>5. ASSUME NEW c \in Conns, Server(c) PROVE IInv'
  <2>1. CASE StoreLine(c)
    BY <2>1, StoreStep
  <2>2. CASE BeginBatch(c)
    BY <2>2, BeginStep
  <2>3. CASE ReadFails(c) \/ WriteFails(c)
    BY <2>3, FailStep
  <2>4. CASE RunCommand(c)
    BY <2>4, RunStep
  <2>5. CASE CommandThrows(c)
    BY <2>5, ThrowStep
  <2>6. CASE WriteReplies(c)
    BY <2>6, WriteStep
  <2> QED BY <1>5, <2>1, <2>2, <2>3, <2>4, <2>5, <2>6 DEF Server
<1>6. CASE UNCHANGED vars
  <2>1. /\ UNCHANGED <<conn, batch, sent, answers, mark, due>>
        /\ UNCHANGED <<lost, wire, torn, back, pc, inLines, i, outLines, log, ran>>
    BY <1>6 DEF vars, ctlVars, netVars, srvVars
  <2>2. TypeInv'
    BY <2>1 DEF IInv, TypeInv
  <2>3. UnopenedInv'
    BY <2>1 DEF IInv, UnopenedInv
  <2>4. \A c \in Conns : Same(c)
    BY <2>1 DEF Same
  <2>5. OrderInv'
    BY <2>4, StaysOrdered DEF IInv, OrderInv
  <2>6. LiveInv'
    <3>1. MoreRun
      BY <2>1 DEF MoreRun
    <3> QED BY <2>1, <2>4, <3>1, StaysAtStage DEF IInv, LiveInv
  <2>7. AnswersFitTheirBatch'
    BY <2>1 DEF IInv, AnswersFitTheirBatch
  <2> QED BY <2>2, <2>3, <2>5, <2>6, <2>7 DEF IInv
<1>7. CASE Finished
  BY <1>6, <1>7 DEF Finished
<1> QED BY <1>1, <1>2, <1>3, <1>4, <1>5, <1>6, <1>7 DEF Next

(* The types hold, and every batch goes through the stages above.          *)
THEOREM SessionInvariance == Spec => []IInv
<1>1. Init => IInv
  BY InitInv
<1>2. IInv /\ [Next]_vars => IInv'
  BY NextInv
<1> QED BY <1>1, <1>2, PTL DEF Spec

(* A connection runs what is due on it, in order: whatever is lost, torn   *)
(* or thrown, no line of a batch is run before its OVER came, none is left *)
(* over for the next batch and none is run twice on the connection.        *)
THEOREM WholeBatchesInOrder == Spec => []RunsWholeBatchesInOrder
<1>1. IInv => RunsWholeBatchesInOrder
  BY DEF IInv, OrderInv, Ordered, RunsWholeBatchesInOrder
<1> QED BY <1>1, SessionInvariance, PTL

(* The lines the controller has read are the replies to the batch it sent, *)
(* in order and nothing else, however often it had to reconnect: whatever  *)
(* debugDomains lists, none is left from another batch or missing, and a   *)
(* batch that lists nothing is answered command by command.                *)
THEOREM AnswersPairUp == Spec => []AnswersFitTheirBatch
<1>1. IInv => AnswersFitTheirBatch
  BY DEF IInv
<1> QED BY <1>1, SessionInvariance, PTL

-----------------------------------------------------------------------------
(* The abstract specification: only running a line and acknowledging a     *)
(* batch are steps of it.                                                  *)

LEMMA RunRefines ==
  ASSUME IInv, NEW c \in Conns, pc[c] = "running", i[c] <= Len(inLines[c]),
         Runs(c), UNCHANGED <<batch, mark>>
  PROVE  Promise!Run
<1> DEFINE x == inLines[c][i[c]]
<1>1. x \in AnyLine /\ x \in Known(batch) /\ log' = Append(log, x)
  BY NextIsDue DEF Runs
<1> HIDE DEF x
<1>3. Since' = Append(Since, x)
  BY <1>1, SinceGrows DEF IInv
<1>4. batch \in Int /\ batch - 1 + 1 = batch
  BY Typed DEF IInv
<1>5. PICK k \in 1..Len(Batches) : \E n \in 1..Len(Batches[k]) :
        k <= batch /\ x = Batches[k][n]
  BY <1>1, <1>4, KnownLines
<1>6. PICK n \in 1..Len(Batches[k]) : k <= batch /\ x = Batches[k][n]
  BY <1>5
<1>7. Since' = Append(Since, Batches[k][n])
  BY <1>3, <1>6
<1> QED BY <1>4, <1>6, <1>7 DEF Promise!Run, Since

LEMMA AcknowledgeRefines == ASSUME IInv, Acknowledge PROVE Promise!Acknowledge
<1>0. PICK c \in Conns : c = conn /\ c \notin lost /\ back[c] # <<>>
  BY MaxConnsAssumption DEF IInv, TypeInv, Acknowledge, Connected, Conns
<1>1. Answered(c)
  <2>1. Stage(c)
    BY <1>0 DEF IInv, LiveInv
  <2> QED BY <2>1, <1>0 DEF Stage, Sending, Sent, Running, Ended
<1>2. batch \in 1..Len(Batches) /\ Len(Batches) \in Nat
  BY <1>1, Typed, BatchesAssumption, LenProperties DEF IInv, Answered, AllSent
<1>3. batch - 1 < Len(Batches) /\ batch - 1 + 1 = batch
  BY <1>2
<1>4. Promise!Embeds(Batches[batch - 1 + 1], Since)
  BY <1>1, <1>3 DEF Answered, Embeds
<1>5. batch' - 1 = (batch - 1) + 1 /\ mark' = Len(log) /\ log' = log
  BY <1>2 DEF Acknowledge, srvVars
<1>6. Since' = <<>>
  <2>1. Len(log) \in Nat
    BY LenProperties DEF IInv, TypeInv
  <2> QED BY <2>1, <1>5, SubSeqEmpty DEF Since
<1> QED BY <1>3, <1>4, <1>5, <1>6 DEF Promise!Acknowledge, Since

(* A batch has run, whole and in order, since the one before it was        *)
(* acknowledged, by the time it is: at least once, as a controller that    *)
(* sends it again after a loss relies on.                                  *)
THEOREM SessionsImplementAtLeastOnce == Spec => ImplementsAtLeastOnce
<1>1. Init => Promise!Init
  <2> SUFFICES ASSUME Init PROVE Promise!Init
    OBVIOUS
  <2>1. batch - 1 = 0 /\ mark = 0 /\ log = <<>> /\ Len(<<>>) = 0
    BY DEF Init
  <2>2. SubSeq(log, mark + 1, Len(log)) = <<>>
    BY <2>1, SubSeqEmpty
  <2> QED BY <2>1, <2>2 DEF Promise!Init
<1>2. IInv /\ [Next]_vars => [Promise!Next]_<<batch - 1, SubSeq(log, mark + 1, Len(log))>>
  <2> SUFFICES ASSUME IInv, [Next]_vars
               PROVE  \/ Promise!Run \/ Promise!Acknowledge
                      \/ UNCHANGED <<batch, log, mark>>
    BY DEF Promise!Next
  <2>1. CASE Connect
    BY <2>1 DEF Connect
  <2>2. CASE Send
    BY <2>2 DEF Send, srvVars
  <2>3. CASE Acknowledge
    BY <2>3, AcknowledgeRefines
  <2>4. CASE Lose
    BY <2>4 DEF Lose, ctlVars, srvVars
  <2>5. ASSUME NEW c \in Conns, Server(c)
        PROVE  Promise!Run \/ UNCHANGED <<batch, log, mark>>
    <3>1. CASE StoreLine(c) \/ BeginBatch(c)
      BY <3>1 DEF StoreLine, BeginBatch, Read, ctlVars
    <3>2. CASE ReadFails(c) \/ WriteFails(c)
      BY <3>2 DEF ReadFails, WriteFails, ctlVars
    <3>3. CASE RunCommand(c)
      BY <3>3, RunRefines DEF RunCommand, ctlVars
    <3>4. CASE CommandThrows(c)
      BY <3>4, RunRefines DEF CommandThrows, ctlVars
    <3>5. CASE WriteReplies(c)
      BY <3>5 DEF WriteReplies, Writes, ctlVars
    <3> QED BY <2>5, <3>1, <3>2, <3>3, <3>4, <3>5 DEF Server
  <2>6. CASE UNCHANGED vars \/ Finished
    BY <2>6 DEF Finished, vars, ctlVars, srvVars
  <2> QED BY <2>1, <2>2, <2>3, <2>4, <2>5, <2>6 DEF Next
<1> QED BY <1>1, <1>2, SessionInvariance, PTL DEF Spec, ImplementsAtLeastOnce, Promise!Spec
=============================================================================
