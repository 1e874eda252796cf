----------------------------- MODULE EchoClient -----------------------------
(***************************************************************************)
(* The echo client: it connects to one of the addresses a name resolves    *)
(* to, then copies what is typed to its peer and what the peer sends back  *)
(* to its output, in one loop around select with a growing ring for each   *)
(* direction.  The peer is an echo server such as ssl_server.py's child:   *)
(* it reads a block and writes it back before it reads the next.  Between  *)
(* the two lie channels of bounded size.  Bytes are numbered as typed.     *)
(***************************************************************************)
EXTENDS RingCharBuff, FiniteSets

CONSTANTS
  N,              \* bound: bytes typed
  Addresses,      \* the number of addresses the host resolves to
  BLOCKSIZE,
  INITRINGSIZE,
  Room            \* what a channel holds

ASSUME SizesAssumption ==
  /\ {N, Addresses} \subseteq Nat
  /\ {BLOCKSIZE, INITRINGSIZE, Room} \subseteq Nat \ {0}

VARIABLES
  pc,             \* where the client is
  left,           \* the addresses it has not tried
  rs, ws,         \* the descriptors select found ready
  sring, cring,   \* what is on its way to the peer, and to the output
  block,          \* what it has read and not yet put into a ring
  typed,          \* how many bytes have been typed
  input, inputOpen,      \* those the client has not read
  toPeer, fromPeer,      \* the connection's channels
  held, peerOpen,        \* the block the peer is echoing
  printed         \* what has come out

client == <<pc, left, rs, ws, sring, cring, block>>
peer == <<held, peerOpen>>
user == <<typed, inputOpen>>
vars == <<client, peer, user, input, toPeer, fromPeer, printed>>

Init ==
  /\ pc = "connect" /\ left = Addresses
  /\ rs = {} /\ ws = {}
  /\ sring = RingInit(INITRINGSIZE) /\ cring = RingInit(INITRINGSIZE)
  /\ block = <<>> /\ typed = 0 /\ input = <<>> /\ inputOpen = TRUE
  /\ toPeer = <<>> /\ fromPeer = <<>> /\ held = <<>> /\ peerOpen = TRUE
  /\ printed = <<>>

First(s, n) == SubSeq(s, 1, IF n < Len(s) THEN n ELSE Len(s))
Rest(s, n) == SubSeq(s, n + 1, Len(s))

-----------------------------------------------------------------------------
(* The world around the client.                                            *)

Type ==
  /\ inputOpen /\ typed < N
  /\ typed' = typed + 1 /\ input' = Append(input, typed + 1)
  /\ UNCHANGED <<client, peer, inputOpen, toPeer, fromPeer, printed>>

CloseInput ==
  /\ inputOpen /\ inputOpen' = FALSE
  /\ UNCHANGED <<client, peer, typed, input, toPeer, fromPeer, printed>>

PeerReads ==
  /\ peerOpen /\ held = <<>> /\ toPeer # <<>>
  /\ held' = First(toPeer, BLOCKSIZE) /\ toPeer' = Rest(toPeer, BLOCKSIZE)
  /\ UNCHANGED <<client, peerOpen, user, input, fromPeer, printed>>

PeerWrites ==
  LET n == Room - Len(fromPeer)
  IN /\ peerOpen /\ held # <<>> /\ n > 0
     /\ fromPeer' = fromPeer \o First(held, n) /\ held' = Rest(held, n)
     /\ UNCHANGED <<client, peerOpen, user, input, toPeer, printed>>

PeerCloses ==
  /\ pc \notin {"connect", "hangs"} /\ peerOpen /\ peerOpen' = FALSE
  /\ UNCHANGED <<client, held, user, input, toPeer, fromPeer, printed>>

-----------------------------------------------------------------------------
(* sockconnect.  Its failure is not looked at: echo_client then selects on *)
(* descriptor -1, of which nothing is defined.                             *)

World == <<peer, user, input, toPeer, fromPeer, printed, rs, ws, sring, cring, block>>

SocketFails == pc = "connect" /\ left > 0 /\ pc' = "hangs" /\ UNCHANGED <<left, World>>

(* Mutant: after the last address comes the first.                         *)
StartsOver ==
  /\ pc = "connect" /\ left > 0
  /\ left' = (IF left = 1 THEN Addresses ELSE left - 1)
  /\ UNCHANGED <<pc, World>>

ConnectFails ==
  pc = "connect" /\ left > 0 /\ left' = left - 1 /\ UNCHANGED <<pc, World>>
Connects == pc = "connect" /\ left > 0 /\ pc' = "select" /\ UNCHANGED <<left, World>>
NoMoreAddresses ==
  pc = "connect" /\ left = 0 /\ pc' = "hangs" /\ UNCHANGED <<left, World>>

-----------------------------------------------------------------------------
(* echo_client.                                                            *)

(* Mutant: the client reads only when it has nothing to send.              *)
ReadsWhenIdle == IF sring.used > 0 THEN {} ELSE {"si", "cs"}

ReadSet == {"si", "cs"}
WriteSet == {fd \in {"so"} : cring.used > 0} \cup {fd \in {"cs"} : sring.used > 0}

Readable(fd) ==
  \/ fd = "si" /\ (input # <<>> \/ ~inputOpen)
  \/ fd = "cs" /\ (fromPeer # <<>> \/ ~peerOpen)
(* Whether the output takes bytes is up to who reads it.                   *)
Writable(fd, outputReady) ==
  \/ fd = "so" /\ outputReady
  \/ fd = "cs" /\ (Len(toPeer) < Room \/ ~peerOpen)

Selects(outputReady) ==
  LET r == {fd \in ReadSet : Readable(fd)}
      w == {fd \in WriteSet : Writable(fd, outputReady)}
  IN /\ pc = "select" /\ r \cup w # {}
     /\ rs' = r /\ ws' = w /\ pc' = "readPeer"
     /\ UNCHANGED <<left, sring, cring, block, peer, user, input, toPeer, fromPeer, printed>>

Select == \E outputReady \in BOOLEAN : Selects(outputReady)

(* A step whose descriptor is not ready goes on to the next.               *)
Skip(here, ready, next) ==
  /\ pc = here /\ ~ready /\ pc' = next
  /\ UNCHANGED <<left, World>>

SkipPeer == Skip("readPeer", "cs" \in rs, "readTyped")
SkipTyped == Skip("readTyped", "si" \in rs, "print")
SkipOutput == Skip("print", "so" \in ws, "send")
SkipSend == Skip("send", "cs" \in ws, "select")

ReadPeer ==
  /\ pc = "readPeer" /\ "cs" \in rs /\ fromPeer # <<>>
  /\ block' = First(fromPeer, BLOCKSIZE) /\ fromPeer' = Rest(fromPeer, BLOCKSIZE)
  /\ pc' = "addPeer"
  /\ UNCHANGED <<left, rs, ws, sring, cring, peer, user, input, toPeer, printed>>

ReadTyped ==
  /\ pc = "readTyped" /\ "si" \in rs /\ input # <<>>
  /\ block' = First(input, BLOCKSIZE) /\ input' = Rest(input, BLOCKSIZE)
  /\ pc' = "addTyped"
  /\ UNCHANGED <<left, rs, ws, sring, cring, peer, user, toPeer, fromPeer, printed>>

(* A ring doubles for as long as the block would not leave a byte free.    *)
Fits(ring) == Len(block) < RingFree(ring)
Doubled(ring) == RingResize(ring, 2 * ring.size)

GrowPeerRing ==
  /\ pc = "addPeer" /\ ~Fits(cring) /\ cring' = Doubled(cring)
  /\ UNCHANGED <<pc, left, rs, ws, sring, block, peer, user, input, toPeer, fromPeer, printed>>
GrowTypedRing ==
  /\ pc = "addTyped" /\ ~Fits(sring) /\ sring' = Doubled(sring)
  /\ UNCHANGED <<pc, left, rs, ws, cring, block, peer, user, input, toPeer, fromPeer, printed>>

AddPeer ==
  /\ pc = "addPeer" /\ Fits(cring) /\ pc' = "readTyped"
  /\ cring' = RingAdd(cring, block) /\ block' = <<>>
  /\ UNCHANGED <<left, rs, ws, sring, peer, user, input, toPeer, fromPeer, printed>>
AddTyped ==
  /\ pc = "addTyped" /\ Fits(sring) /\ pc' = "print"
  /\ sring' = RingAdd(sring, block) /\ block' = <<>>
  /\ UNCHANGED <<left, rs, ws, cring, peer, user, input, toPeer, fromPeer, printed>>

(* The end of either input ends the program, whatever the rings hold.      *)
PeerEnds ==
  /\ pc = "readPeer" /\ "cs" \in rs /\ fromPeer = <<>> /\ ~peerOpen
  /\ pc' = "peer ended"
  /\ UNCHANGED <<left, World>>
InputEnds ==
  /\ pc = "readTyped" /\ "si" \in rs /\ input = <<>> /\ ~inputOpen
  /\ pc' = "input ended"
  /\ UNCHANGED <<left, World>>

(* A write may take a part of the block; only that part leaves the ring.   *)
WriteOutput ==
  /\ pc = "print" /\ "so" \in ws
  /\ LET offered == RingGet(cring, BLOCKSIZE)
     IN \E bytesw \in 1..Len(offered) :
          /\ printed' = printed \o First(offered, bytesw)
          /\ cring' = RingDec(cring, bytesw)
  /\ pc' = "send"
  /\ UNCHANGED <<left, rs, ws, sring, block, peer, user, input, toPeer, fromPeer>>

Offers(sent, removed) ==
  /\ pc = "send" /\ "cs" \in ws /\ peerOpen
  /\ toPeer' = toPeer \o sent /\ sring' = RingDec(sring, removed)
  /\ pc' = "select"
  /\ UNCHANGED <<left, rs, ws, cring, block, peer, user, input, fromPeer, printed>>

(* Mutant: the whole block leaves the ring.                                *)
SendForgets ==
  LET offered == RingGet(sring, BLOCKSIZE)
  IN Offers(First(offered, Room - Len(toPeer)), Len(offered))

Send ==
  LET sent == First(RingGet(sring, BLOCKSIZE), Room - Len(toPeer))
  IN Offers(sent, Len(sent))

SendFails ==
  /\ pc = "send" /\ "cs" \in ws /\ ~peerOpen /\ pc' = "peer ended"
  /\ UNCHANGED <<left, World>>

Connecting == SocketFails \/ ConnectFails \/ Connects \/ NoMoreAddresses
Looping ==
  \/ Select \/ SkipPeer \/ ReadPeer \/ GrowPeerRing \/ AddPeer \/ PeerEnds
  \/ SkipTyped \/ ReadTyped \/ GrowTypedRing \/ AddTyped \/ InputEnds
  \/ SkipOutput \/ WriteOutput \/ SkipSend \/ Send \/ SendFails

Over == pc \in {"hangs", "peer ended", "input ended"}

(* Everything waits when all there was to type has come back.              *)
Idle ==
  /\ Over \/ (typed = N /\ pc = "select" /\ Len(printed) = N)
  /\ UNCHANGED vars

Next ==
  \/ Connecting \/ Looping
  \/ Type \/ CloseInput \/ PeerReads \/ PeerWrites \/ PeerCloses \/ Idle

(* The client runs on, an echo server echoes, and whoever reads the output *)
(* does so again and again, though not by every time the client looks.     *)
Spec ==
  /\ Init /\ [][Next]_vars /\ SF_vars(Selects(TRUE))
  /\ WF_vars(Connecting) /\ WF_vars(Looping) /\ WF_vars(PeerReads) /\ WF_vars(PeerWrites)

-----------------------------------------------------------------------------
(* Properties.                                                             *)

(* No byte is lost, doubled or overtaken on its way around, through        *)
(* partial reads and writes, wrapped and growing rings: what has come out, *)
(* and what is still in each place on the way, is what was typed in order. *)
NothingIsLostOnTheWay ==
  LET readFrom(here) == IF pc = here THEN block ELSE <<>>
  IN /\ RingOK(sring) /\ RingOK(cring)
     /\ printed \o RingBytes(cring) \o readFrom("addPeer") \o fromPeer \o held \o toPeer
          \o RingBytes(sring) \o readFrom("addTyped") \o input
        = [k \in 1..typed |-> k]

(* Whatever is typed comes out, unless one of the sides ends.  The client  *)
(* keeps on reading while it cannot write, and its rings grow: otherwise   *)
(* it and the peer could each wait for the other to read.                  *)
EchoComesBack == \A n \in 1..N : typed >= n ~> (Len(printed) >= n \/ Over)

(* One address after the other is tried: connecting comes to an end.       *)
ConnectingEnds == <>(pc # "connect")
=============================================================================
