# A TLA+ development for glbbackend

glbbackend is a PowerDNS backend that balances load between sites: a controller
sends it, over TCP, the domains it serves and the addresses of each, and
PowerDNS threads ask it for records.  Everything lives in the memory of one
process, shared by all of them.  This directory holds TLA+ modules of that
process and of the programs kept beside it, the TLC configurations that check
them, and proofs checked by TLAPS.

## The system

| Part | State | Operations | Where it is hard |
|---|---|---|---|
| **GlbContainer** (`GlbContainer.cc/.hh`) | records `ips`, lookup count `nLookups`, algorithm, name; two mutexes | `setIPs`, `getIPs` with one selection per algorithm, `incNLookups`, `clrNLookups`, `getNLookups`, `to_string` | batches against readers, lost increments, a count read without its mutex |
| **Weighted algorithm** (`gcdreduce`, `expandweights`) | none | two loops over vectors | zero and negative weights, exactness, termination |
| **Domain map** (`glbMap`, `glbMapMutex`) | name -> shared pointer to a container | find, insert, erase, clear, iterate | an iterator or a container that outlives its entry; a search with no lock |
| **Command handlers** (`GLBCommandServer.cc`) | the map, the containers, the SOA and NS data | ten commands | check-then-act, partial failure, several locks |
| **Command sessions** (`server`, `splitStr`, `cmdMatch`, `joinStr`) | lines read, lines to write | read to `OVER`, run, write | a connection lost before `OVER` or after the effects; a batch sent again |
| **SOA and NS data** (`SOAContainer.cc`) | two shared pointers and a mutex | set, get | a list replaced while it is iterated |
| **GLBBackend** (`glbbackend.cc`) | the answer under construction, one object per PowerDNS thread | `lookup`, `get` | state left from the question before, reads of shared data at several times |
| **Start-up** (`ServerSingleton.cc`, `listener`, `server_main.cc`, `StartUpClient.cc`) | the singleton and its mutex, the socket | construct once, bind, accept | many threads construct at once; bind fails in a detached thread |
| **Replies** (`ServerJsonBuilder.cc`) over **rapidjson** | members and has-flags; values, a writer's stack, a memory pool | setters, `toJson` | lifetime of strings, members left out, one line per reply |
| **GLBCollection** | a second map under the first one's mutex | add, remove, get, size | find, then act; `operator[]` inserts |
| **Experiments** (`contrib/experiments`) | ring buffer, bit array, map, deque, threads behind a prompt; an echo client with two rings | the commands of the shells; a `select` loop | growth while wrapped, partial reads and writes, objects deleted in several places, a stream that has failed |

Interaction.  Every connection has a thread that runs commands; every PowerDNS
thread has a `GLBBackend`.  They never call each other.  They meet in
`glbMap` (under `glbMapMutex`, meant for both sides), in the containers (each
with a reader-writer mutex for its records and a mutex for its count) and in
the SOA and NS pointers (under `soaMutex`).  A `shared_ptr` keeps a container,
or a list of name servers, for whoever still holds it.  The first `GLBBackend`
built brings up the listener, by way of `ServerSingleton`; the controller's
only evidence of what happened is the replies a session writes, one line of
JSON each, after it has run a whole batch.

What makes the parts correct:

* a container's calls look atomic, whole batches are served in the order they
  were published, and no lookup is lost or counted twice;
* commands on the map are atomic and their replies true, a name is never
  silently given another container, and records sent for a name reach the
  container of that name and no other;
* the answer to one question is consistent: the NS records come from one list,
  the SOA record fits its domain, the addresses belong to the name asked for
  and are of a type its algorithm selects;
* a batch that is answered has run, whole and in order, and the lines before
  `OVER` are the replies to its commands; what is written as a reply is read back
  as it was set;
* one listener comes up, or the process ends;
* nobody waits for ever: calls and commands return, batches are answered, `get`
  comes to an end, connections are accepted.

`PROJECT.json` lists the components with their sources, which definition models
which lines, and under "hazards" the places in the code where these can go
wrong.

## Modules

| Module | Models | Notes |
|---|---|---|
| `GlbData` | record types, algorithms, the selections of `getIPs`, `matchesBaseFqdn` | pure operators; a name is the sequence of its labels |
| `AtomicContainer` | what a container promises | abstract: one instant per effect |
| `GlbContainer` | a container and its callers, lock by lock | a batch goes in record by record, `nLookups++` is a load and a store |
| `GlbShared` | the state the two sides share, its locks | containers are atomic here, as `GlbContainer` shows they are |
| `GLBCommandServer` | the ten commands of a session | one action between two points where others can interfere |
| `GLBBackend` | `lookup` and `get` | |
| `GlbRegistry` | what sessions are promised of the map | abstract: one instant per command |
| `GlbSystem` | sessions and PowerDNS threads together, the properties | |
| `WeightedAlgo` | `gcdreduce` and `expandweights`, loop by loop | |
| `CommandSession` | the sessions and a controller that repeats itself | a line is its words |
| `AtLeastOnce` | what that controller is promised | abstract |
| `CommandLine` | `string2vector`, `splitStr`, `joinStr`, `vectorToString` | the first character by character |
| `ServerStartup` | singleton, listener, accept loop, `server_main`, `StartUpClient` | |
| `GLBCollection` | the collection and its callers, and the global map's mutex | |
| `RapidJson` | values, `Accept`, the writer, the reader, the document | as far as this code uses them; calls inside each other are sequences |
| `ServerJsonBuilder` | the setters and `toJson` | extends `RapidJson` |
| `MemoryPool` | `MemoryPoolAllocator` with three kinds of block | |
| `Replies` | the two above side by side | |
| `RingCharBuff`, `EchoClient` | `client.c`: its rings; connecting and the `select` loop with an echoing peer | between a read and the ring stands `block`, while the ring doubles step by step |
| `SillyShell` | the prompt loop all shells share, with the states of `cin` | `MapShell` and `DemoShell` extend it |
| `MapShell`, `DemoShell` | the commands of `unordered_map/main.cpp`; those of `maindemo` with state of their own | |
| `RingBuffer`, `ByteQueue` | the ring buffer and its commands; the bounded queue it implements | until a negative number takes its head out of the array |
| `BitArray`, `BitVector` | the bit array and its commands; the vector of bits it implements | |
| `ThreadManager` | `maindemo`'s threads, their list and their mutex | |
| `Shells` | the six above as one program, one group of commands at a time | |
| `...Proofs` | | eight modules of theorems, see "Proofs" |
| `MC...` | the instances TLC checks | |

### Correspondence with the code

*Containers.*  A section that only reads under a shared lock is one step: nobody
can write before it ends.  `glbHolder` and `countHolder` are the exclusive
holders of `glbMutex` and `nLookupsMutex`.

*Map and commands.*  `mapWriter` and `mapReaders` are the holders of
`glbMapMutex`.  Insertions and erasures take two steps, and the hash table is
`mapInFlux` between them; a command that walks the map keeps the shared lock
from its first step to its last, and `todo` is what its iterator has still to
visit.  A session that finds a container and uses it after the lock is released
(`SNAPSHOT`) does so in two steps.  `used` containers are never allocated
again, which is what `shared_ptr` gives as long as anyone holds one.  A domain's name is the
sequence of its labels, and `LowerCase` the conversion `lookup` applies to it.

*Serving.*  `lookup` takes no lock on the map: the line that should declares a
variable called `glbMapMutex` instead.  So a search may meet a writer inside the
hash table, and the model then lets it see the old entry, miss it, or crash the
process (`up` becomes FALSE and everything stops).  The search and the use of its
iterator are one step (`LookupFind`): an entry erased between the two either still reads
as the container it led to, as in a step before the erasure, or crashes the
process, as above.  That its memory holds another entry by then, and the question
is answered from another domain's container, is left out.  Properties are of the
behaviours up to such a crash, and the liveness ones say so.  PowerDNS is
external: it calls `lookup`, then `get` until it returns false, and may give up
on a question and ask the next one.  Selection by `random_shuffle` is any
permutation.  `GEOIP` and `WEIGHTED` have no case in `getIPs` and select nothing.

*Sessions.*  A command runs in one step, which is all a session's thread sees of
it; what commands do to the map is `GLBCommandServer`'s.  Each adds one line to the
replies, but `DEBUG_DOMAINS`, which adds a line of plain text for every domain it
comes by, or none: any number here up to `MaxListed`, each named for the command.  `ran` and `due` are
histories: per connection the lines it has run, and the batches whose `OVER`
was written on it.  A connection is lost at any point; lines on their way are then cut
anywhere, and the last may arrive without its newline.  The controller is
external: it sends a batch, waits for `OVER`, and after a loss sends the batch
again over a new connection, while the old session may still be running.

*Start-up.*  `holder` is the holder of `serverSingletonMutex`; a thread may fail
to be created, an address to parse, a port to be free.  `files` is whether a
descriptor can be had, which changes at any time.  Without one the listener ends
the process before it listens (`ResolveThrows`, `BindThrows`), and after that
`accept` fails (`AcceptFails`): the connection stays in the queue, the exception is
caught, and the loop throws again at once.  What throws once a connection has been
accepted closes it (`AcceptThrows`).  Other users of the port, and the clients, are
external.

*Replies.*  Text is a sequence of characters, punctuation by its name, and of
numbers by their value at their width: `int` ranges over `-IntHalf..(IntHalf - 1)`
and `int64_t` over the same with `Int64Half`, so that what a conversion does to a
number is kept.  `calls` are the calls of `Accept` inside each other, each with the
value it was made for and how many members it has come to; an `Accept` step is
one event, or the name of a member with what its value begins with.  `writer` is
the `Writer`: its levels, its output, and whether an assertion has failed.  The
reader is a function of the text: `Read` takes one unit of it, and `open` are the
`ParseObject` and `ParseArray` calls it is in, `at` the place in the innermost.
A `c_str()` ends at the first NUL (`CStr`).
Whether two strings share one buffer, as the library's reference-counted strings
of the time do, is `shared`; if not, `copies` is what the pointers into the loop's
copies of the addresses read, any string of `Garbage` for each, newlines included.

*Experiments.*  A shell's user is external and types any line of a finite menu,
also one too long for the buffer, which is then cut anywhere, or ends the input.
Uninitialised bits are `Undefined`, and no command may act on them; of an
uninitialised byte it matters whether it is a newline (`Leftovers`).  The numbers after
`nrb`, `nrbr` and `nrbdec` go from `atoi` into the ring unchecked and may be
negative here too: the shell catches what a negative `nrb`, or `nrbr` below -1,
throws; a negative `nrbdec` moves the head back and counts the bytes there as used.  Bytes of the echo
client are numbered as typed.

## Runs

| Run | Instance | Shows |
|---|---|---|
| `GlbContainer.cfg` | 3 threads, 3 calls, any algorithm, batches of up to two records of both families | mutex ownership; the container implements `AtomicContainer`; every call returns |
| `MapSessions.cfg` | 2 sessions, 4 commands, 3 containers, one PowerDNS thread with one question | map lock, iterators, containers and their names, nothing replaced or revived, the commands implement `GlbRegistry`, every command is answered |
| `ServeQuestions.cfg` | 1 session with 3 commands, 1 PowerDNS thread with 3 questions | NS, SOA and address answers are consistent, `get` ends |
| `WeightedAlgo.cfg` | all vectors of up to 3 weights in -4..8 | `gcdreduce` |
| `LookupRaces.cfg` | 1 session, 1 command, 1 question | violated: `lookup` does not lock the map |
| `ExpandWeights.cfg` | as `WeightedAlgo.cfg` | violated: `expandweights` fills the wrong vector |
| `CommandSession.cfg` | 2 batches, one with a command that lacks its argument, one with `DEBUG_DOMAINS`; 2 connections | a session runs what was sent, whole batches in order; what is read before `OVER` are the replies to the batch, paired with its commands where none lists the domains; the whole implements `AtLeastOnce`; batches are answered |
| `ServerStartup.cfg` | 3 PowerDNS threads or the main program, 2 clients, other users of the port and of descriptors | one listener, started before any backend is handed out; bound for good; it listens or the process ends; connections are taken, if there are descriptors |
| `GLBCollection.cfg` | 3 callers, one name, 2 containers | no container is replaced, none is made up |
| `Replies.cfg` | 2 strings with every kind of character, one cut by a NUL, and 2 to be read in place of a freed one; counts on both sides of each width, lists of up to 2; a pool of 4 chunks | the writer's assertions hold; every reply is one line and is read back as it was set, but for the texts of addresses whose strings are gone; pool blocks are disjoint, aligned and keep their contents |
| `EchoClient.cfg` | 5 bytes, 2 addresses, blocks of 2, rings of 3, channels of 1 | nothing is lost, doubled or overtaken; what is typed comes back; connecting ends |
| `Shells.cfg` | one group of commands at a time, each with a menu of lines | see `MCShells`: what is kept stays in order, what is worked out is right, bits and ring implement `BitVector` and `ByteQueue`, the ring until its head is lost, lines become words, commands keep the rest, commands return |

The bounds.

* *Container.*  A lost increment, a torn batch or a forgotten unlock takes two
  threads in one section and a third to see it: three calls.
* *Map.*  A race for a name takes two `ADD_DOMAIN`s; a stale container takes
  `ADD`, `SNAPSHOT`, `DEL` and `ADD` again, four commands of two sessions, with
  a container to spare for the second `ADD`; `COUNTS` and `CLR_COUNTS` are asked
  of all domains and of two names of which one may be missing.
* *Serving.*  One session is enough, for its three commands already fall anywhere
  between the steps of a question, and so is one PowerDNS thread: a `GLBBackend`
  shares no member with another.  Three questions let what one leaves behind
  reach the next.  The domain may be added with either algorithm and is given an
  address of each type, which no question but ANY gets both of.  `MaxAnswers` (8) is never reached by a correct `get`, which
  has at most six records to give; it keeps a `get` that never ends finite.
* *Sessions.*  A batch sent again needs a second connection, and a batch behind
  it shows whether lines or replies move from one to the next.  A listing of no
  lines, one, or two (`MaxListed`) is less, as much, and more than one reply.
* *Start-up.*  Two threads in `getInstance` and one that comes when it is done; a
  queue of two connections, of which one accept may throw.
* *Collection.*  Two callers between whose search and action a third may come;
  names do not affect one another.
* *Replies.*  `int` is three bits wide (`IntHalf = 4`), so the counts 3, 4, 7 and 8 are
  the last and first of each range, and `int64_t` six (`Int64Half = 32`); two elements are the least that need a comma, and an
  object's member order.  In the pool, strings of 1, 5 and 8 bytes leave padding
  or none, and twelve-byte chunks are filled exactly, overfilled, and grown into.
* *Echo.*  Rings of 3 with blocks of 2 do not divide, so reads and writes meet the
  end of the array at every offset; five bytes make both rings grow while
  they wrap, the one to the terminal because that does not always take what is
  there; with room for one byte in each channel writes are partial.
* *Shells.*  Four-bit words, arrays below, at and above a word's size, positions
  on both sides of every bound; rings of -1 to three bytes, and six once
  doubled, numbers from -2 to 2, and no more than five bytes brought back
  (`MaxUsed`), which overfills every ring but the largest; lines of up to five characters with a buffer for two, so that a word
  is shorter than the buffer, fills it, or is cut by it; three threads that
  write up to two lines.

`MaxCommands`, `MaxQueries`, `MaxCalls`, `MaxConns`, `N`, `MaxThreads`,
`MaxChunks`, `MaxRing`, `MaxUsed`, `MaxSize`, `MaxListed` and `MaxNew` bound the workload and nothing
the code itself limits.  Where a workload ends, an action of its own
(`Finished`, `Idle`, `MainSleeps`) is the end of it, so that deadlock is looked
for.  `Replies.cfg` and `Shells.cfg` turn that off: the pool stops at
`MaxChunks`, a shell stops when its user has left it.

### Fairness

Each thread that has begun a call, a command or a question goes on as long as it
can (weak fairness per thread): the operating system schedules runnable threads
and boost's mutexes wake a waiter once they are free.  Nothing is assumed of
when commands or questions arrive, and nothing of the choice between waiting
writers and readers: with a finite workload a lock is eventually free for good.
That an unbounded stream of readers cannot starve a writer is up to boost and
not claimed.

The same holds of the threads of sessions, of those that build backends, of the
listener, of `maindemo`'s threads and of the echo client.  Beyond the code's own
threads three things are assumed: that a controller reads the replies that have
reached it, that the echo server reads and writes, which is what it is for, and
that `select` finds the terminal behind the echo client ready again and again
(strong fairness), not each time.  No client, user, or connection is made to do
anything, and a loss is never excluded.  Descriptors come and go as they like, so
`ConnectionsAreTaken` is conditional: if from some time on there is one, every
connection in the queue is served or closed.  It may wait for ever without.

## What the checks show of the code

Violations, each a run of its own:

* `glbbackend.cc:102` does not lock `glbMapMutex`; every other access does, and
  apart from `lookup` the map's discipline holds.
* `expandweights` (`GlbContainer.cc:95`) pushes onto `weights`, not `expanded`.

What the code does, and the specifications therefore say:

* `SNAPSHOT` adds to what a domain has; it never replaces.  One with bad entries
  answers FAILED and publishes the good ones, and one that races with
  `DEL_DOMAIN` answers PASSED for records nobody will be served.
* `COUNTS` with names is not atomic, `COUNTS` without is, as to the names.
* `soaRecord` is sent for every SOA question but set only for names under the
  base domain: outside, the record of an earlier question goes out with the
  present base domain.  `SoaRecordFitsItsDomain` therefore speaks of names
  under it.
* `RANDOM` looks at whether something is asked for, not at what: it
  serves IPv4 records to AAAA questions and never serves IPv6
  ones (`RandomWants`).
* Names are registered as sent and looked up in lower case: a domain added with
  a capital letter is never found.
* Batches run at least once: nothing tells a batch that is sent again from a new
  one, and an abandoned session finishes what it has begun, so two sessions may
  be running the same batch.
* A bind that fails does so in a detached thread and ends the process, after
  backends have been handed out.
* The addresses of a `SNAPSHOT` reply are kept by pointers into a copy that is
  gone when the reply is written (`ServerJsonBuilder.cc:126`).  They are read
  back only where strings share their buffers; elsewhere the characters are
  arbitrary, but escaped as any others: the reply stays one line, it parses, and
  its other members are what was set.
* The lines of `DEBUG_DOMAINS` stand among the replies with nothing to tell how
  many they are, so a controller can pair replies with commands by position only
  in a batch without it.
* When the process is out of descriptors the accept loop throws without a pause
  until there is one again; the connections wait.
* A `SET_NS` reply has no name servers in it: `toJson` leaves them out.
* A leading blank makes an empty first word, and the line matches no command.
* `getBit` (`BitArray.cpp`) lets the position `nBits` through, one more than
  `setBit`: what it then reads is not one of the array's bits, or is beyond its
  last word.
* `ring_buffer::read` copies from the front of the array, not from `h_idx`, and
  all used bytes, whatever its argument; `ByteQueue` promises nothing of it.
* `ring_buffer::dec` takes any number: `nrbdec -1` counts the byte before the
  head as used again (`ByteQueue`'s `BringBack`), and after it the ring may have
  more bytes used than it has, or its head at a negative index, where reading and
  writing are outside of the array.  Of such a ring nothing is promised but its
  capacity, until `nrb` replaces it.
* The echo client ends with the input, before what was typed last is back.
* A line too long for a shell's buffer is cut, also inside a word, and leaves
  `cin` failed: no later line is read, `exit` included.
* `clear` in the map's shell takes a second word, which it does not use.
* `wb` with a negative number subtracts from the bytes counted; `rs` with one
  removes all pointers; `st` lists threads that have long finished.

## Proofs

Eight modules hold theorems.  Each assumes what the modules it extends state of
their constants (the `ASSUME`s TLC evaluates on every instance) and nothing else.
That is little: a line has at least one word, be it empty, and a batch ends
before its first `OVER` (`BatchesAssumption`); the arguments of `SNAPSHOT` and
`SET_NS` are lists (`ArgumentsAssumption`); sizes and bounds are natural numbers.
All statements are for any number of threads, sessions, names and commands, and
for any values of the bounds.

`GlbContainerProofs`

* `Invariance`: `Spec => []IInv`.  `IInv` is the types, `MutexInv` and
  `PcMatchesRequest`.  That a mutex is held exactly by the thread inside its
  section is inductive only together with the last: a thread about to push must
  be in a `setIPs` for its position to mean anything; and "the value loaded is
  the current count" is what makes the store an increment.
* `Refinement`: `Spec => ImplementsAtomicContainer`.  The mapping counts a batch
  as published when `setIPs` gets the lock (`Published` is `ips` and what the
  holder has still to push), so `SetPush` is a stutter, `IncStore` is the count
  and each other step is the abstract one of its name.  Stuttering needs a
  fact about sequences (`PushKeepsSum`), stepping needs `IInv`.

`GlbSystemProofs`

* `MapIsLocked`, `IteratorsNeverDangle`, `NamesAndContainersAgree` and
  `NothingComesBack`, from one inductive invariant, with one lemma per action.
  That containers keep their names is not inductive by itself: `ADD_DOMAIN`
  allocates before it inserts, and what it puts into the map some steps later
  must still be nobody else's.  `FreshInv` says so, that a container between its
  allocation and its entry is in no other entry, in no session's hands and in no
  backend's, and is as the constructor left it; together with `StagesInv` (a
  session is where its command can have taken it), `BackendInv` (a backend has a
  question when it searches and a container when it selects) and the lock it
  is inductive.  Iterators stay valid because whoever holds one shares the
  lock, and `MapLockInv` leaves an eraser alone with it.
* `SoaRecordsAreWhole`: an SOA answer for a name under the base domain is one
  pair that one `SET_SOA` made.  `SoaInv` adds to the above that while a record
  is still to be sent none has been, and that the record and the base domain
  kept for it belong together if the name is under it: `lookup` takes both from
  the one `SOAContainer` that its shared pointer keeps, and `SET_SOA` replaces
  the container, it does not change it.

* `NsListsAreWhole`: the NS records of an answer come first in it, are an initial
  part of one list `SET_NS` set, and by the end all of it or nothing.  In
  `NsInv`, `sendNS` ties three things together: as long as it is set the answer
  consists of NS records only, is as long as the iterator has come, and agrees
  with `nsRecords`; once it is cleared the answer begins with the whole list or
  has none of it.  The list stays because the backend has the shared pointer:
  `SET_NS` replaces what `globalNsRecords` points to.
* `AddressesAreOfTheName`: every address in an answer was published for the name
  asked for, with the type it is answered as, and is of a type that the
  container's algorithm selects for the question (`Serves`): under `NONE` the type
  asked for, under `RANDOM` IPv4, to a question for IPv6 addresses too.
  `AddressInv` follows an address from `SNAPSHOT` to a container
  (which holds only what was published for its own name), by a selection
  (which makes no address up, `SelectionsAreRecords`, and keeps to the types,
  `SelectedIsServed`) to the queue of a backend, and to its answer.  It needs
  `IInv`: a session between search and `setIPs`, and a backend between search and
  `getIPs`, have a container of the name they looked for, even when the domain has
  been deleted since, and its algorithm stays (`FoundKeepsItsType`).

* `SessionsImplementRegistry`: `Spec => ImplementsRegistry`.  `AddBegin`,
  `EraseBegin`, `ShareLock`, the visits of an iterator and all steps of PowerDNS
  threads are stutters (the registry says nothing of lookup counts);
  the effect of a command is at the step where its lock is released, or where a
  container is written.  `RefinementInv` adds what a session relies on while it
  goes round: for `COUNTS` and `DEBUG_DOMAINS` over all domains that what it has
  seen and what it has still to see are together what is registered
  (`ReportingInv`), for `CLR_COUNTS` the same of what is registered among the
  names given (`ClearingInv`), for `COUNTS` with names only that each name was
  found, is missing, or is to come (`LookingInv`), for it holds no lock in
  between.

`WeightedAlgoProofs`

* `GreatestCommonDivisor`, `ReductionIsExact`, `ZerosAloneCrash` and
  `LoopsKeepTheDivisors`, for any integers and any number of them, from one
  inductive invariant.  Its heart is that the common divisors of the weights
  seen so far are the divisors of `r`, and inside the `while` loop those of `a`
  and `b` (`RemainderDivisors`); over all of `Int`, since `r` itself must be
  among the divisors tried.  `Signs` keeps the locals from becoming negative,
  `Proportion` follows expandweights, which appends to the vector the result is
  in.

`ServerStartupProofs`

* `StartupInvariance`, and from it `SingleListener`, `ListenerComesFirst` and the
  action property `AcceptLoopStays`.  That there is one listener needs to be
  known of the thread inside `getInstance`: `HolderInv` makes it the holder of
  the mutex, and `ListenerInv` says that until the instance is constructed any
  listener is the one it has started itself.

`CommandSessionProofs`

* `SessionInvariance`: `Spec => []IInv`.  `OrderInv` is about every connection,
  lost ones too: what it has run is a prefix of what is due on it; while it
  reads, an `OVER` on its way is the last line there, and what was run, what
  is stored and what is still on its way before the `OVER` are what is due;
  while it runs, what was run and what is left of the stored lines.  `LiveInv`
  is about the controller's connection while it is up: its batch is being sent
  (and stored and wire are an initial part of it), sent, running, answered, or
  its thread has ended.
* `WholeBatchesInOrder` (`RunsWholeBatchesInOrder`) is the first part of
  `OrderInv`: however lines are torn, connections lost and handlers throw, no line
  is run before the `OVER` of its batch was sent, none is left for a later batch,
  and none runs twice on one connection.
* `AnswersPairUp` (`AnswersFitTheirBatch`): from `LiveInv`, since the lines on
  their way are what the handlers of the batch's lines add, one after the other
  (`Answers`).  Without a `DEBUG_DOMAINS` each adds one, so the j-th line is the
  j-th command's (`Paired`); with one no such thing holds, and none is claimed.
* `SessionsImplementAtLeastOnce`: `Spec => ImplementsAtLeastOnce`.  What the stages
  keep for this is that the part of the batch that has run is embedded in what
  was run since the last acknowledgement (`Embeds`): sessions that were given up
  may put lines between, and take none away.  `EmbedsNext` extends an embedding
  by the line run, `EmbedsLater` by somebody else's.

`GLBCollectionProofs`

* `NothingIsMadeUp` and `ContainersAreNotReplaced`.  Each call searches and then
  acts on what it found; the invariant is that what was found is still so, which
  holds because the mutex is held from one to the other.

`BufferProofs`

* `NothingIsLost` (`NothingIsLostOnTheWay`), for any number of bytes, rings that
  begin with any size, and blocks and channels of any.  The bytes printed, those
  in the ring to the terminal, in the block just read, in the channel from
  the peer, in the peer's hands, in the channel to it, in the other block and
  ring, and those not read yet are, one after the other, the bytes typed.  Each
  step moves bytes from one place to the next (`Passing`); what it takes are
  lemmas about rings: positions wrap (`AtWraps`), differ (`AtInjective`) and go on
  counting from the new head (`AtMoves`); `get` returns the first bytes and
  leaves them; `add` appends if the block fits; and doubling a ring keeps its
  bytes.  A ring keeps one byte free, which `RingInv` says and without which
  a full ring and an empty one would be the same.
* `BlocksAreKept` (`PoolKeepsBlocks`), for any owners, sizes of elements and
  capacities of chunks.  Every block is aligned and inside its chunk, no two share a
  byte, and each holds what was written in it, through `Malloc`, growing in
  place, moving and new chunks.  `PoolIInv` adds what is known of sizes: without a block
  nothing is in use, an array that has a block has room for an element, and the
  stack has a block from the start.  `PlacedStep` is the heart of it: a block
  put at the end of the last chunk, or in a chunk of its own, disturbs no other.
  `Realloc` may extend a block in place only if nothing lies behind it, which
  the comparison with the chunk's end ensures; it compares sizes that are not
  rounded, so the block it finds has no padding and what it adds begins right
  where it ends.

* `WriterIsSound` (`WriterAssertionsHold`) and `RepliesAreReadBack`
  (`RepliesReadBack`), for any strings and counts, lists of any length, and
  integers of any width of which the wider holds every `unsigned`.  The reader
  is run alongside the writer: `JsonInv` says that one that has read what is
  written so far stands in the same levels, behind a value or right after a
  bracket (`Follows`), and that its document's stack holds what the calls of
  `Accept` have come to, each call's values above those of the call around it
  (`Stacked`).  A step of the writer appends an event's text, and one lemma for
  each event says what the reader makes of it: `StartFollows`, `StringFollows` and
  so on.  An object's or array's end takes its elements off the stack, and what
  is left is the innermost call's value put where the next one out has it
  (`ClosedIsPlaced`).  For this `Accept`'s calls and the reader's levels are
  explicit sequences and not recursion over a tree.  A string is scanned
  character by character, with an induction over a set of numbers that is
  derived from the least member of a set (`NumbersInduction`); a number comes
  back because the widths tell the same ranges apart on both sides.  That a
  reply is one line follows from the units the writer can put (`Units`), of
  which a newline is none, whatever characters a dangling pointer reads.
  What the pointers read is chosen once, when `toJson` begins (`copies`), and the
  document read back is the one of that choice.
  `JsonInv` speaks of sequences without a bound, which TLC cannot enumerate; the
  run checks what follows from it.

`ShellsProofs`

* `ShellsAreInOrder` (`ShellsInv`) and the action properties `TheRestIsKept`
  (`CommandsKeepTheRest`), for any lines typed, any number of threads and a
  buffer of any size, from one invariant.  `ThreadsInv` is about the list of
  threads: no pointer is in it twice, outside `joinThreads` it points to all
  objects that exist, and inside it the first `j - 1` are deleted and no other;
  a thread that has returned has written all its lines, so what `joinThreads`
  deletes is over.  `PromptInv` says that what a command reads are words of a
  line that was typed, whole or cut, and that what `wb`, `as` and `rs` take for
  a number is one, since `atoi` makes one of anything: with that, `rs` leaves the
  front of the list of pointers whatever it is given.  `string2vector` stays
  inside its buffer because the word so far is kept shorter than `STRBUFFSIZE`,
  which is inductive with what the buffer holds of it.

* `AbstractTypesAreImplemented` (`ImplementsAbstractTypes`), for words of any
  width, arrays and rings of any size, any bytes and any integers typed.  A bit array has the words
  its bits need (`BitsOK`); a position has a word, and shares its place in it with
  no other (`Places`, from division with rest), so `bas` changes one bit, and a new
  array is all 0.  A ring that is `Sound` uses no more than it has, from a head inside
  the array (`RingOK`); here it may be full, so positions differ over one turn only.
  One that is not keeps its type (`RingInv`), which is all a step out of it needs;
  a negative `nrbdec` leaves it sound with the old bytes behind the new
  (`BroughtBack`), or not.  A
  write appends what fits (`WithAppends`), `nrbdec` and `nrblp` remove from the
  front (`WithoutLeavesRest`), the first newline of the ring is the queue's
  (`LineBytesAreTheLine`, which needs that a set of numbers has a least),
  doubling keeps the bytes, and as many positions are marked as bytes are used.

* `ResultsAreProved` (`ResultsAreRight`), for lines of any characters and length,
  any delimiters and words of any width.  What a loop computes is a function over
  the numbers of its steps; `StepsExist` and `StepsAgree` say that it has a value
  and no other, `CountingOn` and `AppendingOn` are the inductions.  Which words a
  line has is said without a loop: they are its runs between delimiters, in
  order (`Runs`, `HasTheWords`).  The invariant of both ways to find them is
  `Splits`: the parts found so far are the words of what was read, the last may be
  empty and is what the line read so far ends in since the last delimiter; one
  more character keeps that, be it a delimiter (`SplitsDelim`) or not
  (`SplitsChar`).  `splitStr` keeps it by induction over the line (`FieldsSplit`),
  and `string2vector` in every state (`WordsInv`), where a word has to fit the
  buffer (`WordFits`).  Fields from any one on, joined with blanks, are split into
  the same again, since none has a blank in it and only the first and the last
  may be empty (`JoinedAndSplit`).  `bah` and `bab` print the same because a bit
  that is set is one that exists (`BitsExist`), so a digit of `bah` is four bits of
  `bab`; `nwb` follows `wb` because a string of -1 is counted and one below it is
  not had (`BytesStep`).  Numbers of bytes are not bounded here.

### Only model-checked

* Liveness: `CallsReturn`, `CommandsAreAnswered`, `QuestionsEnd`, `Ends`,
  `BatchesAreAnswered`, `ListensOrEnds`, `ConnectionsAreTaken`, `EchoComesBack`,
  `ConnectingEnds`, `CommandsReturn`.  The prover has no rules for fairness and
  ENABLED here.
* That is all: every invariant the runs check is also proved.  Some of what the
  invariants speak of is worked out by going over a sequence or a number.  The
  library's induction theorems have an operator as their parameter, which the
  installed provers cannot instantiate, so the inductions are over sets (of
  numbers, from the least member of a set; of sequences, from their lengths), and
  the definitions are recursive functions instead of RECURSIVE operators or folds.
  `gcdreduce` and the growth of a ring are modelled as the steps of their loops,
  a list of one type by the positions of its records, and what `Accept` and the
  reader call by explicit stacks: about those one can reason.

## Not modelled

* `IPRecord`'s and the enums' names: table look-ups without state.  The
  formats of `to_string`, logging, and `DEBUG_DOMAINS`' text are left out; that
  it goes through the map, and that it adds any number of lines to the replies,
  is not.
* What another domain's entry may hold at the place of one that `lookup` found and
  a session has erased since (see *Serving*).  Locks in two levels at once: a
  container's calls are modelled lock by lock in `GlbContainer`, and as one step
  each under the map's lock in `GlbSystem`.
* The prototype server in `server_client/server.cc`: an earlier form of
  `GLBCommandServer` with plain-text replies.  The lookup program prints what a
  resolver returns.
* The mutex demonstration: counters under mutexes, as in `ThreadManager`.
* `Matrix` and `Point`: floating point, which TLA+'s arithmetic does not have.
* The rest of rapidjson, which nothing here calls: doubles, other encodings,
  parsing in place, the pretty writer, file streams.  The generator behind
  `random_shuffle`: a selection is any permutation already.
* `maindemo`'s one-shot commands: times, sizes, matrices, points, resolving,
  JSON samples.  They keep nothing between lines.
* The Python scripts but for `child_server` of `ssl_server.py`, the echo client's
  peer: wrappers around a message broker.
* Tests, build files and start-up scripts.  Tests were read as statements about
  the code.
* Overflow of `INT_MIN % -1` in `gcdreduce`, and the memory model below the
  mutexes: apart from `lookup`'s search, and the count that `to_string` reads,
  the code reads and writes shared data under locks.
