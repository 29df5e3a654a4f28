# A verification of the network programs of npwork

The repository holds the homework programs of a network programming course: five
versions of a small web server, which share the wrappers and the Rio package of
`src/finalhomework/common`, a load generator for them, and the echo servers and clients
of homeworks 1 to 5.  The web servers answer one HTTP/1.0 request per connection with a
file, the output of a CGI program or an error page; they differ in how they serve several
connections: one after the other, a process or a thread for each, `select`, or a pool of
threads fed through a bounded buffer.  The homeworks do the same for an echo protocol.

This directory is a TLA+ model of the parts where something can go wrong that a test
would hardly show, TLC configurations that check them on small instances, and TLAPS
proofs of every invariant and every refinement that the configurations check, for every value of
the constants.

Paths below leave out `src/`; `TP` is
`finalhomework/threadpool(accept alone)/septhreadpool_server.c`, `MT`
`finalhomework/multithread/multithread_server.c` and `TC` `finalhomework/clienttestcode/test_client.c`.

## 1. Inventory

| part | state | operations | what is hard | what makes it correct |
|---|---|---|---|---|
| **sbuf** (TP 3-12, 234-271) | ring `buf[n]`, `front`, `rear`, semaphores `mutex`, `slots`, `items` | `sbuf_init`, `sbuf_insert` (main), `sbuf_remove` (workers) | any interleaving between two semaphore calls; both limits of the ring | a FIFO queue of at most n items; no item or slot lost |
| **thread pool server** (TP 30-71, 228-232) | sbuf, descriptor table, children, pending SIGCHLD, the process | `main`, `thread`, `sigchld_handler` | descriptors pass from thread to thread and numbers are reused; Wait and handler compete for children; every failing wrapper exits the process | an open connection has one holder; descriptors suffice; the end of the stream means the whole reply; every connection ends |
| **request handling** (TP 73-226; the same in all five servers) | two stack buffers, the file, the reply | `doit`, `read_requesthdrs`, `parse_uri`, `clienterror`, `serve_static`, `serve_dynamic` | clients that close or reset at any point; files that change between `stat` and `open`, or pass the tests and do not open; calls the system refuses; stale stack | whole requests get the one right reply and end; only named causes exit the server |
| **Rio** (common.c 553-739) | `rio_cnt`, `rio_bufptr`, `rio_buf` per reader | `rio_readinitb`, `rio_read`, `rio_readlineb`, `rio_readnb`, `rio_writen` | short reads, EINTR, end of the stream inside a line, calls of both kinds alternating | no byte lost or repeated; a call returns its line or block |
| **wrappers** (common.c) | - | call, and `unix_error` on failure | an error of one client exits the process | appear where their failure matters |
| **homework3 server** | `cinfo` of main, a copy per thread, descriptor table | accept loop, `start`, `process` | main refills `cinfo` while a new thread copies it; a second `close` of a number that was reused; returns without close; a failed `pthread_create` that goes unseen | the damage those can do is bounded; threads end |
| **select web server** | `pool`: slots, `maxi`, `read_set`, `ready_set`, `nready` | `main`, `add_client`, `check_clients`, `doit` | two readers with buffers of their own on one stream; `nready` bookkeeping; blocking reads inside the event loop | slots, sets and descriptors agree; ready clients are served; served clients end |
| **homework4 server** | `clients[]`, `allset`, `rset`, `nready`, uninitialised `maxi` | `main`, `process`, `close_cli` | slot, bit and descriptor released by different functions; descriptors beyond an `fd_set`; a full table | the three agree; messages are answered; a slot is always found, and the array not left |
| **process server** | descriptors of parent, children, CGI programs; zombies; SIGCHLD | `main`, `doit`, `serve_dynamic`, `sigchld_handler` | copies of a connection in up to three processes; signals that merge; forks and files that fail | the end of the stream comes, and after the whole reply; what fails costs one client only; zombies are reaped |
| **thread server** (MT) | a heap cell per thread that is starting, descriptor table, children, the process | `main`, `thread`, `doit`, `sigchld_handler` | cells and descriptor numbers are reused at once; no bound on threads and descriptors; clients that leave in the middle of a reply | each thread serves its own connection; the end of the stream means the whole reply; the server is never behind for good |
| **load generator** (TC) | children, their rounds, a pipe, `totaltime` | fork, request, report, wait, read | the pipe is read only after all children have ended; children that the server's exit takes away | every report is counted; the test ends |
| iterative server | - | `doit` in a loop | - | not modelled |
| homeworks 1, 2, 5 | one connection | sequential | connect interrupted and repeated (5) | not modelled |

How the parts interact: `main` of the pool calls `sbuf_insert`, a worker `sbuf_remove`, then
`doit`; `doit` calls Rio for every line and write; Rio's and the system calls' wrappers call
`unix_error`, which exits the process of all threads; `serve_dynamic` forks, and the child
comes back through `Wait` or through SIGCHLD and the handler, whichever is first.  Each client
is known to the servers only by the descriptor of its connection, whose number the kernel
reuses as soon as it is closed.  The load generator and the servers share nothing but their
connections, yet each can end the other: see "load" in section 3.

## 2. Modules

| module | models | run |
|---|---|---|
| `WebServer` | abstract: what every web server promises its clients | property of `pool`, `multi_process`, `load` |
| `BoundedQueue` | abstract: what sbuf promises | property of `sbuf` |
| `SBuf` | sbuf, one step per semaphore call, counter load and store | `sbuf` |
| `SBufProofs` | invariants of SBuf, SBuf implements BoundedQueue | (proofs) |
| `ThreadPool` | the pool server around `INSTANCE SBuf` | `pool`, `pool_cgi` |
| `ThreadPoolProofs` | invariants of ThreadPool, ThreadPool implements WebServer | (proofs) |
| `ThreadServer` | server with a thread per connection | `load` |
| `LoadGen` | load generator | `load` |
| `LoadTest` | both, and other clients, around `INSTANCE ThreadServer` and `INSTANCE LoadGen` | `load` |
| `LoadTestProofs` | invariants of LoadTest, ThreadServer in it implements WebServer | (proofs) |
| `LineReader` | abstract: what a buffered reader promises | property of `rio` |
| `Rio` | rio_t | `rio` |
| `Request` | one request in the pool server | `request`, `request_headers` |
| `ConnectionProofs` | Rio implements LineReader, invariants of Rio and Request | (proofs) |
| `ThreadEcho` | homework3 server | `echo`, `echo_race` |
| `ThreadEchoProofs` | invariants of ThreadEcho | (proofs) |
| `IOMux` | select web server | `iomux` |
| `IOMuxProofs` | invariants of IOMux | (proofs) |
| `EchoSelect` | homework4 server and client | `echo_select` |
| `EchoSelectProofs` | invariants of EchoSelect | (proofs) |
| `MultiProcess` | process server | `multi_process` |
| `MultiProcessProofs` | invariants of MultiProcess, MultiProcess implements WebServer | (proofs) |

An `MC...` module gives each of them the sets a `.cfg` cannot write.  `PROJECT.json` maps every
definition to its lines.  Definitions whose comment begins with "Faulty" are plausible bugs of
the definition that follows them: no action uses them, and put in its place each makes one
property fail.

### How state and actions correspond to the code

**SBuf.** `pc` says before which call a thread is: `"slots"`, `"items"` and `"mutex"` are the
three `P` (the second argument of `Wait` names the semaphore), `"load"`/`"store"`/`"fetch"` the
increment and the access to `buf`, `"unlock"` `V(mutex)`, `"post"` the last `V` and the return.
`reg` is the register of `++rear` or `++front`: load and store are two steps, so the mutex, not
the model, makes the increment atomic.  `IntMax` ends the behaviour at the last insert that C
defines: afterwards `++rear` overflows, which is undefined, and where it wraps `rear % n` is
negative and no index of `buf`.

**ThreadPool.** `fdt` is the descriptor table; `accept` and `open` take its lowest free number.
`at[w]` is where worker `w` is in `thread` and `doit`, `connfd` and `srcfd` are its locals.
`kid[c]` is the child forked for connection `c` and `inherited[c]` the connections it has open.
`handling` are the threads inside the handler: their main flow waits.  All handlers are
installed with SA_RESTART (common.c 122-133), so a signal makes no call fail, except that
`Wait` may find that no child is left.  `exit` closes all, and its reason is `end`.

**WebServer.** The promise that the three servers share.  A connection's stream is away, open, whole
or cut, and an end is final.  While the server is up a stream is cut only by what breaks its own
connection: its client leaves, or, in `MultiProcess`, where a connection has processes of its own, a
call of one of these fails (`failed`).  In the two threaded servers such a failure is the whole
server's and takes it down.  Each server maps its state to the abstract one: a stream is open while
any process of the server has a descriptor of it, and whole when the reply was written before.  A
program that `execve` cannot run sends the server's log in place of its output, or nothing.  In
`ThreadPool` and `ThreadServer` this counts as the program's output: they say when a stream ends,
not what is in it.  `Request` tells the two apart, and in `MultiProcess` it is one of the failures.

**ThreadServer.** As in ThreadPool, with a thread per connection.  `ptr` is main's `connfd`, `heap`
what each cell holds and `used` the cells that are allocated; `malloc` takes the lowest free cell,
so cells are reused as eagerly as can be.  Steps that no other thread, client or signal can tell
apart are one: `Malloc` and `Accept` (the new cell is main's alone), the copy out of the cell and
`Free`, the reads of a request with the first write of the reply.  The handler is one step: only
what it reaps is seen.  `line` and `replied` keep the first write apart from the others, because the
load generator closes between them.  `Exit` clears what the process held.
In both modules `ForkFails` is the system refusing another process, which the wrapper `Fork`
answers by exiting.

**LoadGen.** `child[k]` is where child `k` is in its loop, `loop[k]` its `j`, `pipe` the number of times
in the pipe.  The request is HEAD, which the servers do not implement: the reply is an error
page of four writes.  Closing the reading end of the pipe and the first test of the loop are one
step, as are the read of a line and `Close(clientfd)`.

**Request.** A line is what `doit` tells apart: a GET line for a file or a program, another
request line, a header, the blank line.  `todo` are the writes ahead, `out` what the client
was sent.  `line` and `hdr` start with anything the stack may hold.
`file` is what the name denotes: absent; forbidden to its owner, which is what `doit` tests; empty;
`"closed"`, which passes the tests but which the server cannot open or run, because it runs as
another user or the program has no format the system knows; or a file it can.  `refused` says that
the system refused a descriptor, memory, a process or an `execve`.  `child` is followed to its end,
past that of `doit`, because `Wait(NULL)` may return for another worker's child (`WaitReturnsEarly`)
or find that the handler or another `Wait` had this one (`Reap`) and exit.  The end of the stream
leaves the buffer as it was, because `rio_readlineb` then returns before it writes its NUL. `line`
is what `sscanf` makes of the first line (`Parse`): a header has a method that is not GET, and an
empty line leaves `method` and `uri` as they were, so `doit` serves what the stack held.

**Rio.** Bytes are positions in the stream; `rio` is the unread part of `rio_buf`.  A `read` that
is interrupted is a stuttering step.

**ThreadEcho.** `cinfo` and `copy[t]` map a field to the connection it was filled in for; main
assigns and a thread copies one field per step, in any order, which covers the outcomes of the
data race.  Two fields stand for all: `connfd`, and `msg` for the rest.  `pthread_create` may fail
at any time; its result is positive then, which `< 0` does not see, and main goes on.

**IOMux.** `net[c]` are lines in the kernel, `rio` those that `doit`'s own `rio_t` has taken;
`DoitReply` loses them with it, and `After` is the `Rio_readlineb` on a copy of the pool's reader,
which takes all there is and is thrown away.  `at` names the blocking points.  `FD_SET` in
`add_client` of a number that the set has no bit for leads to `"overrun"`, where the model stops.

**EchoSelect.** The loop of `main` step by step; `i`, `maxi`, `nready`, `rset`, `allset`,
`clients[].connfd` and `firstconn` are the variables of the code.  `maxi` starts with any value
from -1 to FD_SETSIZE: lower values behave as -1, higher ones as FD_SETSIZE.
FD_SETSIZE (`NSlots`) is both the length of the array and the end of an `fd_set`.  Descriptors start
behind `Listen`, and `Init` chooses the process's limit among `Limits`, below FD_SETSIZE or above:
entries of `fdt` that it rules out are `Denied`.
`FD_SET` beyond the set (line 124) leads to `"overrun"` and reading a slot beyond the array to
`"outside"`; both are undefined, and the model stops there.

**MultiProcess.** `held`, `inherited[c]` and `cgiheld[c]` are the connections that the parent, the
child and the CGI program have open.  `doit` is one step per outcome; `Request` has its steps.
`Doit` of kind `"lost"` is `Close(-1)` after an `open` that failed.  `Full` is the limit on processes,
for the forks of parent and children alike: a process counts until it is reaped, by its
parent or, when that has ended, by the system.

## 3. Runs

Every property that a run expects to hold is also checked against a faulty version of the code
that must violate it.

| run | question and answer | bounds |
|---|---|---|
| `sbuf` | Do the semaphores keep the ring consistent?  `MutualExclusion`, the proofs' invariant `IInv` (with the type invariant, `SlotsConserved` and `Occupancy`), and `IsBoundedQueue`: the ring implements the FIFO queue, with the store into and the read from the slot as linearization points. | 2 producers, 2 consumers, 2 slots, 4 inserts |
| `pool` | Is each open connection and file in exactly one hand (`FdOwnership`), is the pool a web server (`IsWebServer`), does every connection end (`EveryConnectionEnds`)?  Yes, while the server lives and a worker is left that no client has trapped in the headers.  `IInv` is the invariant of the proofs. | 2 workers, 2 slots, 3 connections, 4 descriptors, every kind of request, resets |
| `pool_cgi` | Does the server survive its children (`SurvivesChildren`)?  No: finding 1. | 1 worker, 1 request |
| `rio` | Do the calls cut the stream as `LineReader` says (`IsLineReader`, `NoByteLost`), and return (`CallsReturn`)?  Yes. | streams up to 5 bytes, buffer 2, sizes 1, 2, 3, 5 |
| `request` | Do whole requests get the right reply (`RightReply`) and end (`WholeRequestsEnd`)?  Yes; a program that passes the tests and cannot be run is answered 200 and then with nothing or the server's log, and no other request is.  What exits the server (`ExitsForCause`)?  A client that leaves, a file that changes, a call the system refuses, a child that another reaped, and a page that is empty or cannot be opened. | every first line with up to 3 lines after it, and none; each file state |
| `request_headers` | Does every request end (`EveryRequestEnds`)?  No: finding 2. | the same, quiet clients and files |
| `echo` | How much damage can the races of homework3 do?  `NeverEarlier`, `LostToTwin`, `LeaksForCause`, `ThreadsEnd` bound it.  A connection leaks after an early return, when its thread was not created, or when the race gave it to no thread. | 3 clients, 2 descriptors |
| `echo_race` | Has each thread its own info (`PrivateInfo`)?  No: finding 3. | 2 clients |
| `iomux` | Do slots, sets and table agree (`PoolMatchesTable`), is readiness fresh (`ReadyWhenServed`), does `nready` skip nobody (`NoneSkipped`), is the first reply right (`RightFirstReply`)?  Yes, to a first line that names a method.  `HangsForCause`: only a client whose stream is not one clean request can hang the loop in `read_requesthdrs`.  `EveryClientEnds` under the fairness below. | 3 clients, a set with bits for 2 of them, 3 slots, 3 descriptors, 8 streams for the first client, some starting with an empty line, 3 for the second |
| `echo_select` | Do slots, `allset` and table agree (`SlotsMatch`), who leaks (`LeaksForCause`: clients that have gone), does recv ever block (`NeverBlocks`: no), is there always a slot (`AlwaysASlot`), is the garbage in `maxi` harmless (`HarmlessMaxi`)?  Yes: at the limit it is `FD_SET` that goes wrong, and it does so first.  Is every message answered (`EveryMessageAnswered`)?  Yes, unless a client waits while the table is full, or `FD_SET` ran over the set. | 3 clients with 2 messages, 3 slots, a set with bits for 2 clients; the system allows 2 descriptors, so that the third client starves the others, or 3 |
| `multi_process` | Is this a web server (`IsWebServer`), do streams and zombies end (`EveryConnectionEnds`, `ZombiesAreReaped`)?  Yes; a reply is cut only by its own client, by a call its own processes were refused, or by the server's exit. | 3 connections, 3 children and CGI programs at a time |
| `load` | Has each thread its own descriptor (`PrivateDescriptor`), is the thread server a web server (`IsWebServer`), does it come to the end of what clients have sent, again and again (`EveryConnectionEnds`)?  Is every report counted (`ReportsCounted`), does the test end (`TestEnds`)?  Yes, the last two with the exceptions that follow. | tests of 1 child with 2 requests, 2 with 1, 3 and 4 with none; one other client; 3 descriptors, 3 cells, 2 threads, a pipe for 2 reports, 3 processes |

### Findings

1. `pool_cgi`: the SIGCHLD handler may reap the child that `serve_dynamic` is about to wait for;
   `Wait(NULL)` then fails with ECHILD and `unix_error` exits the server (TP 225).  In the
   process server the same race ends one child only, after its reply, and `multi_process` shows
   that no client notices.
2. `request_headers`: a client that closes inside the headers leaves `read_requesthdrs` comparing
   the same line for ever (TP 137); the worker is lost.
3. `echo_race`: main overwrites `cinfo` before the new thread has copied it (homework3/server.cpp
   123, whose comment says "allocate a separated space for thread").

Properties that pass also record, as named exceptions, what the code does in odd cases: an empty
file exits the server (`ExitsForCause`; `mmap` of no bytes fails unseen and `Munmap` exits), and so
does one that its owner may read and the server may not (`Close(-1)`); a full
descriptor table starves the served clients of homework4 (`Starved` in `EveryMessageAnswered`), a
descriptor beyond the `fd_set` takes both select servers out of what C defines (`"overrun"`), a
pipelining client can hang the select web server (`HangsForCause`).  The load generator reads one
line of a reply of four writes and closes: a later write of the thread server may then fail, and the
wrapper exits the server (`ClientError`).  The children that come later fail to connect and
report nothing, but the average still divides by all of them: `ReportsCounted` says that this
happens only when the server went down.  The parent reads the pipe after the last child has ended, so more children than
reports fit in the pipe wait for ever (`Deadlock` in `TestEnds`; 8192 on a Linux pipe of 64 KiB).

### Bounds, and why they are enough

- *Connections* (`NConns`): three suffice for one served, one waiting and one that reuses a number.
- *Threads, cells, processes* (`load`): three connections at once exceed the threads and fill
  the descriptor table, the third child overfills the pipe and the fourth the processes.
- *Slots of sbuf* (`N`): two is the least number with a full, a partly full and an empty state;
  the proofs cover every `N`.
- *FD_SETSIZE* (`NSlots`): three, with the listening descriptor at 0 (`Listen`), gives bits for two
  clients, which fill every slot but one.  The limit of the process is one above the set in
  `iomux`, where the third client gets a number beyond it; in `echo_select` it is chosen at the
  start (`Limits`), there or at the end of the set, where the table fills up with a client waiting.
- *Descriptors* (`NFds`): in `pool` and `echo` few enough that the table fills
  up and numbers are reused; that a larger table never does (`NeverOutOfFds`) is proved.
- *Inserts* (`IntMax`): twice the ring, so that every slot is reused; the proofs cover every `IntMax`.
- *Streams*: `MaxLen` 5 with a buffer of 2 gives lines that end before, at and after the end of
  the buffer and of the limit.  `Requests` has up to three lines after the request line.
- *Messages* (`NMsgs`): the name, and one message after it.
- *Processes* (`NProcs`): three children of three connections fit, and no CGI program beside them; so
  a child's fork may fail, and the parent's, when a program runs beside two children.

### Fairness

Weak fairness of each thread or process: the kernel's scheduler runs what can run, and a
semaphore or a descriptor that stays available is taken at last.  `ThreadPool` also assumes that
CGI programs end and that a pending signal is delivered to some thread; `MultiProcess` the same.
`LoadTest` assumes less: that not everything stands still while some thread or process could go on.
Each has finitely many steps to make, so that is enough.  The other clients of `LoadTest` owe
nothing: one that connects and is silent holds its own thread only.
`Rio` assumes that the peer's bytes or its close arrive, `Request` that the worker runs and that CGI
programs end.  `ThreadEcho` and `IOMux` assume that
clients leave at last, the latter that they also send what they mean to: both servers wait for a
client without a timeout, and the select web server waits for one client while all others wait
for it, so without the assumption liveness fails at once.  `EchoSelect` assumes nothing of its
clients.  In `ThreadPool` a client that is silent for ever would hold its worker in the same
way: requests arrive there as one step, and `Request` has the reads.

### Abstractions

Text of replies, logs, host lookup and `parse_uri`'s string work are left out: a request is its
kind.  In `EchoSelect` a message arrives whole and clients work in lock-step, as homework4's client
does; names and messages are no data, so neither `EchoSelect` nor `ThreadEcho` says anything about
the lengths that `strcat` and the buffers of homeworks 3 and 4 take for granted.  `IOMux` takes the
files to be there and unchanged; what else files cause is in `Request`, on which nothing in the
select loop depends.  A connection that was reset by its client may fail in any later read or write,
and need not.

## 4. Proofs

`SBufProofs` proves, for every finite set of producers and consumers, every `N >= 1`, every set of
items and every `IntMax` (assumption `SBufAssumption`):

- `Invariance`: `Spec => []IInv`;
- `MutexCorrect`: `Spec => []MutualExclusion`;
- `SlotsCorrect`: `Spec => []SlotsConserved`;
- `RingCorrect`: `Spec => []RingBounded`, the ring holds between 0 and `N` items.

Mutual exclusion is not inductive: it needs that `mutex` is 0 exactly while someone is in the
critical section (`MutexInv`), and, for the two-step increments, that a loaded counter is still
the counter's value at the store.  `SlotsConserved` counts the threads between the two semaphore
calls of an insert or a remove; `RingBounded` needs in addition `Occupancy`, which counts which of
them have already moved `rear` or `front`.  `IInv` is the conjunction.  The proof is split by kind
of invariant (`StepTypes`, the mutex part, the counting part), each with one step per action; the
counting steps rest on lemmas about adding a thread to or removing one from a finite set.

The module also proves `Refinement`: `Spec => IsBoundedQueue`.  The mapping is that of `SBuf`: the
queue is what the ring holds from `front + 1` to `rear`.  The store is `Put` and the read of the
slot `Get`; every other step leaves the queue as it is or moves the thread between the phases of
its call.  The heart is `SlotsApart`: two positions less than `N` apart have different slots, so by
`RingBounded` a store touches no slot that is still to be read.  With it a store appends to the
queue (`StoreAppends`) and a read takes its head (`FetchTakesHead`).

`ThreadPoolProofs` proves, for every finite set of workers, every number of slots, connections and
descriptors and every set of requests, with and without resets (`ThreadPoolAssumption`):

- `Invariance`: `Spec => []IInv`;
- `DescriptorsOwned`: `Spec => []FdOwnership`;
- `DescriptorsSuffice`: `Spec => []NeverOutOfFds`;
- `PoolIsWebServer`: `Spec => IsWebServer`.

What sbuf does is not proved again: the module instantiates `SBufProofs` with main as the only
producer, and a step of the pool is a step of SBuf or leaves it alone (`StepBuffer`).
Its lemmas `StoreAppends` and `FetchTakesHead`, instantiated, say that a store adds one descriptor to
the ring and a fetch takes one from it (`StoreInRing`, `FetchFromRing`).  `FdOwnership` says where a descriptor is; it is inductive only
with `OneFd` (a connection has one number), `WorkerInv` (what a worker holds fits where it is) and
the ring's own invariant.  For the streams, `KidInv` says that a running child has its own
connection open and that a connection is forked for at most once, because only the worker which
holds it can; and `ReplyInv` that whatever has been or is about to be closed is answered, or will be
by a child that has it open, so it does not matter whose child `Wait(NULL)` returned.
`DescriptorsSuffice` counts: every entry of a full table is in main's hand, in the ring, the
connection of a worker or the file of one, at most 1, N, and one of each per worker; but the thread
that finds the table full does not have the descriptor it asks for, so there is one entry fewer
than `EnoughFds` provides (`HowMany`, `RoomInTable`).

`MultiProcessProofs` proves `OnlyOwnConnection`, `EndMeansWhole` and `Spec => IsWebServer`
(`ServerIsWebServer`), for every number of
connections, process limit and set of requests (`MultiProcessAssumption`).  None is
inductive.  `ParentInv` says that the parent holds no connection but the one it has just accepted,
so a fork copies only that one; `OpenInv` that a child has its own open while it lives and its CGI
program while it runs; `ReplyInv` that a child passes `Wait` only when its CGI program has ended, and
so that whoever closes last has written the reply, unless its client has left (`broken`) or a call
of the connection's own processes has failed (`failed`: `open`, the child's fork, `execve`).
`EndMeansWhole` holds also after the parent has exited, of which `WebServer` promises nothing; only
the connection that the parent's fork failed for has no child to answer it.  The refinement adds
that an end is final (`StaysEnded`), and that a failure never touches another client's stream.

`LoadTestProofs` proves, for every number of connections, cells, descriptors and threads, every set
of tests and every size of the pipe (`LoadTestAssumption`), of the thread server under the load
generator: `PrivateDescriptor`, `ReportsCounted` and `IsWebServer` (`ThreadServerIsWebServer`).
`PrivateDescriptor` needs that the descriptors are in one hand: `MainInv` and `ThreadInv` say what
main and each thread hold where they are, `OneHolder` that no two threads hold one cell or one file
and that a connection has one number.  Then neither main's next `Malloc`, which takes the lowest
free cell, nor its next `Accept` gives away what a thread has still to use.  `KidInv` and `ReplyInv` do what
they do in `ThreadPool`: who closes last has replied.  `Exit` puts the server in the state of
`DownInv`, after which the abstract server allows any end of a stream.  For `ReportsCounted`
`Conserved` counts the reports, read or in the pipe, and `ReportInv` accounts for every child that
has ended.  Server and load generator share only the clients' connections and `up`, so `ServerInv` and
`TestInv` are proved apart: a step of one is a step of clients to the other, or the server's exit.  The properties of this proof hold of every behaviour of
`Spec`; the fairness of `FairSpec` is needed for `TestEnds` and `EveryConnectionEnds` only.

`EchoSelectProofs` proves `SlotsMatch`, `NeverBlocks`, `LeaksForCause`, `AlwaysASlot` and
`HarmlessMaxi`, for every number of clients and messages, every FD_SETSIZE, every limit on descriptors and every
first value of `maxi` (`EchoSelectAssumption`).  `OneFd` adds that
a connection has one descriptor, `ReadyAhead` that what `select` reported is still true in the slots
which the loop has not passed: what the loop does to one client touches no other's.
`AlwaysASlot` counts (`SlotLeft`): what is in the slots are different numbers between `Listen` and
FD_SETSIZE, fewer than there are slots.  So the search for a slot ends inside the array
(`SearchFinds`), and every watched client has one.  For `LeaksForCause` and `HarmlessMaxi`, `CountInv`
adds that `nready` is the number of reported descriptors that main has still to come
to (`Ahead`).  A loop at the end of the array would have `nready > 0`, so one of those would have no
slot; that is why the garbage in `maxi` does no harm.

`IOMuxProofs` proves `PoolMatchesTable`, `ReadyWhenServed`, `NoneSkipped`, `RightFirstReply` and
`HangsForCause`, for every number of
clients, slots and descriptors and everything clients may send (`IOMuxAssumption`).  Here
`ReadyAhead` also counts: with `Ahead(k)` the reported descriptors in slots from `k` on, `nready` is
the size of `Ahead(i)` at the head of the loop and of `Ahead(i + 1)` while slot `i` is served.  The
accepted descriptor was not among the reported ones, although it may fill a slot in front, and
taking the listening descriptor off `nready` makes the count right at slot 0.
The last two follow the lines (`LineInv`).  `FirstInv`: until the first reply nothing that a client
sent is lost, it is in the kernel or still to be sent, and once `doit` reads it goes by the first
line.  `CleanInv`: of a request with nothing behind it, what `doit` has still to read while it looks
for the end of the headers does end in the empty line, and after the reply nothing is left, so the
reader that is thrown away takes nothing with it.  The proof of `FirstInv` did not go through for a
client whose first line is empty: `sscanf` then leaves `method` and `uri` as the stack has them, and
any reply may follow.  The two properties therefore speak of clients whose first line names a method
(`Asks`), and `MCIOMux` has streams that begin with an empty line.

`ThreadEchoProofs` proves `NeverEarlier`, `LostToTwin` and `LeaksForCause`, for every number of
clients and descriptors and every way clients may leave (`ThreadEchoAssumption`).
`Overwritten` says what the race can show at most: main's struct describes the last connection in
the fields it has assigned and the one before in the others, and by `CopyInv` every copied field is
of the thread's own connection or of a later one.  `OwnNumber` ties an open connection to the
number that `accept` returned for it, whatever the threads believe; `CloseInv` says that a thread which is about to
close the number of its own connection has seen its client leave.  `LeaksForCause` has three causes:
the early returns of `process`, a thread that was never created, and a thread that copied a later
client's number.  `LostInv` is then inductive: an
open client's connection disappears only in a `close` by another thread with the same number.

`ConnectionProofs` proves of `Rio`, for every size of the buffer, every stream and all sizes that
callers pass (`RioAssumption`): `TypeOK`, `NoByteLost` and `Spec => IsLineReader`.  The invariant
`Pieces` says that the bytes returned, those that the running call holds and those in the buffer
are consecutive pieces of what the kernel has handed out; each step moves a piece's border
(`BytesJoin`, `BytesSplit`).  `CallInv` says that a line call still running has met no newline before
its last byte and has room for the zero.  With both, the two ways to return are the ends that
`LineReader` defines from the stream alone (`LineEndReached`, `BytesEndReached`).

It proves of `Request`, for every set of sequences of lines that clients send, with or without
changing files and leaving clients (`RequestAssumption`): `RequestTypeOK`, `RightReply` and
`ExitsForCause`.  `ReplyInv` says that what was sent and the writes ahead are always the beginning
of a reply that the request may get, up to where `doit` is, and that from the end of the child on it
is one of `RepliesTo`; `ChildInv` that there is a child only behind the fork, so that a worker past
`Wait` sends nothing itself; `FileInv` that a file which does not change is still what `stat` found;
`Begun` that nothing is written while `doit` reads and that `line` is the method of the first line.
`ExitsForCause` is a conjunct of the invariant: `FileInv` gives the cause at `open` and at `Munmap`,
`ChildInv` at `Wait`.  Preparing this proof showed that an earlier model read a first line which is
a header or empty as a GET; `Parse` and the streams of `MCRequest` correct that.

Every invariant that a run checks is proved, and so are `OnlyOwnConnection`, `EndMeansWhole` and
`NeverOutOfFds`, which no run checks.  Only model-checked: all liveness
(`CallsReturn`, `WholeRequestsEnd`, `EveryConnectionEnds`, `ThreadsEnd`, `EveryClientEnds`,
`EveryMessageAnswered`, `ZombiesAreReaped`, `TestEnds`), because the prover has no means for ENABLED
and hence for fairness.  Also outside it is induction over data, which the
invariants avoid: they state where each piece of the data is, never what a recursive definition
computes of it.  The three properties that a run refutes have no theorem.

## 5. Plan

Done: sbuf and its abstraction, the pool around it, Rio and its abstraction, the request, the
servers of homeworks 3 and 4, the `select`, process and thread servers, the load generator, the
abstract web server, the proofs of section 4.  Next, in this order:

1. A refinement between `Request` and the steps that `ThreadPool` takes for a request, so that
   `RightReply` carries over to the pool.
2. What the liveness properties rest on and can be proved without fairness: that no state of the
   pool or of the process server is a deadlock while a thread or a child has work.

Not modelled: the iterative server (one connection at a time, handled as in `Request`; its child and
handler race as in `pool_cgi`, which has one worker and one connection), homeworks 1 and 2 (one
connection, sequential), homework5 (a sequential client: the one question, what a `connect` called
again after a signal returns, is answered by the operating system, and Linux lets it succeed),
`sbuf_deinit` (no caller), `rio_readn` and the wrappers without a caller.
