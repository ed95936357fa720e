# A verification development of the Chord file sharing program

TLA+ modules, TLC runs and TLAPS proofs for the peer-to-peer program in `src/`:
a Chord circle of hosts that keeps an index from the hashes of files to the hosts
that own them. File and line references below are relative to `src/src/`.

## 1. The system

Each host is one process holding the singleton `Node` (`node.h`). Its main thread
makes or joins a circle and then runs a menu; a listen thread accepts requests on
port 8888 and gives each one a *detached thread of its own* (`run_server`). A
request that is answered opens a second connection, from the answering host to a
one-time port of the asking host. Nothing is locked, nothing but downloaded files is
written to disk, and there is no timeout anywhere.

| part | state | operations | talks to |
|---|---|---|---|
| circle arithmetic: `util/util.cpp`, two decisions of `lookup.cpp` | none | `hash_value_add`, `get_distance`, `is_responsible_to`, `get_next_hop_info` | called by lookup and join |
| lookup: `lookup.cpp` | reads `fingerTable`, `DHT`; reads and rewrites `local_start` | `lookup`, `lookup_successor`, `lookup_req_handle` | `LookupFileRequest` from host to host, `LookupFileResponse` to the source |
| join: `join.cpp` | `fingerTable`, `local_start`, `DHT` of the new host, of its helper, and the tables of hosts before it | `initial_chord`, `join_chord`, `join_req_handle`, `help_join_req_handle`, `handle_update_route_req` | entry host, helper (one connection, four messages), every host the walk visits; calls lookup |
| shared index and menu: `node.cpp` | `DHT`, `localFiles` | `add_file`, `delete_file`, search, exit, `add_file_req_handle`, `del_file_req_handle` | calls lookup, then an unacknowledged request to the responsible host |
| request server: `node.cpp` | none | `run_server` | starts all handlers |
| download: `download.cpp` | reads `localFiles` | `download`, `download_req_handle` | calls lookup, then a byte stream from the owner |
| reply ports: `util/proto.*`, `util/socket.cpp`, `get_random_port` | open sockets | `ProtoStreamIn`, `ProtoStreamOut` | used by all of the above |
| thread pool: `util/threadpool.*` | task queue | `assign_task`, `run_task`, destructor | included by `node.h`, used by nobody |
| digest: `get_hash` | none | `get_hash` | hashes of host names and file names |

What makes each of them correct:

* arithmetic: each hash has exactly one responsible host, its successor; a
  request never overshoots it.
* lookup: the host named is the one the hash belongs to, also while a host is
  joining; the lookup returns.
* join: afterwards `local_start` follows the predecessor, the first fingers form
  one ring, the other fingers are exact, the entries that change hands are
  neither lost nor misplaced; the join ends.
* index: uploads, deletions and searches on all hosts act on one index; who the
  index names can serve the file.
* the rest: a reply finds its port; a file arrives whole or as an error; no task
  of the pool is lost.

What is hard to get right here: a join changes the state of many hosts in some
thirty steps, between which anybody may look up, upload or join; responsibility is
decided on an unrolled circle; there is no acknowledgement, retry or timeout, and
a message to a host that has ended ends the sender. `PROJECT.json` lists these
hazards at their lines with the properties that watch them.

## 2. Modules

| module | models |
|---|---|
| `Ring` | the arithmetic, and textbook definitions of successor and predecessor to compare it with |
| `Circle` | `Ring` on every set of hosts of a small circle |
| `SharedIndex` | a promise: one index on which commands act at once |
| `ChordState` | the state of all hosts, of their threads and of the messages between them |
| `ChordLookup` | `lookup.cpp` |
| `ChordJoin` | `join.cpp` and the starting of hosts |
| `ChordFiles` | menu commands and index requests of `node.cpp` |
| `Chord` | the three together: `Next`, `Spec`, `FairSpec`, all properties, the refinement of `SharedIndex` |
| `MCChord` | placements of hosts and the symmetry of joining hosts for TLC |
| `HostThreads`, `MCThreads` | the detached threads of one host, access by access, without a lock |
| `Sockets` | the listening ports of one host: `util/socket.cpp` over the kernel |
| `Exchange` | calls and their reply ports (`util/proto.*`), `download.cpp`, hosts that end at any moment; instantiates `Sockets` |
| `TaskQueue` | a promise: a bounded queue of tasks |
| `ThreadPool` | `util/threadpool.cpp`: mutex, condition variable, workers, clients, destructor; implements `TaskQueue` |
| `RingProofs`, `CircleProofs`, `JoinProofs`, `SerialProofs`, `IndexProofs`, `ThreadsProofs`, `ExchangeProofs`, `PoolProofs` | the proofs, section 5 |

`Ring <- ChordState <- ChordLookup <- ChordJoin, ChordFiles <- Chord` and
`Ring <- HostThreads`, each extending the one before.

The program is looked at three times, each time as closely as a question needs.
`Chord` has all hosts, with handlers that are atomic between two messages and
messages that arrive. `HostThreads` has one host, and takes its handlers apart into
loads and stores. `Exchange` has one host's calls, and takes a message apart into
ports, connections and blocks of bytes; which host answers, and what, is left to
`Chord`, so there any peer may answer anything.

### State and actions

**Chord.** The variables of `ChordState` are the members of `Node` on every host
(`myHash`, `fingerTable`, `localStart`, `DHT`, `localFiles`), where each main
thread stands (`phase`, `walk`, `cmd`, `answer`), where each detached thread that
outlives one step stands (`lookup`, `help`), and the requests under way
(`requests`). An action is the code of one thread from one message to the next:
a handler that sends nothing in the middle is one action; `join_req_handle` is two
(up to its lookup, and after it); `help_join_req_handle` is one per lookup, then
one that fills the FileTable and one that sets `local_start`, because between
those two the new host may go on; `join_chord` is one per read.

* A **lookup** is a record of the thread that called it: *entered*, *request at
  host x*, *answered*. A thread has one at a time.
* The **connection from helper to new host** is not a queue: `help[n].pc` tells how
  far the helper has written, and the new host's next read waits for it.
* `is_responsible_to` **rewrites `local_start`** each time it is called; so do the
  actions that call it.
* **Hosts die** when the user exits, when they send to a host that is gone, or by
  the `exit` of a handler. A dead host keeps its variables in the model and does
  nothing any more. Which sends fail follows from who is alive, never from chance.

**HostThreads.** The variables are the members of `Node` on one host, plus the
FileTable its helper thread fills. Each thread handles one request: a lookup
(`is_responsible_to`, then `DHT.find` and `DHT[...]` twice), an AddFileRequest, a
DeleteFileRequest, the last part of `help_join_req_handle`, or a RouteUpdateRequest.
`pc[t]` is its next access. The Makefile sets no optimisation, so every mention of
`local_start` or of a stored hash is a load or store of its own: `is_responsible_to`
is *test, load, store, compare*. A call of a member of a map or of a string is one
access; two writers of one string at once leave `Mixed`, or the process ends.

**Exchange.** A caller is the menu (port 8889) or a handler that looks something up
(a port from 10000 on, drawn by `get_random_port`). It sends its request, *then* opens
the port, accepts one connection, reads and closes. `phase[r]` says how far the peer
that handles request r is; its connect fails when the port is not open, which gives a
null stream and ends it. A download is a lookup, a request to the owner, a length (an
`int`), and blocks of at most `MAX_LENGTH` bytes of which `recv` returns any part.

**ThreadPool.** `wpc`, `cpc` and `opc` say where each worker, client and the owner is;
a step lies between two events another thread can see. The outer loop of `run_task`
reads the flag and the queue *without* the lock, and so does its step. A waiting worker
may wake up without a notification.

### What is abstracted

* A `(hostname, port)` pair and the hash of that name stand for one host, a member
  of `Node`. Hosts have distinct hashes (`FreePositions`).
* A file is its hash; file names, contents, the shared directory and the wording of
  the terminal are left out. `localFiles` distinguishes a named file from the empty
  name that `operator[]` leaves behind, because the index depends on it.
* The contact node of a new host is another host that runs; it may be joining itself,
  since `run_server` is started before `join_chord` (`node.cpp:199`,
  `208`). A contact node that is down makes the program stop at once (`join.cpp:176`),
  before anybody has heard of it. The first host makes its circle in one step with the
  start of its server.
* In `Chord` the reply port is open by the time the answer comes, and handlers of one
  host do not interleave between two messages. `Exchange` and `HostThreads` are about
  what happens when that is not so. The three are not composed: an answering host that
  is ended by an early reply is, for `Chord`, a host that has ended.
* In `HostThreads` what the handlers send is left out, and the process goes on or ends
  at a data race; in `Exchange` what a file contains is left out, not how much of it.

### The pace of people

`Pacing` says when people start hosts and enter commands in `Chord`. It restricts
nobody but them: threads interleave freely in all three.

| pace | hosts are started | commands |
|---|---|---|
| `quiet` | when nothing is going on | the same |
| `serial` | when the last join has ended, helper included | at any time |
| `free` | at any time, through any host that runs, so also through one that is joining | at any time |

Joins that overlap can leave the circle broken (below). So the properties that describe
a *correct circle* are checked at the first two paces, and those that must hold
whatever happens at `free`.

Two more conditions delimit what holds. **Spaced**: no host sits exactly on a point
n + 2^i of another one (run `own_finger` shows why). **Clustered**: all hosts in
one half of the circle (run `endless` shows why).

## 3. Runs

| run | module, size | shows |
|---|---|---|
| `ring` | `Circle`: 16 points, every set of up to 4 hosts | `OneResponsible`: each hash has exactly one responsible host, its successor. `ShortRoutes`: with exact fingers a request needs at most M hops. |
| `joins` | 4 hosts on 6 places of 32 points, `serial`, one search, for a hash that is a host's and one across zero | `RingConsistent`: starts follow predecessors and first fingers form a ring after any order of joins. `TablesExactInCluster`: in one half circle every finger is exact. `LookupAtomic`: a search during a join is answered as if before or after it, except by a host whose `local_start` is not set yet. |
| `files` | 3 hosts on 4 places of 16 points, `quiet`, 2 keys, 3 commands, exits | `IndexPlacedOffHosts`: entries are at the host lookups go to. `OwnersServe`: who the index names has the file under its name. `FirstDeathOwnDoing`: only an exit, or a deletion whose lookup has found that nobody has the file, ends the first process. `ImplementsSharedIndex`: all DHTs together implement `SharedIndex`, in which an end of a process loses entries, and may lose more of them later: a joining host that ends on its way in takes along what its helper has handed over. |
| `free` | 3 hosts on 3 places of 4 points, `free` (joins through joining hosts, too), uploads, deletions and exits | `TypeOK`. `FingerReach`: no finger falls short of its point. `RoutedHostsReady`: however joins overlap and whoever dies, nobody is routed to before it has a table, but for a host that was asked to help another to join before it had one. `IndexKept`: an entry is lost only by a handled deletion, with a process, or in a FileTable written to a host that has died. |
| `live` | 3 hosts in one half of 16 points, `quiet`, `FairSpec` | `CommandsEnd`, `JoinsEnd`: commands and joins end unless a process has ended. |
| `pool` | 3 workers, 2 clients, 3 tasks for a queue of 2, `FairSpec` | `NobodyOversleeps`: while a task is queued and nobody is about to notify, some worker is on its way to it. `NobodyLeftWaiting`: no worker waits when the destructor joins. `DrainedWhenGone`: accepted tasks have ended when the destructor returns. `ImplementsTaskQueue`: tasks begin in their order, once, and are refused only when the queue is full. `DestructorReturns`. |
| `threads` | 1 host on 8 points, 3 threads, every request, 2 joining hosts | `RefusesNoneOfItsOwn`: whatever overlaps, a host sends on no request for its own hash. `ClaimsNoneOfOthers`: nor answers for another's, unless two subtractions from `local_start`, or one and a handover, overlap. `GhostNeedsRemoval`: an entry with an empty owner comes only from a removal between `find` and `[]`. `TornFingersReach`: a finger whose name and hash come from different threads still does not fall short of its point. |
| `exchange` | 2 peers, menu and 2 handlers on 3 ports, 2 calls, files of 0, 3 and 4 bytes with an int of 3 bits, blocks of 2, `FairSpec` | `OwnAnswer`: a caller accepts the answer to its own call. `DiskWhole`: whoever ends and however `recv` cuts the file up, what is on disk is all that was announced (the whole file, if an int holds its size), or its writer is, or ended, in the middle of it and what is missing is on the connection or was never sent. `FirstEnd`: only a user, or an answer that is quicker than the port, ends the first process. `CallsEnd`: a call ends unless a process has. The first, third and fourth except ports *in doubt*: drawn while another answer might still come to them. |

In `threads` and `exchange`, `TypeOK` also says that `local_start` keeps its bounds and
that no handler sends more than its file.

Runs that end in a counterexample, each to a statement of the repository:

| run | statement | what happens |
|---|---|---|
| `own_finger` | `node.h:29`, local_start "should equals to its predecessor's hash + 1" | b at 7 of 8 points has a host exactly at 7 + 1; `get_distance` of a point to itself is the whole circle, so b enters *itself* as first finger. The next host to join is told by b that it is b's successor, ends its walk one host early and takes the wrong `local_start`. |
| `endless` | `README.md:48`, lookup_successor() gets the successor | the walk of a join begins at the successor of the point half a circle back. A host just before that point keeps its top finger, here the host itself; a search along that finger sends the request to the same host again and again. |
| `routed_early` | `README.md:48` | the new host is entered in tables by its first RouteUpdateRequest and has `local_start` 0 until its last; in between it answers for hashes from 0 on. |
| `stranded` | `node.h:27` | an AddFileRequest that was sent to the helper and is handled after the FileTable has left is stored in the helper's DHT. |

Exclusions above that come from what the code does, and are part of the properties:

* `quiet` and `serial`: tables and walks of two joins at once are based on circles that
  lack the other host. Two hosts that join at once through the only one there is are each
  given a table without the other, are each told by that host that it is its own
  successor, and both set the same `local_start`. It is enough to begin a little early:
  the FileTable that completes a join leaves before the helper sets its own `local_start`
  (`join.cpp:123`, `127`), and a host started in between and helped by the same host has
  the helper's new start overwritten by the older one.
* `RoutedHostsReady`: a joining host's server accepts requests (`node.cpp:199`) and its
  `local_start` is 0. Asked to let another host join, it finds itself responsible for
  every hash up to its own, helps, and names itself in the table it builds, before it
  has a table of its own. Only hosts that were asked so early are excepted.
* `IndexPlacedOffHosts`: a key equal to the new host's hash is not *strictly* farther
  than the new host (`join.cpp:112`) and stays with the helper, where no lookup goes. For the same reason
  `files` has no key at a place of a host: `ImplementsSharedIndex` would not hold there,
  an upload after the join would make a second entry.
* `OwnersServe` ends with the first process: an entry that stayed with the helper of a
  host that has the file's hash is found again when that host ends, and by then its
  owner may have uploaded the file anew, at that host, and removed it.
* `DiskWhole`: a file of 2^31 bytes or more is announced with a length that is
  negative or too small (`download.cpp:34`); nothing, or that much, is read, and the menu
  says "Download Complete!" (`download.cpp:122`). So the property compares with what was
  announced. A download that breaks off is not an exception: `socketRecvMsg` throws past
  the handler, the process ends, and the part stays in `download_file`, where a host that
  is started again takes it for the file (`download.cpp:56`). `DiskWhole` says that
  nothing else leaves a part, and that what is missing had not been sent or not been read
  by then.
* `ClaimsNoneOfOthers` excepts the double subtraction, and the handover that is undone
  when a handler has loaded `local_start` to subtract the circle from it and stores after
  the helper thread has set the new one. `TornFingersReach` allows a finger with the name
  of one host and the hash of another. `OwnAnswer` and `FirstEnd` except a port that was
  drawn twice.

### Bounds, and why they are enough

* Circle: 2^M points with M from 2 to 5 instead of 16. Nothing in the code depends
  on M but the number of entries. M = 4 has entries of every kind (first, middle,
  half a circle); M = 5 has room for four hosts that are pairwise spaced.
* Hosts: three are a new host, its helper and a bystander whose table changes; with
  four, the last join runs on tables left by an earlier one. Where the result
  depends on arithmetic, places are spread over the circle and across zero;
  `own_finger` has all 8 places of its circle.
* Commands: an upload, a deletion and a search (3) suffice for one key to be there,
  go and be looked for; two keys lie on both sides of a joining host.
* `free` uses four points so that three overlapping joins, a death and two commands
  stay small; it has joins through a host that is joining, and that such a host helps.
* `pool`: two clients fill the queue of two while the third task is refused or waits;
  three workers are one that runs, one that waits and one that is woken.
* `threads`: every pair of handlers at every pair of accesses, and a third one between;
  8 points hold ranges before, across and after zero. Each thread handles one request:
  a second one on the same thread begins where a third thread could.
* `exchange`: two calls are enough for one to be broken off and the next to meet its
  late answer; two random ports for two threads to draw the same one and different
  ones; sizes are zero, more than a block, and more than an int counts.
* Symmetry: hosts other than the first one play the same part; `live` and `endless`
  check liveness and use none.
* Deadlock is not checked: a system in which nobody types anything, or a pool that has
  been destroyed, has stopped.

### Fairness

`FairSpec` assumes `WF_vars(ThreadStep)`: as long as some live thread can go on,
some thread does. Scheduling by the operating system and connections that are
accepted justify it. Starting hosts and entering commands are not fair: people need
not. Weak fairness of all threads together is less than the code gets (each thread
is scheduled) and is enough because activities at the quiet pace are finite.

`Exchange!FairSpec` has weak fairness of each caller and each handler; beginning a
call and ending a host are not fair. `ThreadPool!FairSpec` has weak fairness of each
thread's steps, and strong fairness of its taking the mutex: a mutex that is given
back again and again is taken by each thread in the end. Spurious wakeups make that
necessary: a worker that is woken for nothing for ever could otherwise keep the others
from it. `std::mutex` does not promise it; it is an assumption about the platform. That
tasks return is another.

## 4. Mutants

Definitions whose comment begins with `FAULT` are not the program: each is a
plausible slip in the definition that follows it (a comparison off by one, a
dropped assignment, a swapped order). `PROJECT.json` pairs each property with one
under which TLC refutes it, which shows that the property depends on that code.

## 5. Proofs

Proved by TLAPS for every value of the constants: any number of hosts, size of the
circle, keys and pace; any number of threads, ports, calls, file sizes and widths of an
int; any number of workers, clients and tasks. The assumptions are the sorts of the
constants, named in the modules that declare them, and what exponents compute, which the
prover does not know and TLC evaluates: `PowersOfTwo` in `Ring` is 2^0 = 1 and
2^(i + 1) = 2 * 2^i, and that powers are natural, grow and halve the circle is proved from
it (`PowersNat`, `PowersGrow`, `HalfPower`); `IntPowers` in `Exchange` says that an int has
two halves.

* **`CircleProofs!OneResponsibleHost`**: `Circle!Spec => []OneResponsible`. The
  invariant is that the set of hosts is a non-empty set of identifiers. Its heart, `ArcOfSuccessor` in `RingProofs`, is that unrolling the circle below a
  host turns "from the predecessor's hash + 1 to mine" into an interval, also
  across zero, and that a hash lies in the interval of s just when no host is met
  before s.
* **`CircleProofs!RoutesAreShort`**: `Circle!Spec => []ShortRoutes`. After n forwards a
  request is at the owner of its hash, or less than 2^(M - n) points before the hash
  (`ForwardNearer`): the finger that is followed stands for a point at least half the
  way on and not beyond the hash, and the first host from that point lies before the
  hash, too, or is its owner (`FirstFrom`). A route is defined by recursion over a
  bounded number of forwards, so the least number for which a claim fails
  (`LeastNatural`) stands in for induction, here as for the powers of two.
* **`JoinProofs!TypeCorrect`**: `Spec => []TypeOK`, one lemma per action. The
  arithmetic lemmas (`AddRange`, `HopRange`, `UnrolledRange`) show that sums return
  to the circle and that the finger index is in range.
* **`JoinProofs!FingersReach`**: `Spec => []FingerReach`. Not inductive as it
  stands: an entry comes from the helper's record, that from a lookup's answer, and
  a distance is kept only if neither host changes its hash. `ReachInv` adds the same
  claim for the helper's record, that helped hosts and hosts that answer have been
  started, and `TypeOK`; a started host never changes its hash (`HostsGrow`).
  `EntryHostReaches` is the step that uses the test at `join.cpp:77`.
* **`JoinProofs!RoutedHostsAreReady`**: `Spec => []RoutedHostsReady`, at every pace.
  `ReadyInv` says that everything that names a host (a lookup, a request, the table a
  helper is building) names one that has a table, or is excepted, or the new host itself,
  and that a host has stored its table before it begins its walk. Where joins may begin
  early it says nothing of a JoinRequest, of its lookup and of the request for help that
  follows (`Early`); but who gets that request and helps is excepted from then on, so all
  it names may be named. Tables never become empty again and a host is helped once, so
  the exception stays known (`TablesGrowStep`, `HelperKept`). At the paces `quiet` and
  `serial`, where the contact node has joined (`ContactJoined`), nobody is excepted.
* **`JoinProofs!IndexIsKept`**: `Spec => IndexKept`. What could lose an entry silently is
  a second `help_join_req_handle` for the same host: it would forget the first
  FileTable. `AskedOnce` excludes it: for each host one request for help, or one lookup
  on its behalf, or one helper exists, never two of them. With that, every step that
  takes an entry from one place puts it into another (`HelpFiles`, `RecvFileTable`).
* **`SerialProofs!RingIsConsistent`**, **`SerialProofs!LookupIsAtomic`**: `RingConsistent`
  and `LookupAtomic` at the two paces at which hosts join one after another. Neither is
  inductive: while a host is on its way in, the walk puts it into one table after
  another, its own `local_start` appears only when the walk has gone round, and the
  helper moves its own last of all. `Serial` says where each of these stands. Its parts
  are: who is asked, looked up for and entered are *members*, hosts whose join is over
  (`Asking`, `JoinLookups`, `HelpLookups`, `Fingers`); the helper is the member after
  the newcomer (`Helpers`), because a ring that does not know the newcomer answers the
  lookup of the point after it with just that member; at most one request of the walk
  exists (`Walks`); first fingers link the members in order, and the newcomer at the
  latest when its walk has ended (`Links`), because the walk cannot pass by the one
  host whose first finger must change (`FollowsStays`); and every `local_start` cuts
  the circle right after a predecessor, the newcomer being counted from the helper's
  last assignment on (`Starts`). It holds until the first death, and among hosts none of
  which sits one point after another: a helper on the point after the newcomer enters
  the newcomer into its own table. The geometry it needs (`Follows`, `Precedes`,
  `StartsAfter`) is stated in `RingProofs` about any set of hosts and any hashes.
* **`SerialProofs!TablesAreExact`**: `TablesExactInCluster` at the same two paces, for
  spaced hosts in one half of the circle. `Tables`, beside `Serial`, says how exact each
  table is while a newcomer comes in: what the helper has looked up names the first
  *member* from each point (`HelpAnswers`), what it enters, and so the newcomer's table,
  the first host with the newcomer counted (`HelpTables`, `NewTables`; `EntryHostExact`
  is the step that needs `Spaced`); a member's entry is exact with the newcomer counted
  or without it (`MemberTables`), and with it for every member the walk has passed
  (`WalkInforms`). A request of the walk makes an entry exact whichever of the two it was
  (`UpdateExact`: the comparisons of `handle_update_route_req` pick the nearer host). The
  walk passes nobody over (`NextPassed`), and those it does not come to, before it meets
  the newcomer, need no change: its first host is the first from half a circle behind
  the newcomer, the hosts it leaves out lie after the newcomer, and from a point at most
  half a circle after them the newcomer is never first (`RestExact`). That is where one
  half of the circle is used; `endless` shows what happens without it.
* **`IndexProofs!IndexIsPlaced`**, **`OwnersAlwaysServe`**, **`FirstDeathIsOwnDoing`**:
  `IndexPlacedOffHosts`, `OwnersServe` and `FirstDeathOwnDoing` at the quiet pace, from
  one invariant, `IndexInv`. A command and a join are many messages long, so it says what
  is so between them. `Turns`: while a command is under way nobody joins, and its request
  is the only one; this is not assumed but follows from `quiet`, which restricts only
  when people act. `Told`: the owner a lookup has found, and the entry that a deletion
  is going to remove, are still so when they are used. `Placed`: an entry lies with the
  owner of its key among the `Keepers`, the hosts whose helper has handed them their
  part, and it is in the FileTable of the joining host until that host has merged it;
  the file it stands for is there, or its deletion is under way. The heart is
  `HelpFilesPlaced`: what `help_join` selects by comparing two distances to the helper
  is just what the new host owns once it is counted (`OwnsKept`, `OwnsMoved`), on any
  circle, across zero too. That no send fails before the first end (`JoinStepSurvives`,
  `LookupStepSurvives`, `FileStepSurvives`) follows from `ReadyInv` of `JoinProofs`: who
  is named has a table, and who has a table and has not ended runs.
* **`IndexProofs!IndexIsShared`**: the safety part of the refinement of `SharedIndex`, at
  the quiet pace: `Index!Init`, and every step is one of `Index!Next` or shows nothing,
  up to and including the step that ends the first process, as long as no host sits one
  point before another or on the hash of a file. `NamedOnce`: all copies of an entry name
  one owner, since they lie with one host, which has it either stored or coming.
  `EntryAtOwner`: when nobody joins the index says what the owner of the key has stored.
  So a search prints the index, an AddFileRequest is `Upload` or nothing, a
  DeleteFileRequest `Remove`, and the steps of a join show nothing (`HelpFilesNotShown`,
  `RecvFileTableNotShown`). TLC checks the refinement beyond the first end.
* **`ThreadsProofs`**: all five properties of `threads`. About `local_start` the
  argument is that it only moves down: `Lowest`, the range's start on the unrolled
  circle, bounds it once a thread has tested it, and what a thread is about to store is
  no higher, even if a handover came since it loaded. So none of its own hashes is
  refused. `Exact`: it is what was last set or `Lowest`, and one thread subtracts at a
  time, as long as no two subtractions overlap; so no other's hash is claimed.
* **`ExchangeProofs`**: `OwnAnswer`, `DiskWhole`, `FirstEnd` and types. A port says nothing
  of who sends to it, so `Routes` goes by who may still use one: two calls share a port
  only if it is in doubt, a handler that may still answer has a caller that waits for
  just that answer, a connection waits only where its caller listens. `Headers` relates
  what a handler has sent to what it has still to send, whence `Disk`: what is
  still to be read is the rest of what was announced, and out of the loop that reads it
  all of it has been written. Neither `Disk` nor `DiskWhole` asks who runs. For `FirstEnd`, until the first end everybody runs (`Alive`),
  a port stays open while its caller reads (`Listening`), and nobody else takes an
  answer (`Heard`).
* **`PoolProofs`**: the four invariants of `pool`, from `PoolInv`: who holds the lock and
  where (`Holders`), how the flag goes with the destructor (`Flag`), and that each task
  is in just the place its state names (`Placed`). `PoolIsQueue` is the safety part of
  the refinement: every step of the pool is a step of `TaskQueue` or none.

Every invariant that a run checks is the subject of a theorem. Only model-checked:
`ImplementsSharedIndex` after the first end of a process, when requests can be lost and
hosts that are named can be gone, so that little of `IndexInv` is left; and all liveness,
with the fairness part of the refinement of `TaskQueue` (fairness and ENABLED are out of
this prover's reach).

## 6. Not modelled

* **Protobuf**, generated (`protobuf/P2P_Protocol.pb.*`) and vendored
  (`protobuf/include`): more than 99 of 100 lines of C++ under `src/` are this library,
  which is not the program's own logic. Nearly every line of the program itself that
  does more than print or copy fields is mapped.
* **Framing** (`util/proto.h`): a message is whole or lost. That a FileTable of more than
  8192 bytes may break off with its sender and be taken as far as it came
  (`join.cpp:272`) is listed as a hazard without a property.
* **Digest** (`get_hash`): a pure function of SHA-1 texts. Which names collide is a fact
  about SHA-1, not a step of the program; hosts with the same hash are excluded.
* **Restarts**: nothing but the downloaded files is stored, so a process that is started
  again is a new host that joins; the models do not start one again at the same hash. It would draw the same
  ports as before, as `rand()` is not seeded, and an answer to its former life could
  come to one of them: a port in doubt of a kind that `Exchange` does not have.
* What a circle that overlapping joins have broken still does, beyond what holds at
  `free` (above), and `Chord`,
  `HostThreads` and `Exchange` composed into one state machine: it is out of TLC's reach
  at a size where a join happens.
