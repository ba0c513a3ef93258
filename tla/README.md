# AlephZero in TLA+

AlephZero is a C library for communication between the threads and processes of
a robot.  Everything it offers (publish/subscribe, rpc, logging, configuration,
deadman switches) is built from files mapped into several processes, a lock that
survives the death of its holder, and a ring of frames behind that lock.  There
is no server: a process may be killed at any instruction and the others go on.

This project models the library from the futex word up to rpc and discovery,
checks it with TLC on small instances, and proves with TLAPS, for every value of the
constants, each safety property that the runs check of the mutexes, the transport,
readers, writers, rpc, files, discovery, the hash map and the patterns of paths, and that
the transport implements a log.
`PROJECT.json` maps each definition to the lines it models.

## Reading order

| module | what it is |
| --- | --- |
| `Transport` | `transport.c`: the ring, the two state pages, waiting, shutdown, process death |
| `TransportLog` | what the transport promises: an append-only numbered log of which a suffix is kept |
| `TransportInv` | the inductive invariant of `Transport` |
| `TransportProofs` | the theorems about `Transport`; it implements `TransportLog` |
| `MCTransport` | instances for TLC |
| `DeadmanMtx`, `MCDeadmanMtx` | `deadman_mtx.c`: the mutex that others can watch |
| `DeadmanProofs` | the theorems about `DeadmanMtx` |
| `RobustMtx`, `MCRobustMtx` | `mtx.c`, `ftx.h`, `robust.c`: mutex, condition variable, robust list |
| `Mutex` | what a robust mutex promises: one holder, free when it dies, and then orphaned |
| `RobustProofs` | the theorems about `RobustMtx`; it implements `Mutex` |
| `Reader` | `reader.c`, and the readers of `pubsub.c`, `log.c` and `cfg.c` |
| `ReaderProofs` | the theorems about `Reader` and their proofs |
| `Writer`, `MCWriter` | `writer.c`, `middleware.c`, and the writers of `pubsub.c`, `log.c` and `cfg.c` |
| `WriterProofs` | the theorems about `Writer` |
| `Rpc`, `MCRpc` | `rpc.c` and `prpc.c` |
| `RpcProofs` | the theorems about `Rpc` |
| `File` | `file.c`: opening, creating and removing a file |
| `Discovery`, `MCDiscovery` | `discovery.c`, composed with `File` |
| `DiscoveryProofs` | the theorems about `File` and `Discovery` |
| `Map`, `Packet` | `map.c` and `ref_cnt.c`; `packet.c` |
| `Topic`, `Pathglob`, `Time` | `topic.c`; `pathglob.c` and `a0_abspath`; `clock.h`, `time.c` and `strconv.c` |
| `Algorithms`, `MCAlgorithms` | the five of them on small inputs |
| `AlgorithmProofs` | the theorems about `Map`, `Packet`, `Pathglob` and `Time` |

Each layer uses what the one below it was shown to be: `RobustMtx` implements `Mutex`, the
owner and the bit of `Transport`, and loses no wake-up of its wait set; `Transport` implements `TransportLog` and loses
no wake-up, so `Reader`, `Writer` and `Rpc` are over a log of which a suffix is kept,
and a wait is a guard (`Reader` has it by `INSTANCE`, and is proved to move it as
`TransportLog` does); `Rpc` takes from `Reader` that a reader gets every frame that
is kept, in order, and from `Map` that the table is a function.

Definitions keep the names of the functions they model.  Where a function is
several steps, the first has its name and the others are named for what they do.
A definition whose comment starts with "Mutant" is a deliberately wrong version
of the one below it; no specification uses it.  It exists to show that a property
notices the bug.

## Inventory

**Transport** (`transport.c`).  State: a header in shared memory with
`initialized`, `arena_size`, two state pages (`seq_low`, `seq_high`, `off_head`,
`off_tail`, `high_water_mark`), the index of the committed one, a mutex and a
condition variable; frames in the arena, linked by `next_off` and `prev_off`; per
connection a pointer (`seq`, `off`), a count of waiters and a shutdown flag.
Operations: init, lock, unlock, jump and step, alloc (which evicts the oldest
frames one commit at a time until the new one fits), commit, clear, resize, wait
on a predicate with and without deadline, shutdown.  Hard: death between any two
writes; ring arithmetic with alignment and wrap-around; one condition variable for
waiters with different predicates and for shutdown.  Correct when the committed
page always describes a complete list of intact frames, a pointer is never
accepted for a frame that is gone, no wake-up is lost and shutdown drains.

**Mutex and condition variable** (`mtx.c`, `ftx.h`) and **robust list**
(`robust.c`).  State: a futex word with owner, `FUTEX_WAITERS` and
`FUTEX_OWNER_DIED`; a counter as condition variable; a doubly linked list per
thread that the kernel walks when the thread exits, and `list_op_pending`.  Hard:
death between two stores; a timeout racing a requeue; a wake-up between the unlock
and the sleep of a wait.  Correct when nobody dead owns a mutex, nobody is queued
on a free one, a mutex has one owner and no wake-up is lost.

**Deadman mutex and deadman** (`deadman_mtx.c`, `deadman.c`).  State: a futex word
and a token that counts lockings; per object `_shutdown`, `_inop`, `_is_owner`.
Operations: lock, trylock, unlock, wait until locked, wait until unlocked, shutdown
from another thread, close.  Hard: word and token are separate; words loaded before
and used after other steps; relaxed atomics.  Correct when there is one owner, a
token names one locking, every change reaches those who wait for it and shutdown
ends what is in progress.

**Event, latch, once** (`event.c`, `latch.c`, `once.c`).  Loops around
`a0_cnd_timedwait`.  Hard: they leave on any error, `EOWNERDEAD` too.

**Reader** (`reader.c`).  A thread that waits on the transport and calls back for
each frame, by an init policy (oldest, most recent, await new) and an iteration
policy (next, newest).  Hard: the policy is decided before the thread runs; close
races with the callback and may be called from it.

**Writer and middleware** (`writer.c`, `middleware.c`).  A chain of steps around
lock, serialise, commit, unlock.  Hard: unlocking on each path, failures part way.

**Packet, map, compare** (`packet.c`, `map.c`, `cmp.c`).  Sequential algorithms: the flat
layout of a packet, a robin-hood hash table with backward-shift deletion.

**Rpc and prpc** (`rpc.c`, `prpc.c`).  Requests, responses, progress and
cancellation as packets on one topic, outstanding requests in a map under a mutex.
Hard: a response racing the cancellation, the timeout or the close of its client.

**File, discovery, pathglob** (`file.c`, `discovery.c`, `pathglob.c`).  Creation of a
file of the right size by several processes at once; scanning a directory tree
while it is watched.

**Pubsub, log, cfg, topic**: compositions of file, reader and writer.  **Reference
counts, time, uuid, tid, env, strconv, err, C++ wrappers**: conversions, system calls
and ownership wrappers.

How they interact: a topic names a file; the file holds a transport (or, for a
deadman, a token); writers and readers share only the transport; the transport
rests on the mutex and condition variable, those on the futex and the robust list;
rpc, prpc, pubsub, log and cfg talk only through packets in transports.

## The transport

*State.*  `mem` gives the frame header found at each aligned offset, with the
payload behind it; offsets and sizes are the code's bytes (`HDR_SIZE` 40, alignment
16), so every comparison of the ring arithmetic is the code's own.  `pages` and
`committed_page_idx` are the header's; `C` and `W` are the committed and the working
page.  `owner` and `owner_died` stand for the mutex.  `loc`, the offset at which a
sequence number was put, is auxiliary and no action reads it.

*Steps.*  An operation is cut wherever a death of its process or another thread
could tell the difference: each eviction is an update of the working page, the flip
of the index, and the copy back with its broadcast; an allocation evicts, writes the
frame header and the page, links the old tail, and is filled by the caller; a commit
flips, copies and broadcasts; clear and resize likewise.  A write to the
arena destroys every header and payload it touches (`Overwrite`), so an overlap
cannot stay unnoticed.
`Crash` kills a process with all its threads at any point; a new one may connect
under the same name.  A lock taken with `FUTEX_OWNER_DIED` resets the working page
(`ResetWorking`); a wait that inherits the mutex does not, as in the code.

*Bounds* (all in the cfg files): `MaxSeq` allocations, `MaxCrashes` deaths, the sizes
and arena sizes.  The arena of 304 bytes holds two frames of the larger size or three of the
smaller, that of 256 holds one or two: four allocations wrap around, evict one and
several frames, leave a gap at the end, and place a slot at the very start behind a
wrapped tail.

*Fairness.*  A thread inside the library keeps running (weak); one that may leave
its critical section eventually does (strong on unlock, since a reader may move
its pointer in between as often as it likes); a thread queued on the mutex is
eventually given it (strong on what it does on acquiring), which is what a
priority-inheriting futex with a queue provides.  Nobody is obliged to write,
wait, shut down or die, and a deadline need not pass.

### Runs

* `transport_ring`: a writer that allocates, evicts, commits, clears and resizes, a
  reader that moves its pointer, one death.  `CommittedLinked`, `CommittedIntact`,
  `HighWaterMarkExact`, `PointerSound`, and `LogSpec`: the whole implements
  `TransportLog`, in which deaths do not exist.  The readers of this run poll; for
  those that wait, see `transport_dirty_wait`.
* `transport_wait`: writer, waiting reader with deadline, closer.  `OwnerIsInside`,
  `ShutdownDrains`, `NoStuckWaiter`, `ShutdownReturns`, and `IInv`, the invariant that
  the proofs rest on; the type invariant is part of it, and proved.
  There are no deaths in this run, so `IInv` is checked without them here, and proved with them;
  with a death `NoStuckWaiter` fails (`TransportLostWake`).  One waiter shares the condition
  variable with the closer; two waiters with different predicates at once do not occur.
* `transport_dirty_wait` (violated): a writer dies between alloc and commit while a
  reader waits.  The reader gets the mutex inside `a0_cnd_timedwait`, where nobody
  resets the working page, and reads a frame that was never committed.

### Proofs

`TransportProofs` proves, for any number of threads, processes, payloads, sizes
and arena sizes, from `ConstantsAssumption` alone (sets are what they should be, a
payload is not empty, an arena is larger than its header, writers do not wait, which
is how `writer.c` and `reader.c` use the interface):

`Inductive` (`Spec => []IInv`), and from it `TypeCorrect`, `MutualExclusion`,
`AlwaysLinked`, `AlwaysIntact`, `HighWaterMark`, `ShutdownIsFinal`.

The properties speak of the committed page, and are not inductive.  What an owner
does next depends on the working page, so `IInv` says for each control state of the
owner what that page holds: at an eviction it is the committed page or that without
its head (`AtEvict`), after the slot was taken the committed page with one more
frame that lies clear of all others (`AtLink`), and then a good page of its own
(`AtFill`).  That a slot lies clear needs one more idea: `slot_evicts` compares it
with the *head* only, once per round.  This suffices because going up the arena and
around its end the frames appear in the order of their numbers (`Cyclic`), so the
first one in the way is always the oldest.  `SlotIsFree` proves that from `Cyclic` and
the place of the slot behind the tail; `LinkGood` proves that the new frame continues
the order; `RemoveHeadGood` that an eviction keeps everything, the exact high water mark
included.  `WaitCounted` ties `_wait_cnt` to the threads inside a wait, from which
`ShutdownDrains` follows.  A death needs no case of its own in the storage part: it
changes no shared memory, and every conjunct about the working page has a living
owner as its hypothesis.

Two more follow from `IInv`.  `ImplementsLog` (`Spec => LogSpec`): the
refinement maps `seq_low`, `seq_high` and the payloads of the committed page to the log.
Only three steps change them: the flip of a commit in `a0_transport_commit` is an append,
that of an eviction a drop, that of a clear a clear.  All others, deaths included,
stutter.

`PointersSound` (`Spec => []PointerSound`): a pointer that is accepted is at the live frame
of its number.  The property speaks of the connections that are `Steady`: nobody waits on
them (they poll), or nobody has died.  For the others `transport_dirty_wait` refutes
it, and no more than those are left out: a connection that polls beside one that waits
is covered, deaths or not.  Pointers are moved by the working
page, so the invariant (`Clean`) says where that equals the committed one: inside the
critical sections of steady connections, and, before the first death, whenever the mutex is
free.  The second makes up for what a waiter does not do when it comes by the mutex in
`a0_cnd_timedwait`; the threads of a connection that polls never come by it that way.

Only model-checked: liveness, which is outside the prover.

## The deadman mutex

A step is one access to shared memory or one system call.  A user is a process
with one object, one thread that operates it and one that may shut it down.  With
`Buffered` set, the relaxed stores of `_shutdown` and `_inop` (`atomic.h:25-26`) become
visible to the other thread later (`Flush`), unless a barrier or system call
comes first; without it they are immediate.  Bounds: `MaxEpochs` lockings and
`MaxDeaths` deaths; two lockings are needed to confuse one owner with the next,
and two suffice for each claim that is refuted below.  Fairness: running threads run on,
the spinning closer spins on, stores become visible (all weak).

* `deadman_safe`: `OwnerExact`, `TokensDistinct`, `ReleasedIsOver` with two lockers that
  may die and a watcher with a deadline and a closer.
* `deadman_live`: `ShutdownEndsSleep`, `LockIsNoticed`.  The system may stop here (every
  locker done), so deadlock is not checked; likewise in `deadman_stuck_lock`.
* `deadman_stuck_lock` (violated): `timedlock_impl` arms its wait with a word older
  than the one it found busy, and sleeps on a free mutex.

`DeadmanProofs` proves `OwnersExact`, `TokensGrow` and `ReleasesAreOver`, for any
number of users, lockings and deaths, with stores immediate or delayed.  `OwnerExact`
is two implications; the inductive invariant `DInv` makes them one equivalence
(`Owning`: the word names u exactly when u is at the increment of the token, or is the
owner and not at the store that unlocks), which is what keeps two users from the
increment.  `Tokens` adds that no token exceeds `_tkn`, and that the one of the
current locking, once given, equals it; with that the plain `_tkn++` is safe and the
comparison in `a0_deadman_mtx_timedwait_unlocked` means what it should.  `InBound` is
there for the model's own bound: who has begun to lock counts against `MaxEpochs`,
which is why `Users` is assumed finite.

## Mutex, condition variable and robust list

A step is one store to shared memory or to the list, one swap, or one system call.
A node is a mutex or the head of a thread's list.  `a0_mtx_t` has `next` and `prev`
first and the kernel's `robust_list_head` has `next` and `futex_offset`, so a head's
`prev` *is* its `futex_offset`; its right value is `Offset`.  The kernel
(priority-inheriting lock, unlock and requeue; the walk of the list at
exit) is modelled from how the code uses it: `Granted`, `Listed` and `Die`.  A death
hands a mutex with queued threads to one of them.  A mutex in `Deadmen` is taken and
released by `deadman_mtx.c`, which clears the word by itself.

* `robust_mtx`: three threads on a mutex, one of them on a deadman's as well, so
  that lists of two occur; one deadline, two wake-ups, one death at any store.
  `DeadOwnNothing`, `ListExact`, `QueueIsServed`, `WakeIsComing`, and `MutexSpec`: to
  its users the mutex is that of `Mutex`.
  The threads b and c are interchangeable.  `LiveView` identifies states that differ
  only in links of an unlocked mutex, which are overwritten before they are
  read.  All may sleep with nobody left to wake them, so deadlock is not checked.

`RobustProofs` proves all five for any number of threads, mutexes and deaths, in three parts.

*Queues and wake-ups* (`QueuesServed`, `WakesCome`) hold whoever releases what: `QInv` adds
to the properties only where a thread is that is queued or asleep (`Placed`).

*Owners and lists* (`HoldersOwn`, `DeadLeaveNothing`, `ListsExact`) have the hypothesis
`~ForeignRelease`: a thread releases what it took itself.  `a0_mtx_unlock` checks that;
the release of a deadman does not, and there `RobustClose` refutes the properties.  The invariant
`RInv` says that a word names t exactly if t was told so or is inside an operation on that mutex
(`Owned`), and describes the list between any two stores (`Links`, `Locals`): a walk along
`next` comes to exactly what is on it, and `prev` goes back but for the one store that is
missing.  What the walk comes to, `Listed`, is the least set closed under `next`, so that
a store which adds or removes one mutex is followed by exhibiting a closed
set, before and after it, and takes no induction.

*The mutex* (`ImplementsMutex`, same hypothesis): the ordinary mutexes together refine
`Mutex`, whose steps are `Take`, `Give` and `Perish`.  `holders` are the threads that were
told they hold the mutex; it is `orphaned` while FUTEX_OWNER_DIED is in its word and no thread
is between the start of a release and the store that clears the bit (`Clearing`).  The
end of `a0_robust_op_add` is `Take`, the start of an unlock or of a wait is `Give`, a death is
`Perish`, and every other step changes neither (`StepSeen`).  A thread that dies inside a lock
or a release, when nobody holds the mutex, may orphan it too, and `Perish` allows that.
The proof needs `RInv` and one more invariant, `Unmarked`: from the store that clears the bit
to the swap or system call that frees the word nobody sets it again, so that freeing the word
loses no mark.

`HoldersOwn` (the word of a mutex names the thread that holds it) comes from the same
invariant.  The transport model uses this abstraction (an owner, a bit, a wait set):
`MutexSpec`, `DeadOwnNothing` and `WakeIsComing` justify it.

## Reader

`low` and `high` are the log: `Write` appends a frame, `Evict` drops the oldest, `Clear`
drops all and keeps `seq_high`, as the three steps of `TransportLog` do.  An eviction is
separate from the append because in `transport.c` it is committed by itself, and its writer
may die before it appends.  `api` is the interface in use: the
synchronous and the threaded reader, zero-copy or copying, with each init and
iteration policy, and the fixed choices of `a0_cfg_read` and the watcher.  One
reader is followed from the opening of its file to its closing.  Readers meet only in
the transport, so one reader among arbitrary writers is every case.  A step is a
critical section of the transport's mutex; a blocking read is two, one per wait, with
the deadline as an alternative of either.  `user` is the thread that owns the reader,
`thread` the reader's own: created, at its first packet, between packets, in a
callback without the mutex, done.

Run `reader`: `InOrder`, `NothingSkipped`, `StartsAsAsked` (the first frame is the one
the policy names or, if it is gone, the oldest kept after it), `PromiseKept` (what `can_read` promised stands until the transport becomes empty),
`MappedWhileUsed` (the file is unmapped after the thread has ended),
`NewFrameArrives`.  Four frames and a clear: a reader placed at a frame that is evicted
before its first read, one that never read and finds the gap a clear leaves, one
that falls behind and is overtaken.  Fairness is weak, on the reader's thread, a
blocked read and the join; nobody has to write, read or close.

`StartsAsAsked` names the one exception, `StartsNewest`: with ITER_NEWEST the first frame may be
the newest one, for a reader that awaits new frames and for a synchronous reader whose
position does not exist at its first read, whether its frame was evicted or the topic was empty.
`a0_reader_sync_zc_read_align` then steps by the iteration policy (`reader.c:145-150`) and
passes over older frames that are kept.  `OldestAvailable`, without the exception, is
refuted (`ReaderOldest`).

`ReaderProofs` proves `FramesInOrder` (`Spec => []InOrder`) and `FramesNotSkipped`
(`Spec => NothingSkipped`) for any number of frames and clears, from
`BoundsAssumption`.  `InOrder` alone says nothing of the next frame.  The inductive
invariant `ReaderInv` adds that the reader's position is the last frame handed out,
that it does not exceed `seq_high` (so a position that is not valid lies before the
frames, and has a next one: `LostHasNext`), and that the control state, `first_read_done`
or the place of the thread, says whether something was handed out.  The last part is
what rules out a second "first" read at the same place (`StayProper`).  Each way to
hand out a frame is then an instance of `HandOutOrder`.

Two more invariants give the other safety properties.  `LifeInv`: the life of the
thread lies within that of the reader, and that within the mapping's
(`MappingOutlivesUse`), and a promise stands for as long as a next read would find a
frame (`PromisesAreKept`). `StartInv` is about the time before the first frame: the
reader is where it was placed, and what remembers that it is fresh (`first_read_done`,
`started_empty`, the place of the thread) agrees with the transport of that time,
which has only moved up since.  From it `FirstFrameAsAsked` follows, with equality: no kept frame
between the one asked for and the first one; the hard case is
a reader that lost its place before the first read, which never waits for a "next"
frame, since one is there.

The log itself is joined to the transport by two theorems.  `ReadsTheLog` (`Spec =>
LogSpec`): with `low..high` as its frames, the log of this module is a `TransportLog`, the
specification that `ImplementsLog` shows `transport.c` to meet.  This direction alone would
allow writers that do less than the transport's.  `EveryLogStep` is the other one: any step of
`TransportLog` between two such ranges is `Appended`, `Evicted` or `Cleared`, so what is
proved of the reader is proved for all that its transport can do, but for the bounds on
frames and clears, whose values are arbitrary.

## Writer and middleware

A packet passes the chain twice: without the mutex through the functions `process`,
then, when the write action has taken the mutex, from the head again through
`process_locked`.  `at` is the place in the chain, `tlk` the pass; a step is one
middleware.  The requests are a plain write or publication, a log message, a
write-if-empty and a merge patch, with the chains that `pubsub.c`, `log.c` and `cfg.c`
compose.  `yyjson` is external, its merge modelled on flat objects, with null and
with text that is not JSON.  `log` keeps what the transport evicts, as history.

Run `writer`: `UpdatesAreSerial` (a patch is applied to the frame it follows, so no
update is lost; a write-if-empty is the first frame or none, and its caller knows
which), `HeadersTell` (each standard header once, ids unique, times that never go
back along the log, levels that listeners filter right), `WriteReturns` (with the
mutex released on each path).  Three writes by two threads that share a writer and
its counter: one write between the read and the commit of another, and a third that
needs the mutex they left.  The fairness is strong on a thread inside a write: the
futex queues those who wait for the mutex.

`WriterProofs` proves `UpdatesSerial` and `HeadersTrue`, for any number of threads,
writers and writes.  First the chains are written out (`PublisherChain`,
`WrappedChain`), so that the two passes become two successor functions on names
(`Follows`, `FollowsLocked`). `WInv` then says which names a thread can be at in which
pass (`Control`), that a thread in the locked pass is the only one there
(`Exclusion`), and that a thread beyond the wrapping middleware has decided, and what
it decided is still so (`Effect`): the payload is merged with the *last* frame, or the
log is *still* empty.

`HInv` is about headers.  `Worn` gives, by pass and place, the standard headers that a
packet has by now; these are there once and the others not at all (`Dressed`), which
is what makes each prepended header new.  A frame keeps what its packet had (`Told`).
A number of a writer is on one packet, in hands or in the log (`Unique`): those given
out are below the counter, the next is the counter's.  The monotonic time of a packet
in the locked pass is not before any frame's, and no frame can come between.  The
hypothesis `PlainRequests` is about callers: they leave the five standard keys to the
library, and log at the levels of `log.h`.  The code checks neither; a caller's own
`a0_time_mono` would stand beside the library's.

## Rpc and prpc

One module, since the two differ in which packets they look up and when a callback
leaves the map; `proto` says which a behaviour is about.  State: the topic; the
server's position and the requests it was given; per client its position, the packet
at hand, the callback taken from the map, and the map; per request where the thread
is that sends it, the one that cancels it and the reader of a blocking call.  A step is a
critical section, of the map's mutex or of the transport's.  A server may answer
twice and go on after it is done, packets may be evicted before they are read.

A cancel looks at nothing but the map: it may run before, in the middle of or after the call that
sends the request, and again later (`Forget`, `Tell`).  `early` remembers the requests whose
cancel went through the map before they were in it.

Run `rpc`: `OnceAndLast`; `OnlyItsAnswers` (what keeps a prpc client from reporting its
own cancellation as progress is only the order in `a0_prpc_client_cancel`, and that is not enough
for an early cancel: `map_del` finds nothing, `connect` puts the callback into the map, and the
cancellation that follows is reported, which `RpcCancel` shows); `AnswerArrives` (what arrives
is a response or a completion, progress does not count); `BlockingReturns` (the call returns on
an answer or cancellation that its reader has yet to come to; a cancellation written before
the reader was placed is never read, and the call blocks on, which `RpcCancelledCall` shows).
Two requests of one client, one of them blocking
in rpc, four packets, one evicted, one cancellation (`MaxCancels`): enough for request, cancellation
and two answers to one request, or for two requests with an answer each.  With two cancellations, of
two requests or of one twice, the invariants hold as well, in 3.5 million states.  Clients share no
state but the topic.  Weak fairness for reader threads and blocked calls; no deadline has to
pass.  All may be done, so deadlock is not checked.

`RpcProofs` proves `CallbacksOnceAndLast` and `CallbacksOnlyTheirs` for any number of
clients, requests, answers and evictions.  What a callback was given says nothing of
what it may yet be given; `RInv` adds it.  A callback is in the map (`Mapped`) or in
the hands of the reader's thread (`InHand`) only while nothing that ends its request
has been handed to it, and not in both if the packet at hand ends it; a request that
was forgotten is in no map, and only then its cancellation is on the topic (`Told`), unless
it is in `early`, the exception that `OnlyItsAnswers` makes.

A blocking call that times out leaves its entry in the map until the client is
closed; the model has this, and no property forbids it.

## File and discovery

`File` has directories, names and inodes; a step is a system call.  A process makes the
directories on the way, opens the file or else creates a temporary one, sizes it,
links it to the name, and unlinks the temporary name; `EEXIST` starts the loop over.
Calls may fail, processes may die between any two, files may be removed.
`Discovery` composes it with the scanning thread: the deepest directory of the
pattern that exists, watch before read, recursive calls (`stack`), events, the map of
what was announced, the eventfd of close.  `readdir` returns what is there from
`opendir` on; for what comes or goes meanwhile, both are possible.

Run `discovery`: `OneWholeFile`, `OpenReturns`, `AnnouncedOnce`, `FileIsAnnounced`,
with two processes that create one file with different sizes below two directories
that do not exist, and one fault.  Each step of their creation falls at each step of
the scan.  Three inodes suffice: one each, and another for a loser who finds the file
removed.  Weak fairness for the scanning thread and a process inside `a0_file_open`.
The one file of the run matches the pattern.  With a second file that does not, which
either process may open, the run takes too long to be repeated at every change (1.7 million
states); the four properties held there too, and `PathsAnnouncedOnce` covers files that do not match.
Scans and events leave temporary names out, as the pattern of the run would; one that ends in `*` or
`**` matches `.alephzero_mkstemp.XXXXXX` (`file.c:128`) too, and announces it.

`DiscoveryProofs` proves `FilesAreWhole` and `PathsAnnouncedOnce` for any number of
processes, paths, faults and removals.  `FInv` says of each process what it holds at
each system call, and of each name that what it leads to is whole; what it needs of
`mkstemp` is in `FileAssumption`, that a temporary name is no file's and is one
process's.  `Announced` says that the map holds exactly what was announced, each path
once.

## Map, packets, patterns, times

Sequential code against reference definitions, in the run `algorithms`.

* `MapIsFunction`: every sequence of puts, deletes and reference counts on five keys
  that collide at each capacity that occurs and wrap around; the table answers like
  a function, and its iterator returns each entry once.  A step of `Map` is one turn
  of a loop: of the search for a place in `a0_map_put`, of the copying in
  `a0_map_grow`, of the shifting in `a0_map_del_bucket`.
* `CodecsAgree`: packets of up to three blocks with empty blocks, strings and payloads,
  laid out cell by cell.  A step of `Packet` is one turn of a loop, of those of
  `a0_packet_stats` or of that of `a0_packet_serialize`; the buffer has the cells that were
  written and no others.  The flat form fills the size that was asked for and is that packet (`PacketFlat`);
  copies and both iterators agree with it, and a copy fits what it allocates.  Times: sums and
  conversions are exact, the decimal form is read back and sorts like the times.  A
  second has 100 nanoseconds there and the form five digits, which keeps the
  carries, the odd number of digits and the padding; longer times are among the samples of the arithmetic, and the string form is
  stated for those that fit (`Fits`).  Patterns are taken apart at their
  slashes.  `TopicsApart`: two topics of one template are one file only if they are one relative
  path spelt twice.  `topic.c` copies a topic as it is, so `a//b`, `a/./b` and `a/b` are one file to the
  operating system; `FileOf` drops the parts that lead nowhere.  Topics with a part `..` are not
  refused and not sampled, nor are templates with a lone dot beside `{topic}`; those in
  `env.c` have none.
* `PathsMatch`: all patterns of up to six characters over `/`, `*` and a letter, joined to a
  root where they are relative, against all paths of up to four after the first slash.  A step of
  `Pathglob` is one turn of a loop, of that over the parts or of that over the characters
  of one part.  A text fits a pattern if it can be cut such that each element takes its
  piece (`Fit`): the one definition serves characters in a part and parts in a path.

`AlgorithmProofs` proves, for every set of keys and every hash, `MapFunction` (`MapSpec =>
[]MapIsFunction`).  That an entry is found needs more than its presence: `a0_map_find` gives up
at the first bucket that is nearer to its first choice than the search is to the
key's.  The invariant `MapInv` therefore describes the table between any two turns of a loop:
each entry is at its distance from its first choice (`Sits`); no entry is farther from its own
by more than one than the entry before it (`Near`), from which `Path` shows that a search
reaches it; a key occurs once (`Unique`).  In the loop of a put the bucket in hand has the same relation to
its place and any entry with its key is still ahead (`Held`), so that a swap cannot leave a
second copy behind.  In that of a deletion `Near` fails at the hole alone, and by one place at most (`Gap`);
the shifting moves the failure on until it vanishes.  While the table grows, the new one
holds what the iterator has passed (`Moved`).  `MapHasRoom`: less than half of the buckets are
in use whenever an entry looks for a place, so each search meets an empty one and
`a0_map_grow` never calls itself.  The arguments along the ring are inductions, done
by taking a least counterexample (`Least`).

`GlobMatches` (`GlobSpec => []PathsMatch`): the matcher answers yes exactly if the path fits,
for all patterns and paths.  It remembers one place to go back to, where the last star began;
that this is enough is what the invariant has to say.  `Since`, one definition for both
loops, gives the state of a loop: since the last star every element fitted; what the star has
taken by now can be cut; and if the text fits at all, it fits with a star that takes at least
that much.  The last part survives a new star because what lies between two
stars has a fixed length (`Straight`), so the earlier star need not be tried again; and when
an element does not fit, no cut has the star end where it does (`NotHere`).  Each turn
is then one of seven lemmas about `Since`, used once per loop.  The parts are those of
`a0_pathglob_init` (`Parsing`): no slash in a part, and no star in one of the type
verbatim, however `has_star` was carried over.

`ClockAddExact` and `ClockConvertExact` prove the arithmetic of `clock.h`
for all times and differences, negative ones too, and any number of nanoseconds in a
second; C's division towards zero is written out.

`PacketIsFlat` (`PacketSpec => []PacketFlat`): for every chain of blocks, empty ones
included, any strings and any payload, serialisation writes each cell of the size that
`a0_packet_stats` computed and none beyond; id, payload and each header, with its number in the whole
chain, are read back.  Three passes over the same headers must agree: one counts, one
measures, one writes at two places that move at different speeds.  The auxiliary variables `first`
and `sizes` keep what the first two had counted before each block and each header, and the invariant
ties the third to them: its next word and its next string are where these say (`Writes`),
and only the words below and the content up to that string are there (`Filled`).  Headers that were
written stay (`HeaderKept`) because no later write goes below either place; a string is
read back as it was because no character is the terminator (`ReadString`).  Assumed is
`PacketAssumption`: keys and values are strings without a terminator in them.

## Disagreements with the documentation

`transport_dirty_wait` and `deadman_stuck_lock` are violated runs; `PROJECT.json` quotes
under `findings` the lines they contradict.  Six more claims of the documentation, and two
expectations of a cancel that nothing in the documentation promises, are refuted by the same
modules.  They are not among the runs, and each has a configuration, of the module `MC...`
of its name or of `Reader`:

| cfg | refuted | what the code does |
| --- | --- | --- |
| `TransportLostWake` | `NoStuckWaiter`, with a death: "will be awoken when a given predicate is satisfied" (`transport.h:95-96`) | a writer dies between the flip that publishes a frame (`transport.c:676`) and the broadcast; frame there, mutex free, reader asleep |
| `DeadmanToken` | `TokenTracksOwner`: "a token that can be used to track the current owner" (`deadman_mtx.h:66-67`) | the swap at `deadman_mtx.c:49` shows the lock before line 52 counts the token; a watcher gets the last owner's |
| `DeadmanRelease` | `ReleaseIsNoticed`: "detect that the particular owner is unlocked" (`deadman_mtx.h:76-77`) | unlock and relock between comparing the token and the swap (`deadman_mtx.c:198`) leave the same word; the watcher sleeps on |
| `DeadmanBuffered` | `ShutdownInterrupts`: "Interrupts active lock/wait operations" (`deadman_mtx.h:49`) | `_shutdown` and `_inop` are relaxed (`atomic.h:25-26`), each side may miss the other's store; with immediate stores the claim holds |
| `RobustClose` | `DeadOwnNothing`, with `ForeignRelease`: "death of the thread or process will automatically unlock the deadman" (`deadman_mtx.h:17-18`) | a deadman closed by a thread other than its owner (`deadman.c:32`): `a0_robust_op_del` takes the owner's list head for a mutex and overwrites its `futex_offset` |
| `ReaderOldest` | `OldestAvailable`: "Start with the oldest message still in available in the transport" (`reader.h:26`) | a synchronous reader with ITER_NEWEST whose position is not there at its first read, since the topic was empty or the frame was evicted, jumps to the newest (`reader.c:145-150`) |
| `RpcCancel` | `CancelIsNoProgress`: a prpc client does not report its own cancellation | the `map_del` of a cancel on another thread (`prpc.c:262-265`) runs before the `map_put` of connect (`prpc.c:243`), its packet is written after; the client finds the callback (`prpc.c:154-171`) |
| `RpcCancelledCall` | `CancelReturns`: a blocking call that is cancelled returns | the cancellation is written (`rpc.c:307-329`) before the call has placed its reader (`rpc.c:275-279`), is never read, and the call waits for a response |

Smaller ones: `has_next` does not stay true across a clear (`transport.h:60-61`,
`transport.c:704`), and `a0_transport_jump` rejects a frame that ends exactly at the
end of the arena (`transport.c:242`), which `alloc` can produce.  `has_star` in
`pathglob.c:26` is never reset, so parts after a star count as patterns; `GlobMatches`
shows that it makes no difference.  Headers keep their order through serialisation, while
`packet.h:252` says that the order "will NOT be retained" and lines 17 and 35 call them unordered:
`PacketFlat` and the iterators state what the code does, which is more than is promised.  The
string of a monotonic time is "a 20 char number" in `time.h:20-21` and has "up to 20 chars" in
`time.c:26`; the buffer has 19 digits and a terminator.  A number of 20 digits, which a negative time
gives, does not fit, and `a0_u64_to_str` does not look: it would write in front of the buffer.
What happens then is undefined and not modelled (`Fits`).

## Not modelled

* Transport: conversion of old file versions, the debug dump, accessors without
  effect, an arena in modes other than shared.  Deadlines that are malformed: the
  loop of `a0_transport_timedwait` then spins.  `a0_cnd_signal`, which nothing calls.
  Counters of 32 and 64 bits do not overflow within the bounds.
* Deadman: two threads that operate one object, where `_inop` (`deadman_mtx.c:117`)
  forgets one of them.
* Event, latch, once: their waits end on any error, `EOWNERDEAD` too; the
  event's only user in the library, the reader, has it in its own memory; the latch
  has none, once guards the table of reference counts.
* Reader: `a0_read_random_access` (one frame, no state); a close from the reader's
  own callback, which waits for itself.
* Writer: a packet that does not fit the arena (`writer.c:98` goes on without a
  frame).
* File: `a0_file_remove_all` and the removal of directories, the arena modes.  A
  temporary file stays behind when sizing or mapping it fails (`file.c:252`); the
  model has this, and no property forbids it.  That the mapping of a file that lost the
  race is not unmapped (`file.c:261`) is not visible in it.
* Discovery: errors of inotify and `opendir`, which the code ignores
  (`discovery.c:93`), an overflow of the event queue, and directories that are removed
  and made again, which are not watched again (`discovery.c:60`).
* Patterns: more than `A0_PATHGLOB_MAX_DEPTH` (32) parts, which the code does not check, and
  a path to match that is not absolute, which discovery never has.
* Time: the calendar form of wall time, which `strftime` and `timegm` produce, and the string
  form of a time that does not fit its buffer.
* Topics: a part `..`, links, and whatever else makes two paths one file but empty parts and dots.
* Uuid, environment, tids, error codes, allocators, C++ wrappers: no protocol state.

Only model-checked: liveness (`NoStuckWaiter`,
`ShutdownReturns`, `ShutdownEndsSleep`, `LockIsNoticed`, `NewFrameArrives`,
`WriteReturns`, `AnswerArrives`, `BlockingReturns`, `OpenReturns`, `FileIsAnnounced`),
which is out of the prover's reach, and what `CodecsAgree` says of
copies of packets and their iterators, of the decimal form of times, of the splitting of
a path and of topic files, which folds and recursive definitions compute.  The rest of it, the flat
form of a packet and clock arithmetic, is theorems.  Every other property
of a passing run is a theorem.

## Plan

Done: every layer from the robust mutex to rpc and discovery; theorems for every
safety property of the runs that is not about recursive definitions, and for the
refinements of the log, under the transport and under the reader, and of the mutex.
Left: `Writer` and `Rpc` over `TransportLog` by `INSTANCE`, as `Reader` is.
