# A verification development for ilp_gaffer_movie

TLA+ models of the concurrent core of `ilp_gaffer_movie` and `ilp_movie`, TLC
configurations that check them on small instances, and TLAPS proofs about them
for every instance. Paths below are relative to the repository.

## The system

`ilp_gaffer_movie` gives Gaffer two nodes, MovieReader and MovieWriter;
`ilp_movie` is the library below them that talks to libav.

| Component | State | Operations | Interacts with |
|---|---|---|---|
| LRUCache, Parallel policy (`LRUCache.inl`) | bins of items, each with a spin lock; item locks; `currentCost`, `m_maxCost`; the pop mutex, bin index and stored iterator | get, getIfCached, set, setIfUncached, cached, erase, clear, setMaxCost | getter and removal callbacks |
| LRUCache, TaskParallel policy; TaskMutex | the same, with a mutex per item whose waiters help with the holder's tasks | the same | TBB; tasks that get entries themselves |
| LRUCache, Serial policy | a list | the same | not instantiated by the program |
| SharedDecoders, SharedFrames | one static LRUCache each, 200 entries | get, clear (erase, setMax..., num...: no callers) | the frame getter calls SharedDecoders::get and then the Decoder |
| AvReader | plugs; none of its own besides the shared caches | hash and compute of image and information plugs, `_retrieveFrame`, `_retrieveDecoder`, `_plugSet` | both shared caches, from Gaffer's compute threads and the UI thread; Gaffer's own cache of plug values |
| MovieReader | plugs, an internal AvReader | hash and compute with frame masks | AvReader, through Gaffer |
| MovieWriter | plugs | `executeSequence` | Mux |
| Mux | a MuxContext: output file, encoder, filter graph | MakeMuxContext, MuxWriteFrame, MuxFinish | FilterGraph, libav |
| Decoder | AVFormatContext and its read position, a codec and a filter graph per video stream | Open, Close, DecodeVideoFrame, header queries | FilterGraph, Log, libav |
| FilterGraph | frames inside the graph | SetDescription, FilterFrames | libav |
| Log | the global callback, a mutex, libav's level | LogMsg, libav's log callback, Set/GetLogCallback | everyone; `Decoder::Open` borrows the callback for its probe |
| Timestamp, Frame, utilities, bindings, UI | none | pure functions, declarations | |

What is hard in it:

* Gaffer computes on many threads, so every cache operation interleaves with
  every other: the two locks of an acquire and its retry, the eviction that
  keeps an iterator between calls, the cleanup that threads hand to each other.
* A getter of one cache runs a `get` of the other while its own entry is
  locked, and both may be evicted or cleared around it.
* A refresh is two clears, one after the other, of caches that requests in
  flight hold entries of; and behind them Gaffer keeps values of its own.
* An image is put together from several plugs, each computed at another time,
  of files and settings that change.
* A thread that waits for an entry takes over work for it, which may need other
  entries, and the same one again.
* A Decoder is stateful (read position, codec and filter contents), is used
  for frames in any order, and is shared.
* One global callback is saved, replaced and restored by whoever opens a file.
* Every libav call may fail in the middle.

What makes each component correct, in a sentence each: a cache computes an
entry once, never hands out or destroys what another thread holds, accounts
for its cost exactly and comes back under its limit, and every call returns;
the shared caches have one maker per entry, never wait for each other in a
circle, and after a refresh show new files; a thread that helps another never
waits for itself; what a plug is kept under says everything its value depends
on, and the plugs of an image fit each other; a Decoder returns the frame asked
for or nothing, and never refers to a closed file; the log callback is given back
when probes do not overlap; a movie that is reported finished has every frame,
and its file is closed however the writing ends.

## The modules

| Module | Models | Kind |
|---|---|---|
| `CacheContract` | what a caller of LRUCache may rely on | abstract specification |
| `ParallelLRU` | LRUCache over the Parallel policy, lock by lock | component; implements `CacheContract` |
| `ParallelLRUClear` | `ParallelLRU` with a history of what `clear()` found, and of what may leave the cache above its limit | history |
| `ParallelLRUProofs` | theorems about `ParallelLRU` and `ParallelLRUClear` | proofs |
| `TaskParallelLRU` | `get()` over the TaskParallel policy, with TaskMutex | component; implements `CacheContract` |
| `TaskParallelLRUProofs` | theorems about `TaskParallelLRU` | proofs |
| `SharedCaches` | SharedFrames, SharedDecoders and AvReader's requests, step by step, files being replaced, `_plugSet` | composition, over the contract of the cache |
| `SharedCachesProofs` | theorems about `SharedCaches` | proofs |
| `ReaderNodes` | MovieReader over AvReader: hashes, computes, missing frames, frame masks, over the shared caches and Gaffer's | composition |
| `ReaderNodesProofs` | theorems about `ReaderNodes`: types, and what a refresh does | proofs |
| `ReaderNodesValueProofs` | theorems about `ReaderNodes`: what is shown | proofs |
| `VideoDecoder` | Decoder with its streams and filter graphs, libav external | component |
| `VideoDecoderProofs` | theorems about `VideoDecoder` | proofs |
| `LogRedirect` | the log callback, and the probe of `Decoder::Open` | component |
| `LogRedirectProofs` | theorems about `LogRedirect` | proofs |
| `MovieMux` | MovieWriter::executeSequence over Mux and FilterGraph, libav external | component |
| `MovieMuxProofs` | theorems about `MovieMux` | proofs |
| `MC...` | values for the constants | TLC |

### ParallelLRU

`present`, `status`, `cost` and `used` are the items of the bins
(`Item::cacheEntry`, `recentlyUsed`); `readers` and `writers` the item locks;
`popper`, `binHeld`, `popBin`, `ahead`, `sentinel`, `rounds` the state of
`pop()`, where `ahead` is the part of the bin from `m_popIterator` to its end.
`pc`, `op`, `key`, `mode`, `lim` and `popped` are the locals of each call.

One turn of `acquire()`'s loop is one step, because the bin lock that covers it
waits for nothing: `AcquireMissing`, `AcquireInsert`, `AcquireRead`,
`AcquireRetry`, `AcquireWrite`; a turn that finds the item locked changes
nothing, and `AcquireCancelled` is the cancellation check after it. Inserting
takes a bin *write* lock, and finding a read lock, both of which exclude the
popper's. `Discard` and `Store` are the two halves of `setInternal()`.
`pop()` is a step per visited item (`SkipItem`, `SpareItem`, `PopItem`) and a
step on each side of the gap between two bins, in which it holds no bin lock.
A cache's cost counter is changed outside of any lock, so `DiscardPopped` is a
step of its own. The bins are hash tables: `ahead` is a set, and an insertion
into the bin the iterator is in may or may not put the new item ahead of it.

The type `TypeOK` of `currentCost` is an integer; that it is never negative,
so that the `size_t` of the code does not wrap below zero, is `CostNeverWraps` of
`ParallelLRUProofs`.

### SharedCaches

An entry of either cache is absent, being made (`Loading`) or has a value that
remembers the version of the file it was made from. `Request` is a compute
asking for a frame, or for a decoder only; `FrameMiss`, `DecoderMiss`,
`OpenDecoder`, `StoreDecoder`, `BeginDecode`, `EndDecode` and `StoreFrame` are
the two getters, nested; `EvictFrame`, `EvictDecoder` and the two `...Limited`
are `limitCost()`. `SetPlug`, `ClearFrame`, `FramesCleared`, `ClearDecoder`
and `DecodersCleared` are `_plugSet`. The cache itself is reduced to what
`CacheContract` promises, and to the two ways `ParallelLRU` shows `limitCost()`
and `clear()` to end early that matter here: another thread is popping. (The
third, `pop()` giving up after 50 rounds over entries that are touched again
each time, is left to `ParallelLRU`.) `asked`, `due`, `overlap` and `stray` are
history, kept by `History` in every step: which files a refresh asked for, and
which entries came past it.

### ReaderNodes

What `SharedCaches` leaves out: which frame is asked for, and what is made of
it. Here a request of the shared caches is one step, and a state is between two
values that Gaffer pulls. `FrameMaskMode`, `ScopeMode` and `ScopeFrame` are
`FrameMaskScope`; `Hash` and `Compute` are the hash and compute functions of
MovieReader, over `AvHash` and `AvCompute`, those of AvReader;
`RetrieveFrame`, `Held` and `HeldFrame` are `_retrieveFrame`. `PullImage` and
`PullFile` pull an output whose value Gaffer does not have, and `Retrieve` says
what that leaves in the three caches. `TakeFrame` and `TakeWindow` are the two
halves of `computeChannelData`, between which other readers go on, entries are
dropped and files replaced. Values are abstracted to the version of the file,
the frame number, and the width, which depends on version and filter graph.

External, and taken from the way the nodes use it: Gaffer keeps the value of a
plug, unless computing it raised an exception, under the hash the node gives,
which says nothing of the node; it drops what it likes; a node's plugs are not
set while it computes; a plug that is connected to another has its value and is
set with it; and the ColorSpace node between AvReader and MovieReader passes
frames and windows on. `affects()` is left out: it makes Gaffer pull again, and
here everything may be pulled at any time.

### TaskParallelLRU

A thread is a stack of calls (`stack`): its own at the bottom, above it those
made by tasks it took while it waited inside `task_group::wait()`. `writer` and
`executing` are the lock and the execution state of an item's TaskMutex;
`pending` are the tasks nobody has taken. `AcquireHit`, `AcquireRetry`,
`AcquireWrite` and `AcquireNested` are a turn of `Handle::acquire()` that gets
its lock, `AcceptWork` and `JoinArena` one that does not, on both sides of the
release of the execution state. `BeginExecute`, `RunGetter` and `EndExecute`
are `TaskMutex::ScopedLock::execute()`; `InArena` is the ArenaObserver. A call
that recurses into the entry being computed has a WorkerRead lock
(`AcquireNested`), and runs the getter again as part of its task, which is not
followed further. Nothing of a getter is modelled but the tasks it spawns; a
task either gets one entry or none.

External, from TBB: a thread that waits for a task group in an arena takes
tasks of that arena only; an observer sees a thread from its entry into the
arena to its exit, which an arena entered meanwhile does not end; waiting for a
group that is finished returns. A thread that comes too late for an execution
state goes into its arena and out again, which is part of `EndExecute`
(`SentBack`), as nobody can tell the difference.

### VideoDecoder

`file` numbers the AVFormatContexts, so that a stream of a closed file can be
told from one of the open file. A call of `DecodeVideoFrame` seeks, flushes the
codec, and then reads, sends, receives, pushes into the filter graph and pulls,
one libav call per step, each of which may fail. External, and modelled from
the way the code uses them: `av_seek_frame` goes to some key frame at or before
the target (`SeekPoints`: the last one in the file's order), a codec gives frames in the order they are
shown, holds `CodecDelay` of them back until it is drained, and takes no packet
once drained; a filter graph is a queue that may hold back what it has
(`PullNothing`).

### LogRedirect

The callback is a value: `User` for initLog's, the thread for the lambda of
that thread's probe. Assigning it takes two steps, and whoever reads it between
them gets the old value, the new one, or `Torn`: a data race, by the language
undefined. Who calls what it read does so under the code's mutex, which the
assignment does not take.

### MovieMux

`executeSequence` is one thread of control. `output` is the AVFormatContext
with its file, `owned` says that the MuxContext has it, so that its deleter
(`Destroy`) closes it; `OpenOutputFile` hands it over at its very end.
`graph`, `encoder`, `packet` and `packets` are the time stamps of the frames
in the filter graph, in the encoder, in `enc_pkt` and in the file. A frame goes
`PushFrame`, `PullFrame`, `ReceivePacket`, `WritePacket`; MuxFinish is
`FlushFilter`, `FlushEncoder`, `WriteTrailer`, `CloseFile`. Failures that the
code reports are one action per function and end in `Throw`. Those it does not
report are actions of their own: `ReceiveFails`, after which the blank packet is
written, and `WriteFails`, after which EncodeWriteFrame returns true. External:
a filter graph is a queue that holds back what it likes until it is flushed, an
encoder one that holds back `EncoderDelay` frames, and a file takes increasing
time stamps only. Frame numbers are floats in the code and counted in halves
here; `FrameNb` is the cast to an integer.

## What is checked

Every run finishes in about three minutes or less. Deadlock is not checked: every model
bounds the number of calls, and then stops.

| Run | Shows | Instance |
|---|---|---|
| `MCParallelLRU_calls` | `TypeOK`, `CostAccounted`, `CallsReturn` | 2 threads, 2 calls each, 2 keys in 2 bins, limit 1, costs 1 and 2, the keyed operations but `cached`, and `clear` |
| `MCParallelLRUClear_locks` | `SingleFlight`, `HandleValid`, `PopIteratorValid`, `ClearAloneErasesAll`, `TwoKeepLimit`, `ImplementsContract` | 2 threads, 2 calls each, 2 keys in 1 bin, limits and costs 1 and 2, all operations |
| `MCSharedCaches_refresh` | `TypeOK`, `OneLoaderPerEntry`, `WaitsForWorker`, `StaleHasCause`, `RequestsReturn` | 2 threads, 2 requests, 2 movies, limits of 1, a replacement, a refresh |
| `MCReaderNodes_plugs` | `TypeOK`, `CachedIsCurrent`, `ReloadedUnlessShared`, `TileFitsFrame`, `HoldPlaysForward`, `MaskedAsBoundary` | 2 readers, a file of 3 frames with a broken one and a smaller one that replaces it, 3 filter graphs, caches of 1 entry, 2 changes from settings that hold frames |
| `MCTaskParallelLRU_tasks` | `TypeOK`, `SingleFlight`, `WorkerReadProtected`, `NeverWaitsForItself`, `ImplementsContract`, `CallsReturn` | 2 callers, a worker, 3 calls, 3 keys, limit 1 |
| `MCLogRedirect_apart` | `TypeOK`, `RestoredIfApart`, `ProbeCompleteIfApart` | 3 threads, 2 calls each |
| `MCVideoDecoder_calls` | `TypeOK`, `StreamsOfOpenFile`, `FrameFound`, `NoOtherFrame`, `CallReturns` | 2 video streams of 3 frames, one reordered, start time 100, packets of a third stream, 4 calls |
| `MCMovieMux_movie` | `TypeOK`, `CompleteIfNoFailure`, `ContextExists`, `FileReleased`, `SequenceEnds` | sequences of 0 to 5 frames, whole, half, skipped and decreasing, an encoder that holds 2 back |

Four runs end in a violation, each of something the repository says of
itself (`findings` in `PROJECT.json` quotes the lines):

| Run | What the code does |
|---|---|
| `MCSharedCaches_decoder` | one Decoder decodes on two threads at once |
| `MCSharedCaches_fresh` | a frame of the old file may be in the cache after a refresh |
| `MCLogRedirect_gaffer` | after two overlapping probes Gaffer no longer gets messages |
| `MCMovieMux_swallowed` | a packet that cannot be written is lost, and the movie is reported finished |

**Bounds.** Two threads with two calls each are enough for every pairwise
interleaving in the cache, where a conflict is between one thread at an entry
and another at the same entry or at the pop mutex; two keys in one bin and in
two bins give both an iterator with something behind it and a round over
several bins. The costs are an exact fit and, with a limit of 1, a value
that is too large. `MaxRounds` is 3 or 4 instead of 50: one round takes the second chances
away, one more pops. `LogRedirect` has three threads because two probes and a
thread that only logs matter to each other. A limit of one entry makes every
second frame evict, and two movies evict decoders too. `ReaderNodes` pulls at frame 2, which is
broken, and frame 4, which is behind the end of either file: between them every missing-frame
mode, the held frame before and at the end, and a mask with frame 3 as its boundary are met; caches of
one entry drop every other value; two changes are a replacement and a refresh, or two settings
one reader is taken through and the other is not. In `TaskParallelLRU` the
first key's getter needs the second key and its own, the second's has a task that gets nothing, and
the third spawns none, so that all ways to wait, to help and to recurse occur; three
calls let an entry be given up by a first, and wanted by two more at once. The decoder's first stream has a frame that is encoded after a later key frame,
its second one frames that depend on the first, and four calls cover fail, succeed, reopen and decode
again; frames are numbered, so larger files only repeat the pattern. Five frames
and a delay of two fill the movie writer's encoder, keep it full and drain it.
`Budget`, `MaxVersion`, `MaxRefreshes` and `MaxChanges` bound counters, nothing else.

**Fairness.** Weak fairness of the steps inside a call, per thread: the operating system
runs every thread. It is not assumed that anyone calls, refreshes, replaces a file, or cancels a `get` that waits for a lock
(`AcquireCancelled`, and `Cancelled` in
`TaskParallelLRU`, are outside of `Work`) or that TBB lends a worker, and locks need no fairness of their
own because the number of calls is bounded. The writing of a movie is one
thread, and any of its steps keeps it going. Getters, libav calls and log
callbacks are assumed to return.

**Properties that need care.** That the cost is within the limit at rest
(`WithinLimitAtRest`) holds for two threads (`TwoKeepLimit`): whoever pops last
sees the other's cost. Not, though, once `clear` has been called, which pops
without looking at the cost and may end just after the other has left its overrun to it; nor once the maximum has changed,
as the argument of a `limitCost()` in progress is the old one; nor once a `pop()` has
stopped at its bound on full iterations. `keyedOnly` says that none of these has
happened. It is not claimed for three: a thread that finds the pop mutex
taken leaves its overrun to the thread that has it, which may itself leave when
it finds the mutex taken by a third. `CallsReturn` of `TaskParallelLRU` and
`RequestsReturn` are said of one thread, because they are alike. `FrameFound` is about
a time base that is a multiple of the frame rate; it demands
the frame whenever no libav call failed and no filter held a frame back. `StaleHasCause` is what
remains true of a refresh: an old entry can be traced to an overlapping request
or to a `clear` that was cut short. `FileReleased` speaks of a file that a
MuxContext knows: one that fails between `OpenFile` and `HandOver` stays open.
`SequenceEnds` needs a frame that cannot be encoded to leave the encoder.
`CachedIsCurrent` speaks of an unchanged file (what changes behind Gaffer's back
takes a refresh to be seen) and excepts outputs whose hash lacks the filter
graph while that graph cannot be opened. `TileFitsFrame` and
`ReloadedUnlessShared` except values that another reader computed, and so
`TileFitsFrame` allows a reader that holds frames to get an exception instead of a window
after a replacement: the count of frames by which it found the frame to hold may be another reader's,
of the old file. `MCVideoDecoder` assumes of its instance (`InstanceIsRegular`) what the theorems
about frames have as hypotheses, `TargetsTellFramesApart` and `KeyFramesLead`.

**Met while modelling**, and what became of it:

* `TwoKeepLimit` used to except `clear` and lowered limits only. The proof stopped at two more ways
  for a cache to stay above its limit with two threads: one of them finds the pop mutex
  taken and leaves its overrun to the other, and that one stops at the bound of
  `pop()` because the entries it meets were used again (TLC finds it with a bound of 0
  and four calls each, `LRUCache.inl:1288`), or compares with a maximum that has been
  raised since, and ends with nothing left to pop. The history `keyedOnly` now excepts both.
* `TileFitsFrame` used to demand a window in every mode. The proof needed the count of
  frames behind a held frame to be of the file on disk, which another reader's cached
  count need not be: TLC shows it with three changes.
* `FrameToPts()` truncates. In a time base that is no multiple of the frame rate
  the target of a frame whose time stamp was rounded up lies in the frame before,
  and `DecodeVideoFrame()` returns that one: at 24 frames per second in
  milliseconds frame 2 has time stamp 42 and target 41. `FrameFound` is not
  claimed there.
* `fileValid` raises an exception for a file that cannot be opened
  (`av_reader.cpp:590`), where its compute function is prepared for "no decoder".
* With "Black" a missing frame has the format of a held one but the default, empty
  data window: `computeDataWindow` (`av_reader.cpp:313`) does not ask for a frame
  to be held, unlike `computeFormat`.
* Hold looks at one earlier frame only (`av_reader.cpp:639`), so of two broken
  frames in a row the second raises an exception.
* The hashes of `fileValid`, `availableFrames`, `probe` and `channelNames` leave out
  the filter graph the decoder is looked up with (`av_reader.cpp:144`, `406`).
* A refresh is seen through `refreshCount`, and two readers with equal settings have
  equal hashes: a reader may be given a value that another one computed of the
  old file with the same count.
* `acquireOr()` calls the TaskParallel policy's work accepter, which releases the
  bin lock, while it holds the spin mutex inside the item (`LRUCache.inl:833`,
  `TaskMutex.h:289`): if there is no work, `pop()` may destroy the item first.

## What is proved

`ParallelLRUProofs`, for all sets of threads and keys, all numbers of bins,
costs and limits, under `ConstantsAssumption` (there are finitely many threads, a key
and a bin, and costs and limits are natural numbers):

* `TypeCorrect`: `Spec => []TypeOK`
* `SingleFlightHolds`: `Spec => []SingleFlight`
* `HandleValidHolds`: `Spec => []HandleValid`
* `PopIteratorStaysValid`: `Spec => []PopIteratorValid`
* `CacheImplementsContract`: `Spec => Contract!Spec`
* `CostStaysAccounted`: `Spec => []CostAccounted`, and `CostNeverWraps`:
  `Spec => [](currentCost >= 0)`
* `ClearErasesAll`: `ClearSpec => []ClearAloneErasesAll`, if `pop()` makes at least one full
  iteration (`MaxRounds >= 1`, 50 in the code)
* `TwoKeepTheLimit`: `ClearSpec => []TwoKeepLimit`, for at most two threads
  (`AtMostTwoThreads`)

`SingleFlight` and `HandleValid` are not inductive alone. The inductive invariant
`IInv` joins what the locks mean: `ReadLocks` and `WriteLocks` (a lock is held
by exactly those threads whose position in the code says so, and for the key
they work on), `Exclusive` (a write lock excludes all others), `Holds` (who
works on an entry has its lock, and the item is there), `AbsentIsUncached` (an
item that was popped has no status left over, so an insertion starts afresh),
`FillsEmptyEntry` (who is about to store found or made the entry empty) and
`ModeFitsOp` (only an operation that reads acquires in a reading mode). The
proof that a step keeps it goes action by action through three lemmas, for
steps that touch no lock, steps of a writer, and acquires. `SingleFlight` and
`HandleValid` follow from `IInv`; the refinement shows that every action is a
step of the contract or a stutter, where `FillsEmptyEntry` is what makes
`Store` a `Fill`.

The cost is a sum over the keys and one over the threads. `CInv` says that only items
with a value have a cost, that only a thread about to subtract it carries a popped
one, and that `currentCost` is the two sums. That a step which changes one
term changes a sum by as much is shown by a smallest counterexample over the cardinality of
the set, as the induction theorems of the library cannot be instantiated. `MutexHeld` ties the pop mutex to
the positions inside `pop()`. For `ClearErasesAll`, `AloneInv` follows a `clear()` that is
alone through the bins: those between `emptySentinel` and the one it is in are
empty (`SweptIsEmpty`), and what it has passed in its first full iteration has no second chance left
(`SecondChancesGone`), so the next one takes it. For `TwoKeepTheLimit`, `KeptInv` says of a cache that only sees keyed operations: no
entry costs more than the maximum, and that is what `limitCost()` compares with (`NoneAboveLimit`);
a thread that wants to pop has something to pop, which is ahead of the iterator or in a bin
before the sentinel (`SomethingToPop`, `ItemAhead`); and while the cost is above the maximum there is a
thread that has yet to bring it down (`SomeoneInCharge`).

`MovieMuxProofs`, for all sets of sequences of frames and all delays of the
encoder, under `MovieMuxAssumption` (frames are natural numbers, and an encoder
that holds frames back has AV_CODEC_CAP_DELAY):

* `TypeCorrect`: `Spec => []TypeOK`
* `MovieIsComplete`: `Spec => []CompleteIfNoFailure`
* `ContextIsThere`: `Spec => []ContextExists`
* `FileIsReleased`: `Spec => []FileReleased`

all from `Invariant`, `Spec => []IInv`. `TypeOK` alone is not inductive: that
`PushFrame` reads a frame of the vector depends on where it is called from.
`Places` says what a position in the code tells of the rest: who has been given
a context, what has been flushed, when `enc_pkt` is in use. `Flow` says that,
without a failure and with increasing numbers, the frames pushed so far are in
their order in the file, in `enc_pkt`, in the encoder and in the graph
(`InOrder`), and that the encoder is down to its delay between two frames and
empty before the trailer (`Settled`). A frame that moves keeps `InOrder` element
by element, one lemma per move; a write that fails is a failure of libav because
the next time stamp would have been accepted (`FailureIsRecorded`). In the end
graph and encoder are empty and the vector is used up, so the file is the vector.

`ReaderNodesProofs`, for all sets of readers, frames, plugs and files, whatever
a filter graph makes of a file, and all limits of the caches, under
`ReaderNodesAssumption` (which says of the code that a node is made with a
`refreshCount` of 0):

* `TypeCorrect`: `Spec => []TypeOK`
* `Reloaded`: `Spec => []ReloadedUnlessShared`

`ReloadedUnlessShared` speaks of the values a reader would be given with its
present plugs, and these change; so `IInv` speaks of every value ever kept
(`FreshValue`): the count of refreshes in its key is not ahead of its maker's,
and if it is the same, the value is not older than the maker's refresh. This
carries over a refresh because the count grows, over other settings because
they leave it, and over a computation because what is computed comes from the
shared caches (`Result`), in which nothing is older than *anybody's* refresh
(`SharedFresh`): every refresh clears them for all. A held frame needs more
thought, as the number it is found by may come from an old value of
`availableFrames`; the frame does not. For `TypeOK`, `Caches` adds that what is
looked up is either the cached entry or has a key nothing is cached for.

`ReaderNodesValueProofs`, under the same assumption:

* `ValuesOfKeys`: `Spec => []VInv`
* `HashesSayAll`: `Spec => []CachedIsCurrent`
* `TilesFit`: `Spec => []TileFitsFrame`
* `HeldPlayForward`: `Spec => []HoldPlaysForward`
* `MaskShowsBoundary`: `Spec => []MaskedAsBoundary`

These speak of what would be computed now, which any change of plugs or files
changes. What does not change is that everything a cache holds is a function of its
key and of versions the file has had: `VInv` joins to `IInv` that a decoder is
of its version (`DecodersAt`), that a frame is what some version has under its key
(`FramesAt`), that a value is what the node would compute with the plugs in its key from up to
three versions, of the frame asked for, of the frame held instead and of the count of frames
(`ValuesAt`), and that a tile is of such a frame (`TileAt`). While the file has had one version
the three are the same, and as equal keys mean plugs equal in all that the computation reads
(`KeysAgree`), the first theorem follows; the others read off what the function gives.

`SharedCachesProofs`, for all finite sets of threads and movies and all frames, under
`SharedCachesAssumption` (which also says that keys of frames are told from those of
decoders):

* `TypeCorrect`: `Spec => []TypeOK`
* `OneMaker`: `Spec => []OneLoaderPerEntry`
* `NoCircleOfWaiting`: `Spec => []WaitsForWorker`
* `StaleIsExplained`: `Spec => []StaleHasCause`

`IInv` ties an entry in the making to the one thread whose position says that it makes
it (`FrameMakers`, `DecoderMakers`), and a position to what its thread has
(`Positions`). From the makers it follows that nobody waits in a circle; with its two threads
the run meets circles of two, the theorem chains of any length. `Fresh` is about time: what is older than the last complete
refresh is stray, or in the hands of a thread whose request overlapped one. A
refresh in progress needs two more facts, that it overlaps every request (`Overlapping`)
and that what its first clear left is stray (`FramesLeft`); and a frame takes the age of the decoder in
its thread's hands (`HeldFresh`), not of the one in the cache.

`TaskParallelLRUProofs`, for all threads, keys, tasks and needs of tasks, and calls nested to
any depth, under `TaskParallelAssumption`:

* `TypeCorrect`: `Spec => []TypeOK`
* `OneComputation`: `Spec => []SingleFlight`
* `WorkersAreProtected`: `Spec => []WorkerReadProtected`
* `NoSelfWait`: `Spec => []NeverWaitsForItself`
* `CacheImplementsContract`: `Spec => Contract!Spec`

Only the top of a stack moves, and every call below it waits in an arena of which the
call above is a task (`Stacked`); that is what makes an invariant about stacks of
any height inductive. `OneOwner`, `OwnerHasLock` and `OwnedEntry` say whose call has
an entry's lock and that the entry stays empty until it stores; `Executions` and
`TasksWaitedFor` tie the execution state and the tasks to the position of that call;
`NestedInTask` and `WaitsOutside` say where in a stack a recursive call and a
waiting one may be, from which `NeverWaitsForItself` follows.

`VideoDecoderProofs`, for all files, streams, orders of packets, delays of codecs and failures, under
`VideoDecoderAssumption`:

* `TypeCorrect`: `Spec => []TypeOK`
* `StreamsAreOfOpenFile`: `Spec => []StreamsOfOpenFile`
* `NoOtherFrameReturned`: `Spec => NoOtherFrame`, if `TargetsTellFramesApart`
* `EveryFrameIsFound`: `Spec => FrameFound`, if also `KeyFramesLead`
* `ConstantRateTellsApart`: a time base in which every frame lasts the same
  whole number of units, from the start time on, has `TargetsTellFramesApart`

The hypotheses are about the file, and the first is not true of every file (see `FrameToPts()` above); the last
theorem gives files it is true of. In `IInv`, `Opened` says how much of
the file and its streams there is at each step of `Open`, and `Filtered` that only a frame
the target lies in is pushed into the graph. For `FrameFound`, `Ahead` says where the frame asked for is as long
as nothing failed: still to be read, in the codec, or in the graph; `KeyFramesLead` makes it
so after the seek.

`LogRedirectProofs`, for all sets of threads and numbers of lines, under
`LogRedirectAssumption`:

* `TypeCorrect`: `Spec => []TypeOK`
* `CallbackIsRestored`: `Spec => []RestoredIfApart`
* `ProbeIsComplete`: `Spec => []ProbeCompleteIfApart`

`IInv` has what the position of a probe tells of its dump (`Dump`) and, as long as
no two probes have overlapped (`Apart`), that there is one at a time, that without one the
callback is the user's, and what the callback and the saved one are at each of
its positions (`OneProbe`, `NoneBorrows`, `Borrowed`).

Only model-checked: liveness (`CallsReturn` of both caches, `RequestsReturn`,
`CallReturns`, `SequenceEnds`), because fairness and ENABLED are out of the prover's
reach. Every invariant, action property and refinement that a passing run checks is proved.
The four violations stay with TLC, which shows the behaviour.

## Not modelled

The Serial policy and the timestamp functions, which the program does not use;
of the TaskParallel policy, which it does not use either, everything but
`get()`; the memory frames take; tasks that throw or are cancelled one by one. Left
out for good: pixel data, option dictionaries, the wording of messages, colour
spaces, `affects()`, the Python declarations, and Gaffer's own evaluation.

## Plan

Every part of the program that has state is modelled. What is worth adding, in
this order:

1. `SharedCaches` reduces each cache to `CacheContract` by hand. A refinement mapping
   from its two caches to the contract would check, and prove, that it does so rightly.
2. `TaskParallelLRU` beyond `get()`, with the cost of entries, so that `CostAccounted`
   can be said of it.
3. The width of integers in `FrameToPts`: `ConstantRateTellsApart` is about integers that do
   not overflow.
4. `SerialLRU`: the exact LRU order; the second-chance policy evicts nothing
   that was used since the iterator last passed.
5. The task hash of MovieWriter: what it covers of what `executeSequence` reads.
