# Specifications of spiff

TLA+ models of spiff's work-stealing scheduler, its line diff and its file
store, the TLC configurations that check them, and TLAPS proofs about them.
Paths are relative to `src/`; `scheduler/` stands for `internal/scheduler/`.

## 1. The system

spiff serves four operations (upload, download, compare, fetch), over HTTP and
over gRPC, on one directory of files. Beside them stands a task scheduler,
bulkheaded by the kind of resource a task needs, which no binary of the
repository calls yet.

| Part | State | Operations | Who calls it |
|---|---|---|---|
| deque (`scheduler/deque.go`) | `top`, `bottom`, a fixed ring of slots, all atomics | `pushBottom`, `popBottom` (owner), `popTop` (thieves) | Scheduler.schedule, worker |
| ringBuffer (`ringbuffer.go`) | `buf`, `head`, `len` | `push`, `front`, `pop` | both shared queues, under their locks |
| injector (`injector.go`) | a ringBuffer, a depth cap, a lock | `push`, `pop` | schedule, findTask |
| agingQueue (`aging.go`) | a ringBuffer of nodes with deadlines, a cap, a jitter, a lock | `push`, `popAged`, `pop` | schedule, findTask |
| Scheduler (`scheduler.go`) | the queues, the doorbell `wake`, `stop`, `stopped`, counters | `New`, `Submit`, `Stop`, `Stats`; `Future.Wait` | Bulkhead, tasks, clients |
| worker (`worker.go`) | its deque, what its search has reached | `run`, `findTask`, `steal` | one goroutine each |
| Bulkhead (`bulkhead.go`, `kinds.go`) | a Scheduler per Kind | `NewBulkhead`, `SubmitXxx`, `Stop`, `Stats` | clients |
| diff (`internal/utils/diff.go`) | none | `DiffLines`, `DiffLinesMyers`, `DiffLinesLCS`, `FormatDiff`, `ReadLines` | CompareFiles |
| spiff_fs | the data directory; `WriterPool` | `SaveFile`, `GetSavedFile`, `CompareFiles` | both servers |
| NewUUID (`internal/utils/uuid.go`) | `uuidbufpool` | `NewUUID`, `IsValidUUID` | SaveFile, GetSavedFile |
| httphandlers, grpcserver | a goroutine per request | the four operations, error to status | clients |
| netfetch | the Transport's connections, limited for each host | `Fetch`, with a timeout | both Fetch handlers |
| cmd/http, cmd/grpc | whether they listen | make the directory, serve | whoever starts them |

How they meet: `Submit` pushes to the calling worker's own deque if its ctx
names one of this Scheduler's workers, and else, or if that deque is full, to
one of the two shared queues, and then rings the doorbell. Workers search
their own deque, the aged head of the background queue, the standard queue,
the background queue and the deques of their peers, in that order, and then
wait for the doorbell or for `stop`. A handler moves bytes through writers and
buffers that all requests share through `sync.Pool`s. Files are never renamed
or removed, and nothing but their ids connects requests.

What is hard, and what each part has to get right:

- **deque**: three operations race without a lock. Nothing may be handed out
  twice (a Future's channel would be closed twice), or be lost (its waiter
  would wait for good), or be read from a slot used again meanwhile (ABA).
- **ringBuffer**: wrapping and growing at once; not keeping what was popped.
- **agingQueue**: the clock is read before the lock is taken, so deadlines
  enter a FIFO out of order, and jitter shifts each; yet the oldest task's
  deadline decides for all behind it.
- **Scheduler**: no lost wake-up, although tokens coalesce and steals fail; one
  place for each task as it spills, is stolen, refused; shutdown in the middle
  of all that.
- **Both queues under load**: who waits for whom when tasks never stop arriving;
  what a caller can conclude from counters read one by one.
- **Bulkhead**: one kind's hanging tasks may not hold up another kind, nor keep
  another pool from stopping; a failed start.
- **diff**: a budget that truncates the search and sizes its array; snapshots
  that backtracking replays; a fallback with a limit of its own.
- **spiff_fs and handlers**: failures and crashes between any two calls;
  pooled objects and connections given back exactly once and never while in
  use; the answer must tell what became of the bytes, over restarts too.

`PROJECT.json` lists every hazard at its line, with the properties for it. Three
have none: a second `Stop`, a ctx used by another goroutine than its task's, and
an HTTP download that breaks off; see section 5.

## 2. Modules

    WorkDeque   <= implemented by ==  Deque        (proved)
    Fifo        <= implemented by ==  RingBuffer   (proved)
    Pool        <= implemented by ==  Scheduler    (proved)
    Pool        <= implemented by ==  Bulkhead, for each kind  (proved)
    WorkDeque's atomic deques are those of Scheduler; Fifo's queues those of
    SharedQueues; SharedQueues' ageing is a free choice of Scheduler; Pool is
    what Bulkhead is made of; Diff's errors are a free choice of FileStore.
    SteadyLoad has SharedQueues' ageing and findTask's order under endless load;
    Stats extends Scheduler with a reader of its counters.

**Deque** — one owner and any thieves. Each atomic load, store and
compare-and-swap of `deque.go` is an action; Go's atomics are sequentially
consistent, so steps interleave and nothing is reordered. `opc` and `tpc` are
where the owner and each thief are in their functions, `otop`, `otask`,
`ttop`, `tbot`, `ttask` their local variables. Indices are unbounded integers
(the code's are int64, and a push each nanosecond would take 292 years to
overflow them). `pushBottom` and `popBottom` are only ever called by the
owner, as in `src/`. `spilled` and `delivered` record what became of each
task, for the properties.

**WorkDeque** — what the deque promises: a bounded sequence; the owner adds
and removes at one end, thieves at the other, each in one step.

**RingBuffer / Fifo** — the buffer as `head`, `len`, and an array that doubles
when full; values behind the live window are `Zero`. Fifo is a sequence.

**SharedQueues** — the two shared queues in time: `now` moves between any two
steps, goroutines read it (`ReadClock`, `SearchClock`) and use the reading
later. A background node has its deadline, the time read for it and, for the
properties, the time it was queued at. Jitter is any number in its range.

**SteadyLoad** — the same queues with the workers that empty them, and arrivals
that never end: submissions to both queues at any rate, children pushed to the
local deques. Liveness needs behaviours that go on for ever in finitely many
states, so times are relative: a background node carries the time `left` to its
deadline, a worker the age (`lag`) of the reading it took, and a task's name is
free again once it is served. Workers search as in findTask; a deque is only
the number of tasks in it, and its races are Scheduler's.

**Scheduler** — `Submit`, `schedule`, `ringWake`, `run`, `findTask`, `steal`,
`Stop`. `pc` is where each goroutine is: "body" is inside a task's fn, or a
client's program; "local" to "cas" are the steps of findTask; "select" and
"parked" its end. What a task does is a parameter: the children it submits
(`Kids`), those among them submitted with another ctx than the one it was given,
and so to a shared queue (`Detached`), and those it then waits for (`Waits`). A
send on `wake` is three outcomes, as in Go: handed to a waiting worker,
buffered, or dropped. Closing `stop` readies every waiting worker at once. Three
abstractions: a deque is WorkDeque's sequence, but a steal stays two steps so
that it can lose; popAged may or may not find its head aged (`NotAged` is always
possible), since times are SharedQueues'; the start of a steal pass is any peer.
Tasks are submitted once each, because Futures are never reused. Panics are left
out: one ends the process.

**Stats** — Scheduler, and a goroutine that calls `Scheduler.Stats`: six loads,
in the order of the struct literal, with any steps of the pool between them.
`seen` is what the caller had seen finished before, `backlog` what was unfinished
at the first load.

**Pool** — what a Scheduler promises without queues or search: a Future that is
resolved once, at most `NumWorkers` running, refusal only after Stop or with
as many tasks waiting as the smallest cap, nothing started once Stop returned.

**Bulkhead** — NewBulkhead's loop over `AllKinds()`, one step per kind; the
SubmitXxx functions; Stop with a goroutine per pool and its WaitGroup. Each
kind's pool behaves as Pool.  `Hangs` are tasks whose fn never returns.

**Diff** — `myersDiff`, `DiffLinesLCS` and `DiffLines` on two files, a loop
iteration a step: a diagonal of a round, a step of the way back, a step of the
walk through the table. Arrays keep the code's sizes and offsets (`At` is
`offset + k`), so an index out of range would be seen. The table's recurrence
is one step, as a recursive function of its definition. Line texts are model
values; layout (`FormatDiff`) is left out.

**FileStore** — the two servers on one directory. A step is a call that can fail
or that others can see: taking or giving back a pooled object, a system call,
one chunk of `io.Copy`, a connection taken or closed. `req[r]` is a request as
its client and its goroutine know it: among others where the goroutine is, the
file and the writer in its hands, the error on its way to the reply, and the
class of status the client saw ("lost" if it saw none). A file is the sequence
of chunks written, and each chunk names the request it belongs to. bufio passes
on any prefix of what it holds whenever it likes, so partial writes of every
length occur. `Start` is `main`; `Crash` ends a server: its requests, pools and
connections are gone, the files stay as they are, and it may be started again.
What can fail is in `CallFails`, `PageStalls` and `PageBreaks`, at most
`MaxFaults` times; `CloseLoses` is a Close that reports lost writes to nobody
(`cut` remembers the file, for the properties). A fetch takes one of its
server's `MaxConns` connections to the host; at the limit it waits, at most for
the Client's timeout. Abstractions: random ids are fresh (a collision of 122
random bits is not considered); an id is well-formed or not; all pages come from
one host, a connection each, as over HTTP/1.1; a client is asked to name known
ids, one nobody has, or a malformed one; `Saved` are uploads answered before the
requests at hand, so that these find files in the directory. `ChunkPool` is left
out: `io.CopyBuffer` uses its buffers for neither copy, since `*os.File` brings
WriteTo and `bytes.Buffer` ReadFrom.

The MC modules give constants their values. Where a run checks `IInv`, the
module's `TypeOK` is a conjunct of it. Definitions marked "Variant"
are plausible bugs: no specification uses them; `PROJECT.json` ("mutants")
names for each checked property one of them that breaks it, which shows that
the property depends on the code it is about.

## 3. Runs

`tlc -workers 2 -config <cfg> <module>`, within three minutes each.

| Run | Bounds | Question and answer |
|---|---|---|
| MCDeque | 3 thieves, 2 slots, 4 tasks | Is a task handed out at most once and never lost, is every slot a thief can still win with as it read it, and is the deque a WorkDeque? Yes. IInv, the proofs' invariant, holds too. |
| MCRingBuffer | capacities 0, 1, 3; 3 values; length 5 | Is it a FIFO, and are popped slots zeroed? Yes. |
| MCSharedQueues | 2 submitters, 2 workers, threshold 2, jitter 3 (clamped), caps 1 and 2, time 0..3, 3 tasks | Are all tasks ahead of one past its threshold aged, and does no worker turn to the standard queue over one? Yes. |
| MCSharedQueuesOff | threshold 0 | Is ageing disabled? No: each task has aged at once. |
| MCScheduler | 2 workers, 1 client with 2 tasks, their 4 children, two of them background and one detached, every queue capped at 1; both tasks wait for a child; Stop at any time or never | Exactly once, balanced counters, no idle worker over queued work, is only what is in a shared queue abandoned, is it a Pool all along, is every accepted Future resolved unless Stop is called or all workers wait for good, does Stop return? Yes; Stop does unless a task waits for good for a Future that Stop abandoned. IInv, the proofs' invariant, holds too. |
| MCStats | 2 workers, a client that submits 3 tasks in a burst (one of them background), every queue capped at 1, a reader of Stats, no Stop | Does a reading count what its caller had seen finished, and does it never overstate the backlog, nor miss more of it than was submitted meanwhile? Yes. |
| MCSteadyLoad | 2 workers, deques of 2, 2 standard and 2 background tasks that come again and again, threshold 2, jitter 1, readings 1 tick old | Is every background task served while standard tasks keep arriving? Yes, provided some worker gets past its own deque again and again. And every standard task? Yes, provided tasks are not served aged for ever. Without either condition: no. |
| MCSchedulerIdle | 2 workers, 1 client, 2 tasks, the first of which waits for the second | Does a worker never stay parked over queued work, whatever tasks wait for? No: the one bell wakes the worker that runs the first task, which then waits for the second, while its peer sleeps. |
| MCBulkhead | 2 kinds of 2 workers, one capped, 5 tasks, 2 that hang, any set of Configs | Is a kind none of whose tasks hang isolated from one whose workers all do, is each a Pool, does Stop reach all and wait for all? Yes. |
| MCBulkheadMissing | the same | Does NewBulkhead leave nothing running when it fails? No: the pools it started. |
| MCDiff | all files of up to 5 lines over 2 lines, Baseline 1, TableBytes 64, all three functions | No index out of range, right and shortest scripts, an error exactly if both algorithms give up, always returns? Yes. |
| MCFileStore | an upload made before and 2 requests, both servers, all kinds, bodies of 0 or 2 chunks, 1 connection to the host, 1 fault or crash | No byte in another's file, no id for part of a file, no untrue success, no writer or connection kept, and is each request answered although a target may stall? Yes; what Close lost is the exception, and named as such. |

Why these bounds are enough to show something: two slots and four tasks wrap
the deque around twice under three thieves. A local deque of one and caps of one
make every spill, rejection and steal race happen with a handful of tasks. Five
queued values make the ring grow from each capacity, wrapped and not. Jitter above the threshold shows the clamp; three ticks let
readings be older than the threshold. Five lines are past `Baseline + sqrt`
for some pairs, and 64 bytes refuse the larger tables, so `DiffLines`
succeeds, falls back and fails. The upload made before (`Saved`) lets a
comparison name two files while another request is at work; one fault reaches
every error return, since a handler returns at its first error; two chunks can be
swapped, and one connection makes a second fetch wait. Two tasks a queue, in
SteadyLoad, let one be overtaken by its fellow and by those of the other queue;
more would wait behind the same head.

CHECK_DEADLOCK is off where a run may really end: all tasks done and workers
parked, all requests answered, time stopped.

### Fairness

Scheduler: weak fairness for each goroutine, that is, the Go scheduler lets a
goroutine that can go on go on; a worker parked on an empty channel cannot.
Not for the start of Stop, which nobody is obliged to call. A goroutine's own
choices (which peer, aged or not) get no fairness. Bulkhead: weak fairness for
the workers of each pool none of whose tasks hang (`Healthy`), which
`AcceptedResolves` justifies, and for each goroutine of Stop. A pool some of
whose tasks hang gets none, though it have more workers than those: the bell may
be spent on a task that is about to hang while the spare worker parks over
another, as in MCSchedulerIdle. NewBulkhead and clients get none.
SteadyLoad: for time, and for each
worker (fns return); none for arrivals, and none between the workers' choices.
Diff: for the one thread of the function. FileStore: for each handler, except
where it waits for its client (`WaitsForClient`): neither server sets a timeout,
so a client may stall an upload, a download or a reply for as long as it likes.
Stats needs none: its properties are about what a reading says.

### Disagreements with the documentation

Three runs end in a violation, each of one property that states what a comment
or README says: `DisabledMeansNoPromotion` (scheduler.go:103-106),
`NoIdleForever` (scheduler/README.md:401-404: a bell that coalesced wakes one
worker, which may go on to wait for a Future, scheduler/README.md:376-381) and
`NothingRunsOnFailure` (scheduler/README.md:371-372; a leak of goroutines). `PROJECT.json` "findings"
has the details. More comments say less, or more, than the code does, and the
models follow the code:

- A task past its threshold is "served immediately" (scheduler.go:13-17), and a
  busy worker "re-checks popAged for free on every loop iteration"
  (worker.go:52-61): findTask returns what is in its own deque first, so while
  every worker's tasks keep submitting children nothing bounds the wait
  (`PastOwnDeque` is a premise of `BackgroundServed`, which fails without it).
- PriorityStandard is "never the one at risk" of starvation
  (scheduler/README.md:230-234): background tasks that arrive fast enough to be
  all served aged starve it (the premise of `StandardServed`).
- `Stats` "is a snapshot" (scheduler.go:71, 303): it is six readings of six
  moments; Submitted minus the rest may be less than was ever unfinished, though
  by no more than was submitted between the first load and the last.
- ErrFetchFailed is for when "reading the response from the target fails", too
  (spiffers.go:24-26): a page that breaks off has the reader's error, which gRPC
  reports as Internal and HTTP, with a case of its own, as the target's
  (`Status`).
- `ChunkPool` "reuses fixed-size buffers for copying streamed file bodies"
  (pools.go:24-26): see FileStore above.
- What is queued when Stop is called "is simply dropped"
  (scheduler/README.md:352-355): `run` looks at `stop` only when its search comes
  up empty (worker.go:62-73), so workers still run all they find.
- popTop returns nil also when it loses to another thief with elements left
  (deque.go:72-73); a Submit that has read `stopped` before Stop sets it does
  enqueue (scheduler.go:293-296, against scheduler/README.md:364-369); and tasks
  that wait for their children can block every worker, not only their own
  (scheduler/README.md:376-381; the exception in `AcceptedResolves`).

## 4. Proofs

Eight modules hold theorems; `tlapm <module>.tla` checks each.

- **Deque_proofs** — `IInvHolds`, and from it `TypeCorrect`, `AtMostOnceHolds`,
  `StealIsCurrentHolds`: for every capacity, number of tasks and set of
  thieves. The properties are not inductive alone: `IInv` adds what the owner
  knows at each of its program points (`OwnerInv`: e.g. at "cas" its `otop` is
  `bottom` and at most `top`), that queued tasks are distinct and in nobody's
  hands (`QueuedInv`), and that a thief not yet overtaken read a live slot
  (`ThiefInv`). The heart is the lemma that distinct live indices, at most
  `Capacity` of them, use distinct slots. Also `NothingLostHolds` and
  `Refinement`, Spec => ImplementsWorkDeque, whose mapping counts the element popBottom has reserved as
  queued (`LiveBottom`) until a load of `top` or a compare-and-swap decides
  whose it is; that is where the operation takes effect.
- **RingBuffer_proofs** — `TypeCorrect`, `HoldsOnlyQueuedHolds` and
  `Refinement` to Fifo for every capacity and growth. Slots of distinct
  offsets are distinct modulo the capacity.
- **SharedQueues_proofs** — `TypeCorrect`, `DeadlinesBounded`, `WaitIsBounded`
  (AheadHasAged), `AgedFirst` (StandardWaitsForAged), for every threshold,
  jitter, cap and number of goroutines. The invariant adds `QueuedInOrder`:
  nodes are queued in time order, each after its clock reading, which is all
  that survives of FIFO order among deadlines.
- **Bulkhead_proofs** — `TypeCorrect` and `NothingRunsAfterStop` for every list
  of kinds, sizes of pools and finite set of tasks. `IInv` ties each
  goroutine of Stop to its pool's state and each running task to a pool that
  has not stopped. `EachIsAPoolHolds` then maps a step on a task, or of a pool's
  Stop, to a step of its own kind's Pool and to a stutter of all the others.
- **Scheduler_proofs** — `TypeCorrect` and `AbandonsOnlySharedHolds` for any
  number of workers and clients, any caps, and whatever the tasks submit and
  wait for. What Stop abandons is not inductive alone: `BaseInv` adds that a
  worker's program counter tells whether it holds a task (`WorkerInv`), that
  its deque is empty once its search has left it, which only its own push can
  change, and that a pending task is always in a queue, in a worker's hands or
  being submitted (`NoneDropped`). A lemma for each way a step can treat the
  tasks (`MoveStep`, `BeginStep`, `ServeStep`, ...) keeps the case split short.
  `IInvHolds` adds the rest of the inductive invariant, and from it follow
  `ExactlyOnceHolds`, `StatsBalanceHolds`, `NoIdleForeverHolds` and
  `ImplementsPoolHolds` (Spec => ImplementsPool). `TaskInv` says where a task
  is by how far its submission has come, gives each task one holder, and ties
  its Future, the calls of its fn and the counters to that place; since no
  task has two holders, a step disturbs one task, and the counters move with
  it. `WakeInv` is the argument that no wake-up is lost: while something is
  queued, the bell has a token, or an agent has still to ring it, or some
  worker's search has left nothing queued behind it (`MissedNothing`: on its
  last pass it has yet to come to every deque that is not empty), or some
  worker runs a fn that waits for nothing pending and will search again
  (`Unworried`). It needs `WaitsForOwnKids`, a hypothesis of
  `NoIdleForeverHolds` alone: a task that waits for somebody else's puts its
  worker to sleep after it has swallowed the bell, and MCSchedulerIdle shows
  that the property is then false. The refinement maps a spawn, spill or steal
  to a stutter, and a refusal to Pool's, whose queue is full because the
  smallest cap is reached.
- **FileStore_proofs** — `IInvHolds`, and from it `ExclusiveHolds`,
  `NoBytesAstrayHolds`, `IdNamesWholeFileHolds` and `AnswersAreTrueHolds`, for any
  finite set of requests, any servers, lengths, limits and numbers of faults.
  A request's part of `IInv` reads off its program counter what it asked for
  (`KindInv`), what its error and answer may be (`ErrInv`), how much of its
  source has reached the writer, the file or the client (`SaveInv`, `PumpInv`,
  `ReadInv`, `FetchInv`), and what it holds (`HandsInv`). `StoreInv` ties the
  pools and the counts of connections to those hands: an object is new, lent to
  one request or in its pool, and in one place only. Each action has a lemma that
  concludes `Kept` for the request that acts; that all others are undisturbed is
  shown once, from the fact that a step writes to no file and no writer but those
  in its own hands. This is what pooling puts at risk.

- **Diff_proofs** — `IInvHolds`, and from it `IsScriptHolds`, `ShortestHolds`,
  `FailsOnlyIfBothDoHolds`, `InBoundsHolds` and `FurthestReachingHolds`, for any
  lines, files of any length, any budget and any limit to the table. What the
  scripts are compared with, `Distance`, is defined by the common subsequences of
  two files and nothing else; the lemmas `MatchNone` to `MatchLast` are all the
  proofs need of it: what two prefixes have in common grows by equal lines, and in
  no other way. `SoFar` is what the rounds have left in `v`: each diagonal
  within the files is at a point that so many edits reach (`Attained`), and nothing
  further is reached with so few (`Furthest`). Diagonals also run out of the files,
  where the code compares nothing and still counts on; `Inside` and `Advance` bound
  how far, which is why no index is out of range, why the end cannot be passed by
  on another diagonal, and why `DiffLinesMyers` never exhausts its budget
  (`Converges`). The way back replays what `trace` recorded: it takes one edit
  per round (`ScriptFrom`), so the script has as many as there were rounds before
  the end was met, and fewer rounds do not meet it (`Beyond`). The walk keeps
  the sum of the common lines found and those the table promises ahead
  (`ScriptTo`), and a table that satisfies the code's recurrence holds at its first
  cell what the whole files have in common. Where the argument is an induction on
  data, over the cells of the table or the points of a round, it is made by a
  smallest counterexample, which needs no induction theorem.

- **Stats_proofs** — `CountsWhatWasSeenHolds` and `BacklogNotOverstatedHolds`,
  for any Scheduler that goes on between the loads. `SnapInv` rests on what no
  step undoes: counters do not fall, and a Future that is done or refused stays
  so. `Submitted`, loaded first, is split into what was completed or refused by
  then, which later loads can only exceed, and the backlog; the balance it starts
  from is Scheduler's `StatsBalance`. The same balance, read when the call has
  returned, bounds what the reading misses: counters it loaded earlier cannot be
  above those of that moment.

The assumptions are the named ASSUMEs on the constants, which TLC evaluates too:
positive capacities and counts, distinct kinds, finite sets of tasks and of
requests, each task submitted once, `Unknown` and `Malformed` two values that are no
request's, and `None` none of the other values of FileStore.

Only model-checked: all liveness (`AcceptedResolves`, `StopReturns`,
`Isolation`, `StopIsParallel`, `Returns`, `AnsweredAtLast`, `BackgroundServed`,
`StandardServed`), which is beyond TLAPS. Every safety invariant and every
refinement that a passing run checks is proved.

## 5. Not modelled

`kitex_gen` and `idl` (generated), load tests, benchmarks and assets;
`FormatDiff`'s layout; header fields and the text of error messages; net/http,
Kitex and the operating system below the calls FileStore names, HTTP/2's sharing
of a connection among them; what a power failure does to files that were never
synced; two processes colliding on a random id; panics inside tasks, which end
the process.

Two hazards of the Scheduler have no property. A second `Stop` closes a closed
channel and panics; nothing in `src/` calls it twice. And the ctx of a task names
its worker whoever uses it: a goroutine a task starts that submits with it would
push beside the deque's owner, which `pushBottom` rules out; no caller in `src/`
does, and Deque has one owner. Nor has the HTTP Download that breaks off after
its 200 (handlers.go:71): the code only logs it, nothing says otherwise, and
`AnswersAreTrue` excepts it by name, when what was sent is still a prefix of the file.

## 6. Plan

Done, in this order: Deque with its proofs and refinement; RingBuffer and
SharedQueues with theirs; Scheduler, its runs and first proofs; Pool and Bulkhead with its
invariant; Diff; FileStore; SteadyLoad; Stats; restarts, connections and a Close
that fails in FileStore; the proofs of Scheduler's remaining safety properties and
of its refinement of Pool; the proofs of FileStore, of Stats, of Diff, and of
Bulkhead's refinement of a Pool for each kind.

To come:

- Scheduler: a fn that calls Stop itself, which then waits for its own worker.
