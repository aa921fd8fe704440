# A TLA+ verification of the FBMM workspace

The repository holds what is needed to evaluate file-based memory management
(FBMM): a driver that runs experiments on a remote host, the benchmarks it runs
there, the scripts that trace them, and a copy of PostgreSQL that keeps its shared
memory in FBMM. This project models the parts that keep state or run concurrently,
model-checks them with TLC on small instances, and proves their safety properties
with TLAPS for every instance.

## The system

| part | source | module |
|---|---|---|
| experiment driver, its host, the command prefix | `runner/src/fbmm_exp.rs` | `FbmmExp` |
| launchers `fbmm_wrapper` and `badger-trap` | `bmks/fbmm_wrapper.c`, `bmks/badger-trap.c` | `Launchers` |
| driver and launchers together | both | `Experiment` |
| mmap benchmark | `bmks/alloc_test.c` | `AllocTest` |
| GUPS with a moving hot set | `bmks/gups/gups-hotset-move.c` | `GupsHotset` |
| page walk coherence benchmark | `bmks/pagewalk_coherence/` | `PageWalk` |
| page fault tracker | `scripts/mm_fault_tracker.py` | `FaultTracker` |
| PostgreSQL: shared memory and lock file | `port/sysv_shmem.c`, `utils/init/miscinit.c` | `PgInterlock` |
| PostgreSQL: lightweight locks | `storage/lmgr/lwlock.c` | `LWLock`, which implements `RWLock` |
| PostgreSQL: message queues | `storage/ipc/shm_mq.c` | `ShmMq`, which implements `MsgQueue` |

The paths of PostgreSQL are below `bmks/postgres/src/backend/`.

The driver connects to the host over ssh, rewrites its boot options, reboots it,
configures it, starts the trackers, runs one workload under a prefix of launchers,
collects the statistics and stops the trackers. Each experiment is a separate run of
the driver, so what one run leaves on the host is where the next begins. The
trackers run on the host beside the workload; the benchmarks are workloads, and so
is PostgreSQL, whose memory `sysv_shmem.c` maps from a file of the FBMM mount.

Each module has the state of its part as variables and one action for each step
that another actor can notice. Modules `MC...` give values to the constants for TLC;
modules `...Proofs` have the theorems.

## FbmmExp: the driver and its host

`run_inner` is a straight script in which `?` after a command ends the run with no
cleanup. The variable `pc` is the command the script is at; each command, or block
of commands that write settings, is one action. `Fail` ends a run at any command
that is checked, `Interrupt` at any point, and a block of settings may end with
any part of it written (`Configure`). The exceptions are modelled as they are in the
code: the result of `sudo reboot` is dropped (`SendReboot`), the reconnection loop
retries for ever (`Reconnect`), and the loop that polls a server sent SIGINT ends with
the first poll that fails, be it that the server is gone, that it does not answer while
it shuts down, or that the session is gone (`AwaitServerExit`). The 20 s of sleep
behind it bound nothing, so the run may go on with the server still there.

The host's state is split by how long it lives. The grub file, its temporary copy
and the generated boot menu (`grub`, `tmp`, `menu`) survive everything. Settings,
modules, the mount and processes last until the host goes down (`PowerOff`). The
boot options of the running kernel (`boot`) are those of `menu` when it was booted.
`conn` says whether the driver's ssh session belongs to the current boot; every
command needs it. Grub options are counted, because a `sed` that appends to a line
it failed to clean would add an option twice.

A configuration is a record: the file system, the set of options, the two memory
regions, the kind of workload and the number of threads. `CliAccepts` has the
`requires` and `conflicts_with` rules of the command line. Workload arguments are
left out. The start of the PMEM region may be given by the user; the model takes it
to be different from the DRAM region, as the default is.

- `BootMatchesConfig`: past its reconnection a run works on a host booted with
  exactly the options of its own configuration.
- `EnvironmentMatchesConfig`: when a workload is loaded or run, the settings are those its
  command line asks for (`Asked`) and nothing else, and so are module and mount. Two kinds
  of options are excepted: knobs of what the run does not use, such as one of TieredMMFS
  where another file system is mounted (`Unused`), and `--thp_temporal_zero`, which no run
  obeys (finding 5). `Asked` is read off the options, not off the commands that set them.
- `FbmmHasMount`: FBMM is never on without a mount, nor that without its module.
- `GrubStaysClean`: no option twice, and no regions of two configurations.
- `OkLeavesNoTracker`: a run that succeeded leaves no tracker behind, so what they print is
  complete, and a server only if it was told to stop. The periodic collectors are not
  waited for by the driver, and may be there.
- `PrefixExecutes`: every launcher of the prefix can execute what follows it.
- `RunEnds`: every run ends.

## Launchers and Experiment: the composition

`Launchers` is the chain of processes a command line of the driver starts, for each of
several shells, so that what an interrupted run has left can go on beside the next:
`fbmm_wrapper` writes its `fbmm_mnt_dir` and becomes what follows it; `badger-trap`
switches its trap on, forks, and waits; `perf`, `numactl` and `cgexec`, which are not of
the repository, run what follows them (`PassOn`). Every call may fail, noticed or
not. `Experiment` extends `FbmmExp` and instantiates `Launchers`: the run of a batch
workload, one step of the driver alone, becomes the command line that is given to the
shell (`StartWorkload`), the steps on the host (`OnHost`), and the end of the pipeline
(`FinishWorkload`). An interrupted driver leaves its command line running; a host that
goes down takes it along.

- `AloneOnHost`: from its reconnection on, nothing started from a command line runs on
  the host but the one command line this run has given and waits for: nothing of an
  interrupted run, and no second copy of the workload.
- `TrapIsOurs`: a run that is not to use badger trap finds it off, although
  `badger-trap` never switches off what it switched on.
- `DirHasMount`: a process is given a directory for its memory only while FBMM is on
  and its file system mounted.

The run `experiments` checks these and the properties of the driver on the composition,
with five configurations in any order, three memory regions, two shells and one crash of
the host (504,033 states). The number of runs is not bounded: after `Ok` or `Err` a run
with any configuration starts. The five configurations are one of each kind the evaluation
compares; they take both branches of every step that changes the boot options, the mount,
the prefix or the processes. Single knobs that are written like others (`lock_stat`, most
knobs of FBMM) are left out; two that are given where they are not used are there. Two
shells hold what a run has left and what the next would start beside it; which of them gets
a command line makes no difference (`FreeShell`). Some configurations share a region, others do not, so
options of one could be mistaken for those of another. One crash is enough to hit any
command of a run that follows any other run. A reboot command that is lost (`RebootFaults =
{"lost"}`) is in the model and is excluded by the assumption of some theorems, but is in no
run.

Fairness for `RunEnds`: the driver takes its next step if it can, and so do the
processes of its command line; a host told to reboot goes down; a host that is down
comes up, which is what the unlimited reconnection loop relies on; a process sent
SIGINT ends, as the trackers and the servers do. While a server answers, nothing
makes the loop that polls it end (`ServerAnswers`), so the driver is owed a step there only
once the server is gone. Nothing is assumed of a command's success.

The run `slow_reboot` has a host that needs longer than the driver's sleep to go down
(`RebootFaults = {"slow"}`): `BootMatchesConfig` is violated.

## AllocTest: the mmap benchmark

`main` creates the threads of a phase, sets `begin`, and joins them; first they all
map, then they all unmap. With one thread it calls the function itself. The model
has main's place (`mpc`), its loop counter, `begin`, the handles and totals, and for
each thread its place, function, loop counter and time. One pass of a thread's loop
(mmap and touch, or munmap) is one step, since nothing in it is shared.
`pthread_create` and `mmap` may fail and the code looks at neither result: joining a
thread that was never created, and writing through or unmapping an uninitialised
address, are undefined, and the model allows each outcome (`"crash"`, a garbage time).
The byte offset of the touch loop is a 32-bit int (`TouchedPage`).

- `StartTogether`: no thread works before all of its phase are created.
- `PhasesApart`: nothing is unmapped while a thread is still to map.
- `TotalsComplete`: the totals account for every pass and no mapping is left, if all
  threads could be created.
- `Terminates`.

Fairness is weak fairness of main and of each thread: the driver gives every thread a
core of its own, so a spinning thread does not starve main. The run `alloc_test` has
zero to three threads, up to two mappings, and both faults (129,800 states). Three
threads are enough for one to be ahead, one behind and one missing.
`alloc_test_touch` maps one page more than 2 GB; `TouchReachesEveryPage` is violated.

## GupsHotset: GUPS with a moving hot set

Workers update random elements of their regions; a timer thread moves the hot set and
stops the workers; a printer adds up their counters every second; main joins the
workers and reports the sum. They share plain variables with no synchronisation but
the joins. The Makefile does not optimise, so each access is one to memory, in the
order of the program, and an interleaving of them is what can happen. A random number
is any number; an access is the set of bytes it touches. `stoppedAt` is a history
variable: where each worker was when `stop` was set.

- `ExceedsByQuarter`: the regions are kept apart by nothing but the sizes. Moving the hot set
  adds a quarter of it at its end; if there is no room for that, a worker updates
  elements of the next one's region, or behind the field. It goes no further than that
  quarter, also when the set moves between its reading of `move_hotset1` and the next;
  and with elements of 8 bytes and room for the quarter it stays in its own region.
- `ReportedWasDone`: the printer adds differences while the workers and main go on; what
  is reported exceeds what was done by less than a chunk for each worker. The printer
  takes its differences through `abs`, an int (`ToInt`; `HalfInt` stands for 2^31): a second with
  more updates than that is counted short. `abs(INT_MIN)` makes the report negative,
  which the property excepts.
- `StopsWithinOne`: a worker makes at most one more update after `stop`.
- `Ends`, with weak fairness of main and of each worker. The timer and the printer are
  owed nothing: main and the workers do not wait for them.

The run `gups` has two workers with regions of four elements, all of them hot, no room for
the one that moves, four iterations, chunks of three, and ints up to 5 (556,876 states), so that
a worker is stopped before, in and after a chunk, on either side of the move, and the
printer's int overflows.

## PageWalk: the page walk coherence benchmark

`paging.cc` maps its own page tables into a window, changes them there while it reads
through them, and puts them back; `pgmod.c` flushes the TLBs of all processors for it.
A page table entry is the number of the page it points to. For each processor `tlb` and
`wtlb` are the entries its TLB *may* hold: everything a walk has found since the last
flush. An access uses one of these or walks again; a processor that speculates may have
walked at any time it ran the process. The process may be moved between any two
accesses (`Migrate`). Where the buffer begins in its first table, and what is behind
its last one, are part of the instance.

- `OneOrTwo`: "n is always 1 or 2", with which the program indexes its counts.
- `ResultTellsSpeculation`: a processor that does not speculate is never reported to
  have read the first page where the second is expected, and the sums cover all pages
  and iterations.
- `TablesRestored`: at the end all entries are those of the beginning, and no TLB holds
  another one; the process is not killed on the way.

The run `page_walk` has two processors (symmetric), tables of two entries, two or three
pages, two iterations, and the options `--preload`, `--mode` and `--dont_remap`
(2,900,397 states). Two tables are what a buffer can span there, and two iterations
what a stale entry needs to be carried over. Combinations that add nothing are left
out, as `MCSetups` says. Also left out: an array of one page, the chains of
multiplications of mode 1, whose product is taken to be zero, and the calls whose results the
program does not look at: `mmap`, `malloc` and `mlock`, after which it goes on with an address
that is not one, the `write` with which it asks `pgmod.c` for a flush, and the accesses to
`/dev/mem`. If one of the last two fails, stale entries stay in the TLBs or the tables are
not those the program takes them for, and the properties above are not claimed.

## FaultTracker: the page fault tracker

BPF programs on the entry and the return of the fault, allocation and zeroing
functions keep their starts in three maps and their sums in `fault_stats`; a program
on thread exit sends the sums to the script, which prints them. Threads of the host
enter and leave these functions in any order and nesting the kernel has, come and
go, and reuse thread ids; the script attaches its probes one at a time, opens the
perf buffer, and may be stopped. A call is hooked if the return probe was attached
when it was entered. A time is the pair of the call it was started at and the call
it was ended at, and a sum is the set of them, so that a time that mixes two calls
shows. A map that is full refuses new keys; a perf buffer that is full or not open
drops the event.

- `FaultsExact`: what is recorded for a live thread of a target that was started after the
  tracker has attached its probes are exactly its own faults. The driver does so for batch
  workloads by a `sleep 10` behind the start of the tracker (`fbmm_exp.rs:1239-1241`), with
  no sign from the script that it is ready; on a host where the attaching takes longer the
  target is of the other kind. The starts of allocations are never deleted, so their maps
  do fill up in this instance; those of faults are deleted.
- `SpansMatch`: no time span mixes two calls or two threads, also for a target that is
  running while the probes are attached, as servers are, and when returns are missed.
  `FaultsExact` does not hold there: a fault entered before the return probe was
  attached leaves its start in the map for good.

The run `fault_tracker` has both kinds of target, three thread ids of which two are
alive at a time, maps of two entries and four calls (5,656,988 states). Three ids
are enough to fill a map with those of the dead. Threads are symmetric. The two kernel
functions attached to each program are one function of the model; they never nest in
one another. In `fault_tracker_zero`, `NoDivisionByZero` is violated.

## PgInterlock: one server at a data directory

A postmaster makes `postmaster.pid` (`CreateLockFile`), and in it names the System V
segment it has made (`PGSharedMemoryCreate`). The next one looks at both: at the PID in
the file, and at the attach count of the segment, which tells of backends that have
outlived their postmaster. Each system call another process can notice is a step.
Postmasters and backends may be killed, and the host rebooted, between any two of
them; PIDs are used again, and so are ids of segments after a reboot; other programs have
segments under the same keys; an id may not get recorded in the file, which
`AddToDataDirLockFile` only logs (`"unrecorded"`); and an administrator may, once, remove the file
of a running server. `CreateAnonymousSegment` maps the server's memory,
with the branch for FBMM, in which the file may get no memory (`SigBus`).

- `OneServer`: no two postmasters are at the data directory, also if they start at the same
  time, and processes of at most one server are alive, if the id of its segment was
  recorded. One thing lets a second in (`"removal"` in the history variable `upset`): somebody
  removes a lock file that is not the one they have read, be it by hand, or because the
  `unlink` of a start, which goes by name, meets a file another start has made since.
- `RecyclesOnlyDead`: a segment is removed only if nobody of a server is attached,
  although the count looked at is an old one.
- `LockFileNamesServer`: under the same condition the file has the PID of the running server and,
  if it could be recorded, its segment, also after the crash of a backend, when the
  segment is another one.
- `StartupEnds`: the loops of the start end, also when two start at the same time.
- `RecheckEndsDouble`: if there are two servers after all, `RecheckDataDirLockFile` ends
  that.

Fairness: a process that runs goes on running; a backend ends when its postmaster is
gone or stops. Kills, reboots and starts are owed nothing. The run `pg_interlock` has two
postmasters, a backend, a foreign segment, and memory set up at most twice
(313,914 states): one server to be left behind in any state, and one to find it, or two
to start at the same time over what an earlier one has left.
The proof covers any number.

## LWLock: lightweight locks

`LWLock` is one lock of `lwlock.c` with its wait list and the variable it may protect. Each
atomic operation on `lock->state`, each access to the variable and each operation on a
semaphore is a step. `Calls` says what each process may call: `LWLockAcquire`,
`LWLockConditionalAcquire`, `LWLockAcquireOrWait`, `LWLockWaitForVar`; a holder may call
`LWLockUpdateVar`, `LWLockRelease` and `LWLockReleaseClearVar`. A semaphore may be posted by
somebody else (`Stray`). `RWLock` is the reader-writer lock the header promises, as
readers and writers.

- `ImplementsRWLock`: the lock implements `RWLock`, with the entries of `held_lwlocks` as
  readers and writers.
- `ListsMatch`: a process is in at most one list, and its `lwWaiting` says in which; the
  PANIC of `LWLockQueueSelf` does not happen.
- `SemaphoresBalance`: wakeups that were absorbed are given back, and none is invented.
- `NoSleeperForgotten`: nobody sleeps on a free lock unless somebody is on the way to wake
  the list, or to take the lock and wake it afterwards, for all that `RELEASE_OK` suppresses.
- `CallsReturn`: no wakeup is missed; everybody who called comes back.

Fairness: a process in a call goes on, and a holder releases the lock, which the code
assures by `LWLockReleaseAll` at errors. The run `lwlock` has a writer that changes the
variable, a process that reads, writes or waits for the lock, and one that reads,
tries or waits for the variable, with one call each and one stray wakeup (273,016
states). Three processes are what the subtle order needs: one that queues, one that
releases, and one that takes the lock in between.

## ShmMq: shared memory message queues

`ShmMq` is the ring buffer of `shm_mq.c` from one sender to one receiver. One side, the
leader, made the queue and attached to it, with or without a handle for the other, a
background worker that attaches later or never starts. Either may detach in the middle of
a message. A step is one access to what both share: a counter,
`mq_detached`, a pointer under `mq_mutex`, a latch, or the bytes of one `memcpy`. The unit
is `MAXIMUM_ALIGNOF` bytes, and a cell of a message is its message and its index in it,
so that a cell that is written over shows. `MsgQueue` is the queue the header promises.

- `ImplementsQueue`: messages arrive whole, once and in order, also if they are longer
  than the ring.
- `WithinRing`: the asserts of the two copying functions, also against the counters as
  each side last read them.
- `InUseIntact`: the sender does not write over a message the receiver has a pointer to.
- `DetachLosesNothing`: who is told of `SHM_MQ_DETACHED` has had all that was visible.
- `NoNewsMissed`: a side that sleeps with its latch unset has seen every counter, attach and
  detach it waits for, and the death of the worker if it has a handle, or the other
  side is about to set the latch.
- `DeliveredToLeader`: a flushed message arrives, if the receiver made the queue.
- `GoneIsNoticed`: nobody waits for ever on a side that has left, but for a leader without a
  handle whose worker never attached: "we'll potentially get stuck here forever", as the
  comment of `shm_mq_wait_internal` says.

Fairness: both sides run, the worker starts or is found not to, and the receiver calls
again. A sender may rest for ever between two messages. The run `shm_mq` has messages
of one, no and three cells in a ring of three, both leaders, with and without handle, calls with
and without `nowait` and `force_flush`, and errors at any wait (206,034 states): a message that fits, one
of only a length word, and one that does not fit and wraps. In `shm_mq_late_receiver`
the sender made the queue, and `Delivered` is violated.

## What is proved

| module | theorem | statement |
|---|---|---|
| `ExperimentProofs` | `FbmmMountCorrect` | `Spec => []FbmmHasMount` |
| | `GrubCorrect` | `Spec => []GrubStaysClean` |
| | `BootCorrect` | with `RebootFaults = {}`: `Spec => []BootMatchesConfig` |
| | `PrefixCorrect` | `Spec => []PrefixExecutes` |
| | `EnvironmentCorrect` | with `RebootFaults = {}`: `Spec => []EnvironmentMatchesConfig` |
| | `OkCorrect` | with `RebootFaults = {}`: `Spec => []OkLeavesNoTracker` |
| | `ImplementsDriver` | `ExpSpec => Spec` |
| | `AloneCorrect` | with `RebootFaults = {}`: `ExpSpec => []AloneOnHost` |
| | `DirCorrect` | `ExpSpec => []DirHasMount` |
| | `TrapCorrect` | with `RebootFaults = {}`: `ExpSpec => []TrapIsOurs` |
| `AllocTestProofs` | `TypeCorrect` | `Spec => []TypeOK` |
| | `BarrierCorrect` | `Spec => []StartTogether` |
| | `PhasesCorrect` | `Spec => []PhasesApart` |
| | `TotalsCorrect` | `Spec => []TotalsComplete` |
| `GupsHotsetProofs` | `StopCorrect` | `Spec => []StopsWithinOne` |
| | `RegionCorrect` | `Spec => []ExceedsByQuarter` |
| | `ReportCorrect` | `Spec => []ReportedWasDone` |
| `PageWalkProofs` | `RestoreCorrect` | `Spec => []TablesRestored` |
| | `OneOrTwoCorrect` | `Spec => []OneOrTwo` |
| | `ResultCorrect` | `Spec => []ResultTellsSpeculation` |
| `PgInterlockProofs` | `OneServerCorrect` | `Spec => []OneServer` |
| | `LockFileCorrect` | `Spec => []LockFileNamesServer` |
| | `RecycleCorrect` | `Spec => []RecyclesOnlyDead` |
| `FaultTrackerProofs` | `SpansCorrect` | `Spec => []SpansMatch` |
| | `FaultsCorrect` | with `Suitable`: `Spec => []FaultsExact` |
| | `SixteenIsSilent` | `Spec => [](setup.name = 16 => stats = Empty /\ events = <<>> /\ printed = {})` |
| `LWLockProofs` | `LWLockIsRWLock` | `Spec => ImplementsRWLock` |
| | `ListsCorrect` | `Spec => []ListsMatch` |
| | `SemaphoresCorrect` | `Spec => []SemaphoresBalance` |
| | `WakeupCorrect` | `Spec => []NoSleeperForgotten` |
| `ShmMqProofs` | `RingCorrect` | `Spec => []WithinRing` |
| | `ShmMqIsQueue` | `Spec => ImplementsQueue` |
| | `InUseCorrect` | `Spec => []InUseIntact` |
| | `DetachCorrect` | `Spec => []DetachLosesNothing` |
| | `LatchCorrect` | `Spec => []NoNewsMissed` |

These are all the safety properties the passing runs check, the two refinements
included, with the types of `AllocTest` and one fact about the tracker that no run
states. They hold for any number of configurations, regions, crashes, threads, mappings,
updates, processors, pages, postmasters, backends, processes and messages, and any sizes.
The assumptions are those on the constants, named in the module that declares them
(`ConfigsAssumption`, `BoundsAssumption`, `ArgsAssumption`, `GupsAssumption`,
`PageWalkAssumption`, `PgInterlockAssumption`, `FaultTrackerAssumption`, `LWLockAssumption`,
`ShmMqAssumption`); TLC evaluates them in the runs. What else a theorem needs is in its
statement: `RebootFaults = {}` says that a reboot command is neither lost nor slower than the
driver's sleep, without which `slow_reboot` has the counterexample; `Suitable` says that a map
has an entry for every thread that can be alive (10240 for a `BPF_HASH`) and that the name of the
target is not one of 16 characters, which never matches (finding 9). `SixteenIsSilent` says that the
second part is needed: with such a name the tracker has nothing to print, whatever the
target does.

None of these invariants is inductive by itself. What was added, and why:

- `FbmmSteps` (`FbmmHasMount`, and the types of the driver): what each place of the script
  knows of module and mount, as long as the session is one of the current boot. That
  condition is what makes it survive a crash.
- `GrubSteps`: what the two grub files hold at each of the seds and moves; and that at any
  time, whatever run stopped where, the grub file is empty, or has the regions, or all
  options, of one configuration.
- `BootSteps`: from the reboot command on, the host is still to go down, or down, or up with
  the new menu. `Late` collects the commands after the reboot; one lemma shows that they
  change none of this.
- `PrefixSteps`: the wrapper is the last command until badger trap is put behind it, and
  nothing is put behind that.
- `EnvSteps`, `ProcSteps`: how far settings and processes are at each place. That they begin
  with nothing is owed to the reboot, so these rest on `BootSteps`.
- `ImplementsDriver` needs no invariant: every step of the composition is one of the driver
  or of the host, or one they do not see. With it the theorems about the driver hold of
  the composition (`ExpKeepsHost`, `ExpMatchesConfig`). `LaunchSteps`, for `AloneCorrect`,
  says that a command line of another run can only be there before the reboot, and that after
  it none but this run's shell has one.
- `DirSteps`: a command line that begins with `fbmm_wrapper` is given only while FBMM is on, and
  its processes do not outlive the boot in which it was. It needs no assumption on the reboot:
  nothing switches FBMM off but a boot. `TrapSteps`: the trap is off when a run gets its
  host back, and only a `badger-trap` of this run's own prefix switches it on.
- `Barrier`: what main's place says about `begin`, and that a thread which is spinning or
  running has a handle that is still to be joined.
- `Joins`, `Totals`, `Slots`: main's total is the sum over the threads it has joined, the times
  of a phase's threads sum up to what its passes took, and what a thread has mapped is
  what it has not unmapped yet. A thread that could not be created spoils the first.
- `Shape` and `StopSteps`: main starts the workers in order; `stop` is set once, and a
  worker that is not done has not gone on since. `ExceedsByQuarter` is inductive with two
  types: the hot set never moves back, so what was in reach stays so.
- `ReportSteps`: a worker counts a chunk ahead of its updates (`Counters`), and the printer's total is
  a sum of one value of each counter, none of them above what the counter is now
  (`Snapshots`). That is so of two sums, of the last second and of the one it is adding up,
  and the differences it adds are between these.
- `Walks` and `ShuffleSteps`: where the loops are, that `randindex` is a permutation, and what the
  TLBs may hold of the window. `Tables`: which entries are saved, changed and restored at each
  place. With the flushes it gives what a TLB may still hold, for `TablesRestored` and, with
  `ReadSteps`, for `OneOrTwo`. `CountSteps` and `CleanSteps`: the counts of a pass cover the pages
  so far; without speculation no TLB has an entry of a page that is still to come.
- `InterlockSteps`: as long as no lock file was removed unread, it leads to every process
  of a server, if the segment was recorded. `Owner` says who made the file, `Parent` and
  `Child` that it leads to the segment each is attached to, `Childless` when no backend can
  be left, and `Prober` that what a starting postmaster has read is still so, or the file
  is gone. The last is what makes the old attach count good enough.
- `RecycleSteps`: whoever runs is attached, whatever happened to the lock file (`Held`); and a
  segment that was found without processes gets none while its finder decides, unless two
  starts overlap (`Unused`).
- `SpanSteps`: the traced functions of a thread are nested, and the start that a return finds is
  that of its own call (`Started`), although starts are left behind in the maps. `ExactSteps`: a
  start of a fault is there for the time of that fault only, so that no id is given out again
  with one; and the maps have room because only live threads of the target are in them.
- `HoldSteps`: the state word counts the entries of `held_lwlocks`, and nobody tries to get
  a lock they have. The refinement's steps follow from it.
- `Lists`: the wait list and the lists of the wakers have nobody twice and nobody in common, and a
  process's place and `lwWaiting` say in which it is. `Balance`: what a process has got, has put
  aside as an extra wait, and is still to be posted is what it is owed and what came from others.
- `Care`, on top of these: `LW_FLAG_LOCKED` has one owner (`Guarded`); `HAS_WAITERS` is set while
  somebody is on the list (`Flagged`); `RELEASE_OK` is clear only while a process that was woken,
  and that will set it again, has not run (`Suppressed`); and `NoSleeperForgotten` for those too who
  have found the lock taken and are about to sleep (`Attended`). The order in
  `LWLockAcquire`, queue first and try again after that, is what the step to "sleep" rests on.
- `RingSteps`: the other side's counter as last read may be late, never early, and a cell
  that was reached holds part of a message, so the length word found there is one.
- `Stream`: the messages, with their length words, are one stream of cells, in which `End[m]` is where
  message m ends. The sender has written the messages sent and a part of the next, the receiver
  has read those received and a part of the next, and the ring has the last cells of the
  stream at their offsets (`Window`). `ImplementsQueue` maps the messages between the two to the
  abstract queue. `Lent` adds that the cells of a message in use have not been given back.
- `Workers` and `Late`: a receiver that sees the queue detached, or its sender gone, sees in
  `bytesWritten` all that will ever be there. The order of its looks (first at `mq_detached`, then
  again at the counter) is what this depends on.
- `News`: whatever changed since a side last looked at it is announced: its latch is set, or the
  other is between the change and setting it. That is stated for each thing looked at, from the
  look to the sleep: the other's counter (`CountersSeen`), `mq_detached` and the worker
  (`EndSeen`), the pointer to the other (`StartSeen`).

## What is only model-checked

- Liveness: `RunEnds`, `Terminates`, `Ends`, `StartupEnds`, `RecheckEndsDouble`, `CallsReturn`,
  `DeliveredToLeader`, `GoneIsNoticed`. The prover does not handle fairness. For the last three
  the safety part is proved, that no wakeup is lost (`WakeupCorrect`, `SemaphoresCorrect`,
  `LatchCorrect`); that the steps which are due are then taken is left to TLC.
- What the violation runs refute, of course: `TouchReachesEveryPage`, `NoDivisionByZero`, `Delivered`,
  and `BootMatchesConfig` with a slow reboot.

Sums, permutations, sublists and the stream of cells are given by recursive functions, and
facts about them need induction. The induction theorems of the library take an operator as a
parameter, which the provers cannot instantiate. The proofs use instead that a nonempty set of
naturals has a least element (lemmas `Least` and `Induction` of the modules concerned, from
the well-foundedness of `<` on the naturals), applied to the set of counterexamples.

## Where the code and its own words differ

With a counterexample of TLC:

1. The driver sleeps 5 s after `sudo reboot` to "make sure we wait a bit for it"; on a
   slower host it configures the old boot (`fbmm_exp.rs:1490`; run `slow_reboot`).
2. `--touch` does not touch every page of a mapping of more than 2 GB
   (`alloc_test.c:40`; run `alloc_test_touch`).
3. The tracker divides by zero for a thread with no completed fault
   (`mm_fault_tracker.py:256`; run `fault_tracker_zero`).
4. A sender whose receiver attaches between its look at `mq_receiver` and its update of
   `mq_bytes_written` does not wake it, and the message waits for the next one
   (`shm_mq.c:523`; run `shm_mq_late_receiver`). It concerns queues made by their sender whose
   receiver blocks. The one queue of the server that is made by its sender
   (`applyparallelworker.c:378`) is read with `nowait` and a timeout of a second (766, 807-810), so
   there the message is late by at most that.

Seen while modelling, each in one step of the model or in code that is left out:

5. `--thp_temporal_zero` conflicts with `--fbmm`, but its knob is only written with
   `--fbmm` (`fbmm_exp.rs:337`, `1078`): it never takes effect, and `EnvironmentMatchesConfig`
   excepts it by name.
6. `(size - 1) << 30` in the driver underflows for a size of 0 (`fbmm_exp.rs:1143`).
7. `fbmm_wrapper` returns 0 when `execv` fails, and the `tee` at the end of the driver's
   pipelines drops every status anyway (`fbmm_wrapper.c:49`, `fbmm_exp.rs:1552`): a run whose
   workload never started is `Ok`.
8. At its end `badger-trap` makes system call 314 instead of the one it began with
   (`badger-trap.c:53`); the reboot is what switches the trap off.
9. A process name of exactly 16 characters is never matched (`mm_fault_tracker.py:221`), and
   events are lost when the perf buffer is full (`mm_fault_tracker.py:211`).
10. The updates of GUPS are of 8 bytes whatever the element size given
    (`gups-hotset-move.c:190`), and the sizes are not checked to leave room for the hot set to move
    (174); see `ExceedsByQuarter`.
11. The FBMM branch of `sysv_shmem.c` does not look at the result of `ftruncate`
    (line 648), and reports `huge_pages_status` as on (line 664).
12. Two postmasters that start at the same time over a stale lock file can both go on
    (`miscinit.c:1355`), until the recheck ends one. A failure of `AddToDataDirLockFile` is only
    logged, and without the id in the file backends that have outlived their postmaster are
    not found.
13. `paging.cc` keeps only the counts of the last inner pass (553); "x always remains zero"
    (569) is not so for `--mode 1` with some dependence chains and `--preload 2`; an array of
    one page uses a second one; and `translate` exits with the window half mapped, as its own
    comment warns (159).
14. "Make sure the server dies" (`fbmm_exp.rs:1356`, `1371`) is not what the loops below it do:
    they end when the server stops to answer.

## Not modelled

- `mmap_tracker.py`: its probes keep no state from one event to the next; each copies
  its arguments into the perf buffer, which is the one of `FaultTracker`.
- `setup_wkspc.rs`, `setup_kernel.rs`: sequences of commands whose effects (packages, clones,
  a kernel build) are in libraries that are not in the repository.
- `gups.c`: the workers of `GupsHotset` without hot set, timer or printer. The zipf
  generator is floating point arithmetic, and so is STREAM, in independent iterations.
- Result extraction, plots, kernel options: text processing and data.
- YCSB, memcached, graph500, SPEC CPU and libscail are not in the repository. `FbmmExp` has
  them as workloads that run and servers that are loaded, stopped and awaited.
- PostgreSQL beyond the three parts above. It is nearly all of the repository's one and a
  half million lines, and a system of its own: planner, executor, storage, recovery and
  replication would each need a project like this. The parts that are modelled are the
  one FBMM changes (`sysv_shmem.c`, with the lock file it works together with) and two
  that the server's processes share its memory through. So measured in lines of the
  whole repository this project covers well under one per cent; of the repository's own
  code it covers the driver, the launchers, three of the benchmarks and a tracker.
- Of the parts that are modelled: arguments of workloads, socket lock files, tranches
  and statistics of lightweight locks, messages gathered from several buffers, the modes
  `name` and `pid` of `badger-trap`.

## Reading and running

    tlc -config Experiment.cfg MCExperiment
    tlc -config FbmmExpSlow.cfg MCFbmmExp
    tlc -config AllocTest.cfg MCAllocTest           # and AllocTestTouch.cfg
    tlc -config GupsHotset.cfg MCGupsHotset
    tlc -config PageWalk.cfg MCPageWalk
    tlc -config FaultTracker.cfg MCFaultTracker     # and FaultTrackerZero.cfg
    tlc -config PgInterlock.cfg PgInterlock
    tlc -config LWLock.cfg MCLWLock
    tlc -config ShmMq.cfg MCShmMq                   # and ShmMqRace.cfg
    tlapm ExperimentProofs.tla                      # and the other ...Proofs modules

Definitions whose comment begins with "Mutant" are plausible mistakes in the code; each
property is violated when one of them takes the place of the definition that follows it.
`PROJECT.json` has the source lines of every definition, the runs, the mutants and the
hazards the properties are aimed at. A run without a deadlock check is one of a program
that ends, or that a bound on its calls ends.
