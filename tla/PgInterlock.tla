---------------------------- MODULE PgInterlock ----------------------------
(***************************************************************************)
(* How PostgreSQL (bmks/postgres) keeps two servers out of one data        *)
(* directory: the lock file postmaster.pid of utils/init/miscinit.c and    *)
(* the System V segment of port/sysv_shmem.c, whose attach count tells     *)
(* whether a process of an earlier server is still alive.                  *)
(*                                                                         *)
(* Every system call another process can notice is a step.  A process may  *)
(* be killed, and the host rebooted, between any two of them.  A file or a *)
(* segment is known by who or what made it; errors of system calls that    *)
(* the code answers with ereport(FATAL) are the action Fatal.  The memory  *)
(* the server itself uses is mapped by CreateAnonymousSegment, which has a *)
(* branch of its own for FBMM.                                             *)
(***************************************************************************)
EXTENDS Naturals, FiniteSets

CONSTANTS
  Postmasters,   \* process ids of postmasters; a dead one may be started again
  Backends,      \* process ids of their children
  None,          \* no file
  Foreign,       \* the keys from st_ino on that segments of other programs have
  HugePages,     \* huge_pages: "off", "try", "on" or "fbmm"
  MaxStarting,   \* bound: postmasters in CreateLockFile or PGSharedMemoryCreate
  MaxStarts,     \* bound: times shared memory is created, or tried to
  AdminRemoves   \* may somebody once remove the postmaster.pid of a running server by hand?

ASSUME PgInterlockAssumption ==
  /\ IsFiniteSet(Postmasters) /\ IsFiniteSet(Backends) /\ Postmasters \cap Backends = {}
  /\ None \notin Postmasters /\ "foreign" \notin Postmasters \cup Backends
  /\ Foreign \in Nat /\ MaxStarting \in Nat /\ MaxStarts \in Nat
  /\ HugePages \in {"off", "try", "on", "fbmm"} /\ AdminRemoves \in BOOLEAN

VARIABLES
  lock,    \* postmaster.pid: who made it, the PID in it (None: empty), the id in it
  segs,    \* shmid -> [key, header, attached, destroyed]
  nextId,  \* the shmid of the next segment
  starts,  \* how often shared memory was set up, or tried to
  fresh,   \* history: the postmasters that have read the lock file as it is
  upset,   \* history: "overlap" of two starts, "removal" of the lock file by somebody who
           \* has not read it as it is, a segment left "unrecorded"
  pc,      \* where each postmaster is
  seen,    \* the lock file as it was read
  key,     \* NextShmemSegID
  id,      \* shmid of the segment being looked at, 0: none
  nattch,  \* its shm_nattch, as IPC_STAT returned it
  state,   \* the IpcMemoryState found
  own,     \* the segment the postmaster made, 0: none
  owns,    \* is the lock file on its list lock_files?
  mem,     \* what AnonymousShmem is mapped to
  be       \* the segment each backend is attached to, 0: not running

probe == <<seen, key, id, nattch, state>>
past == <<starts, upset, fresh>>
vars == <<lock, segs, nextId, past, pc, probe, own, owns, mem, be>>

NoFile == [by |-> None, pid |-> None, shm |-> 0]

Alive(p) == pc[p] # "dead"
CreatingLockFile == {"open", "read", "kill", "stat1", "attach1", "inuse", "unlink", "write"}
CreatingMemory ==
  {"anon", "shmget", "probe", "stat2", "attach2", "recycle", "shmat", "addline", "header"}
Recreating == {"re_shmdt", "re_rmid"}
Starting == {p \in Postmasters : pc[p] \in CreatingLockFile \cup CreatingMemory \cup Recreating}

(***************************************************************************)
(* The kernel's part.                                                      *)
(***************************************************************************)

\* A segment marked with IPC_RMID goes when its last process detaches.
Reap(s) == [i \in {j \in DOMAIN s : ~ (s[j].destroyed /\ s[j].attached = {})} |-> s[i]]

Attach(s, i, q) == [s EXCEPT ![i].attached = @ \cup {q}]
Detach(s, i, q) == IF i \in DOMAIN s THEN Reap([s EXCEPT ![i].attached = @ \ {q}]) ELSE s
DetachAll(s, Q) == Reap([i \in DOMAIN s |-> [s[i] EXCEPT !.attached = @ \ Q]])

\* IPC_RMID also takes the segment's key away.
Rmid(s, i) == IF i \in DOMAIN s THEN Reap([s EXCEPT ![i].destroyed = TRUE]) ELSE s

WithKey(k) == {i \in DOMAIN segs : segs[i].key = k /\ ~ segs[i].destroyed}

\* A host after a boot: with no lock file, or the one of a server that ran
\* before, whose segment is gone; its id may by accident be that of a segment of
\* another program.
Init ==
  /\ lock \in {NoFile} \cup {[by |-> p, pid |-> p, shm |-> i] :
                             p \in Postmasters, i \in 0 .. Foreign + 1}
  /\ starts = 0 /\ upset = {} /\ fresh = {}
  /\ segs = [i \in 2 .. Foreign + 1 |-> [key |-> i - 2, header |-> "foreign",
                                         attached |-> {"foreign"}, destroyed |-> FALSE]]
  /\ nextId = Foreign + 2
  /\ pc = [p \in Postmasters |-> "dead"]
  /\ seen = [p \in Postmasters |-> NoFile]
  /\ key = [p \in Postmasters |-> 0]
  /\ id = [p \in Postmasters |-> 0]
  /\ nattch = [p \in Postmasters |-> 0]
  /\ state = [p \in Postmasters |-> "none"]
  /\ own = [p \in Postmasters |-> 0]
  /\ owns = [p \in Postmasters |-> FALSE]
  /\ mem = [p \in Postmasters |-> "none"]
  /\ be = [b \in Backends |-> 0]

Goto(p, l) == pc' = [pc EXCEPT ![p] = l]
At(p, l) == pc[p] = l

\* The locals of a process that has left the code that uses them.
Forget(p) ==
  /\ seen' = [seen EXCEPT ![p] = NoFile]
  /\ key' = [key EXCEPT ![p] = 0]
  /\ id' = [id EXCEPT ![p] = 0]
  /\ nattch' = [nattch EXCEPT ![p] = 0]
  /\ state' = [state EXCEPT ![p] = "none"]

\* Whoever has read the file before it changed has not read it as it is.
Outdate == fresh' = IF lock' = lock THEN fresh ELSE {}

(***************************************************************************)
(* CreateLockFile.                                                         *)
(***************************************************************************)

Start(p) ==
  /\ At(p, "dead")
  /\ Cardinality(Starting) < MaxStarting /\ starts < MaxStarts
  /\ starts' = starts + 1
  /\ upset' = IF Starting = {} THEN upset ELSE upset \cup {"overlap"}
  /\ Goto(p, "open")
  /\ UNCHANGED <<lock, segs, nextId, fresh, probe, own, owns, mem, be>>

\* open(O_CREAT | O_EXCL).
Open(p) ==
  /\ At(p, "open")
  /\ IF lock = NoFile
     THEN lock' = [NoFile EXCEPT !.by = p] /\ Goto(p, "write")
     ELSE lock' = lock /\ Goto(p, "read")
  /\ Outdate
  /\ UNCHANGED <<segs, nextId, starts, upset, probe, own, owns, mem, be>>

\* The file may be gone again; an empty one, or one without a PID, is FATAL.
ReadFile(p) ==
  /\ At(p, "read")
  /\ IF lock = NoFile
     THEN Goto(p, "open") /\ UNCHANGED <<seen, fresh>>
     ELSE /\ Goto(p, IF lock.pid = None THEN "shmdt" ELSE "kill")
          /\ seen' = [seen EXCEPT ![p] = lock]
          /\ fresh' = fresh \cup {p}
  /\ UNCHANGED <<lock, segs, nextId, starts, upset, key, id, nattch, state, own, owns, mem, be>>

\* Mutant: trusts the PID alone.
TestOwnerByPidOnly(p) ==
  /\ At(p, "kill")
  /\ Goto(p, IF seen[p].pid # p /\ Alive(seen[p].pid) THEN "shmdt" ELSE "unlink")
  /\ UNCHANGED <<lock, segs, nextId, past, probe, own, owns, mem, be>>

\* kill(other_pid, 0): FATAL when the owner is alive.  The own PID is a stale one.
TestOwner(p) ==
  LET other == seen[p].pid IN
  /\ At(p, "kill")
  /\ Goto(p, IF other # p /\ Alive(other) THEN "shmdt"
             ELSE IF seen[p].shm # 0 THEN "stat1" ELSE "unlink")
  /\ id' = [id EXCEPT ![p] = seen[p].shm]
  /\ UNCHANGED <<lock, segs, nextId, past, seen, key, nattch, state, own, owns, mem, be>>

\* unlink by name, whatever file has the name by now; a missing one is FATAL.
Unlink(p) ==
  /\ At(p, "unlink")
  /\ lock' = NoFile
  /\ Goto(p, IF lock = NoFile THEN "shmdt" ELSE "open")
  /\ upset' = IF lock = NoFile \/ p \in fresh THEN upset ELSE upset \cup {"removal"}
  /\ Outdate
  /\ Forget(p)
  /\ UNCHANGED <<segs, nextId, starts, own, owns, mem, be>>

\* The first five lines go to the file this process made, wherever it is.
WriteFile(p) ==
  /\ At(p, "write")
  /\ \/ /\ lock' = IF lock.by = p THEN [by |-> p, pid |-> p, shm |-> 0] ELSE lock
        /\ owns' = [owns EXCEPT ![p] = TRUE]
        /\ Goto(p, "anon")
     \/ /\ lock' = NoFile         \* write, fsync or close failed
        /\ owns' = owns
        /\ Goto(p, "shmdt")
  /\ Outdate
  /\ UNCHANGED <<segs, nextId, starts, upset, probe, own, mem, be>>

(***************************************************************************)
(* PGSharedMemoryAttach: the count is read before the process attaches.    *)
(* It is used by PGSharedMemoryIsInUse, for the id in the lock file, and   *)
(* by PGSharedMemoryCreate, for the segment that has the key.              *)
(***************************************************************************)

IpcStat(p, here, there, after) ==
  /\ At(p, here)
  /\ IF id[p] \in DOMAIN segs
     THEN /\ nattch' = [nattch EXCEPT ![p] = Cardinality(segs[id[p]].attached)]
          /\ Goto(p, there)
          /\ state' = state
     ELSE /\ state' = [state EXCEPT ![p] = "ENOENT"]
          /\ Goto(p, after)
          /\ nattch' = nattch
  /\ UNCHANGED <<lock, segs, nextId, past, seen, key, id, own, owns, mem, be>>

\* Mutant: forgets that the segment may be in use.
ClassifyByHeader(p) == IF segs[id[p]].header # "ours" THEN "FOREIGN" ELSE "UNATTACHED"

\* magic, device and inode are compared after the attach.
Classify(p) ==
  IF segs[id[p]].header # "ours" THEN "FOREIGN"
  ELSE IF nattch[p] = 0 THEN "UNATTACHED" ELSE "ATTACHED"

Shmat(p, here, after) ==
  /\ At(p, here)
  /\ Goto(p, after)
  /\ IF id[p] \in DOMAIN segs
     THEN segs' = Attach(segs, id[p], p) /\ state' = [state EXCEPT ![p] = Classify(p)]
     ELSE segs' = segs /\ state' = [state EXCEPT ![p] = "ENOENT"]
  /\ UNCHANGED <<lock, nextId, past, seen, key, id, nattch, own, owns, mem, be>>

\* PGSharedMemoryIsInUse detaches first.  FATAL when it is.
IsInUse(p) ==
  /\ At(p, "inuse")
  /\ segs' = Detach(segs, id[p], p)
  /\ Goto(p, IF state[p] = "ATTACHED" THEN "shmdt" ELSE "unlink")
  /\ UNCHANGED <<lock, nextId, past, probe, own, owns, mem, be>>

(***************************************************************************)
(* PGSharedMemoryCreate.                                                   *)
(***************************************************************************)

\* What mmap can return for each setting.  ftruncate may fail for FBMM's file,
\* and its result is not looked at: the mapping has no memory behind it then.
CreateAnonymousSegment ==
  CASE HugePages = "off" -> {"small"}
    [] HugePages = "try" -> {"huge", "small"}
    [] HugePages = "on" -> {"huge"}
    [] HugePages = "fbmm" -> {"fbmm", "hollow"}

MapMemory(p) ==
  /\ At(p, "anon")
  /\ \E m \in CreateAnonymousSegment : mem' = [mem EXCEPT ![p] = m]
  /\ Forget(p)
  /\ Goto(p, "shmget")
  /\ UNCHANGED <<lock, segs, nextId, past, own, owns, be>>

\* InternalIpcMemoryCreate, shmget(IPC_CREAT | IPC_EXCL).
Shmget(p) ==
  /\ At(p, "shmget")
  /\ IF WithKey(key[p]) = {}
     THEN /\ segs' = [i \in DOMAIN segs \cup {nextId} |->
                        IF i = nextId THEN [key |-> key[p], header |-> "zero",
                                            attached |-> {}, destroyed |-> FALSE]
                        ELSE segs[i]]
          /\ own' = [own EXCEPT ![p] = nextId]
          /\ nextId' = nextId + 1
          /\ Goto(p, "shmat")
     ELSE UNCHANGED <<segs, own, nextId>> /\ Goto(p, "probe")
  /\ UNCHANGED <<lock, past, probe, owns, mem, be>>

\* shmget of the key without creating.
Probe(p) ==
  /\ At(p, "probe")
  /\ IF WithKey(key[p]) = {}
     THEN /\ key' = [key EXCEPT ![p] = @ + 1]
          /\ Goto(p, "shmget")
          /\ id' = id
     ELSE /\ \E i \in WithKey(key[p]) : id' = [id EXCEPT ![p] = i]
          /\ Goto(p, "stat2")
          /\ key' = key
  /\ UNCHANGED <<lock, segs, nextId, past, seen, nattch, state, own, owns, mem, be>>

\* Mutant: tries the key of a foreign segment again.
RecycleSameKey(p) ==
  /\ At(p, "recycle")
  /\ Goto(p, IF state[p] = "ATTACHED" THEN "shmdt" ELSE "shmget")
  /\ segs' = CASE state[p] = "UNATTACHED" -> Detach(Rmid(segs, id[p]), id[p], p)
               [] state[p] = "ATTACHED" -> segs
               [] OTHER -> Detach(segs, id[p], p)
  /\ UNCHANGED <<lock, nextId, past, probe, own, owns, mem, be>>

\* The switch on the state, and shmdt at its end.  A segment without processes
\* is removed, and with it the dynamic shared memory its header points to.
Recycle(p) ==
  /\ At(p, "recycle")
  /\ Goto(p, IF state[p] = "ATTACHED" THEN "shmdt" ELSE "shmget")
  /\ key' = [key EXCEPT ![p] =
       IF state[p] = "FOREIGN" \/ (state[p] = "UNATTACHED" /\ id[p] \notin DOMAIN segs)
       THEN @ + 1 ELSE @]
  /\ segs' = CASE state[p] = "UNATTACHED" -> Detach(Rmid(segs, id[p]), id[p], p)
               [] state[p] = "ATTACHED" -> segs
               [] OTHER -> Detach(segs, id[p], p)
  /\ id' = [id EXCEPT ![p] = 0]
  /\ nattch' = [nattch EXCEPT ![p] = 0]
  /\ state' = [state EXCEPT ![p] = "none"]
  /\ UNCHANGED <<lock, nextId, past, seen, own, owns, mem, be>>

\* InternalIpcMemoryCreate attaches what it made ...
AttachOwn(p) ==
  /\ At(p, "shmat")
  /\ IF own[p] \in DOMAIN segs
     THEN segs' = Attach(segs, own[p], p) /\ Goto(p, "addline")
     ELSE segs' = segs /\ Goto(p, "shmdt")
  /\ UNCHANGED <<lock, nextId, past, probe, own, owns, mem, be>>

\* Mutant: adds the line, and does not replace it.
AddLineOnce(p) ==
  /\ At(p, "addline")
  /\ lock' = IF lock = NoFile \/ lock.shm # 0 THEN lock ELSE [lock EXCEPT !.shm = own[p]]
  /\ Goto(p, "header")
  /\ Outdate
  /\ UNCHANGED <<segs, nextId, starts, upset, probe, own, owns, mem, be>>

\* ... and AddToDataDirLockFile puts key and id in whatever file has the name.  When
\* open, read or pwrite fails it logs that and returns: the line is the one that
\* was there, or cut.
AddLine(p) ==
  /\ At(p, "addline")
  /\ \E n \in {own[p], lock.shm, 0} :
       /\ lock' = IF lock = NoFile THEN lock ELSE [lock EXCEPT !.shm = n]
       /\ upset' = IF n = own[p] THEN upset ELSE upset \cup {"unrecorded"}
  /\ Goto(p, "header")
  /\ Outdate
  /\ UNCHANGED <<segs, nextId, starts, probe, own, owns, mem, be>>

\* The end of PGSharedMemoryCreate; the server runs.  The header is copied to
\* AnonymousShmem: without memory behind it that is the end of the process.
Header(p) ==
  /\ At(p, "header") /\ mem[p] # "hollow"
  /\ segs' = [segs EXCEPT ![own[p]].header = "ours"]
  /\ Forget(p)
  /\ Goto(p, "run")
  /\ UNCHANGED <<lock, nextId, past, own, owns, mem, be>>

(***************************************************************************)
(* A server at work.                                                       *)
(***************************************************************************)

Fork(p, b) ==
  /\ At(p, "run") /\ be[b] = 0
  /\ be' = [be EXCEPT ![b] = own[p]]
  /\ segs' = Attach(segs, own[p], b)
  /\ UNCHANGED <<lock, nextId, past, pc, probe, own, owns, mem>>

BackendExit(b) ==
  /\ be[b] # 0
  /\ be' = [be EXCEPT ![b] = 0]
  /\ segs' = DetachAll(segs, {b})
  /\ UNCHANGED <<lock, nextId, past, pc, probe, own, owns, mem>>

NoChildren(p) == \A b \in Backends : be[b] # own[p]

\* After the crash of a backend: the postmaster waits for the others to end,
\* calls shmem_exit and makes new shared memory.
Reinitialize(p) ==
  /\ At(p, "run") /\ NoChildren(p)
  /\ Cardinality(Starting) < MaxStarting /\ starts < MaxStarts
  /\ starts' = starts + 1
  /\ upset' = IF Starting = {} THEN upset ELSE upset \cup {"overlap"}
  /\ Goto(p, "re_shmdt")
  /\ UNCHANGED <<lock, segs, nextId, fresh, probe, own, owns, mem, be>>

Shutdown(p) ==
  /\ At(p, "run")
  /\ Goto(p, "stopping")
  /\ UNCHANGED <<lock, segs, nextId, past, probe, own, owns, mem, be>>

\* Mutant: looks only whether there is a file.
RecheckExists(p) ==
  /\ At(p, "run") /\ lock = NoFile
  /\ Goto(p, "stopping")
  /\ UNCHANGED <<lock, segs, nextId, past, probe, own, owns, mem, be>>

\* RecheckDataDirLockFile, once a minute: an immediate shutdown when the file
\* is gone or has another PID.
Recheck(p) ==
  /\ At(p, "run") /\ lock.pid # p
  /\ Goto(p, "stopping")
  /\ UNCHANGED <<lock, segs, nextId, past, probe, own, owns, mem, be>>

ChildrenGone(p) ==
  /\ At(p, "stopping") /\ NoChildren(p)
  /\ Goto(p, "shmdt")
  /\ UNCHANGED <<lock, segs, nextId, past, probe, own, owns, mem, be>>

\* The on_shmem_exit callbacks: AnonymousShmemDetach, IpcMemoryDetach, ...
ShmemDetach(p) ==
  /\ pc[p] \in {"shmdt", "re_shmdt"}
  /\ segs' = Detach(segs, own[p], p)
  /\ mem' = [mem EXCEPT ![p] = "none"]
  /\ Goto(p, IF At(p, "shmdt") THEN "rmid" ELSE "re_rmid")
  /\ UNCHANGED <<lock, nextId, past, probe, own, owns, be>>

\* ... IpcMemoryDelete.
ShmemDelete(p) ==
  /\ pc[p] \in {"rmid", "re_rmid"}
  /\ segs' = Rmid(segs, own[p])
  /\ own' = [own EXCEPT ![p] = 0]
  /\ Goto(p, IF At(p, "rmid") THEN "exit" ELSE "anon")
  /\ UNCHANGED <<lock, nextId, past, probe, owns, mem, be>>

\* UnlinkLockFiles, by name, and the end of the process.
ProcExit(p) ==
  /\ At(p, "exit")
  /\ lock' = IF owns[p] THEN NoFile ELSE lock
  /\ owns' = [owns EXCEPT ![p] = FALSE]
  /\ segs' = DetachAll(segs, {p})
  /\ Forget(p)
  /\ Goto(p, "dead")
  /\ fresh' = IF lock' = lock THEN fresh \ {p} ELSE {}
  /\ UNCHANGED <<nextId, starts, upset, own, mem, be>>

\* ereport(FATAL) after a failed system call.
Fatal(p) ==
  /\ pc[p] \in CreatingLockFile \cup CreatingMemory
  /\ Goto(p, "shmdt")
  /\ UNCHANGED <<lock, segs, nextId, past, probe, own, owns, mem, be>>

(***************************************************************************)
(* Faults.                                                                 *)
(***************************************************************************)

Dies(Q) ==
  /\ pc' = [p \in Postmasters |-> IF p \in Q THEN "dead" ELSE pc[p]]
  /\ seen' = [p \in Postmasters |-> IF p \in Q THEN NoFile ELSE seen[p]]
  /\ key' = [p \in Postmasters |-> IF p \in Q THEN 0 ELSE key[p]]
  /\ id' = [p \in Postmasters |-> IF p \in Q THEN 0 ELSE id[p]]
  /\ nattch' = [p \in Postmasters |-> IF p \in Q THEN 0 ELSE nattch[p]]
  /\ state' = [p \in Postmasters |-> IF p \in Q THEN "none" ELSE state[p]]
  /\ own' = [p \in Postmasters |-> IF p \in Q THEN 0 ELSE own[p]]
  /\ owns' = [p \in Postmasters |-> p \notin Q /\ owns[p]]
  /\ mem' = [p \in Postmasters |-> IF p \in Q THEN "none" ELSE mem[p]]
  /\ fresh' = fresh \ Q
  /\ UNCHANGED <<lock, starts, upset>>

\* SIGKILL: the children of a running postmaster go on.
Kill(p) == Alive(p) /\ Dies({p}) /\ segs' = DetachAll(segs, {p}) /\ UNCHANGED <<nextId, be>>

\* SIGBUS at the first access to memory that is not there, after magic, device and
\* inode were written to the segment.
SigBus(p) ==
  /\ At(p, "header") /\ mem[p] = "hollow"
  /\ Dies({p}) /\ segs' = DetachAll([segs EXCEPT ![own[p]].header = "ours"], {p})
  /\ UNCHANGED <<nextId, be>>

\* The ids begin again.
Reboot ==
  /\ Dies(Postmasters) /\ be' = [b \in Backends |-> 0]
  /\ segs' = [i \in {} |-> 0] /\ nextId' = 1

ForeignExit ==
  /\ \E i \in DOMAIN segs :
       /\ segs[i].header = "foreign" /\ "foreign" \in segs[i].attached
       /\ segs' = Detach(Rmid(segs, i), i, "foreign")
  /\ UNCHANGED <<lock, nextId, past, pc, probe, own, owns, mem, be>>

RemoveByHand ==
  /\ AdminRemoves /\ lock # NoFile
  /\ "removal" \notin upset /\ \E p \in Postmasters : At(p, "run")
  /\ lock' = NoFile /\ upset' = upset \cup {"removal"} /\ Outdate
  /\ UNCHANGED <<segs, nextId, starts, pc, probe, own, owns, mem, be>>

Steps(p) ==
  \/ Open(p) \/ ReadFile(p) \/ TestOwner(p) \/ Unlink(p) \/ WriteFile(p)
  \/ IpcStat(p, "stat1", "attach1", "inuse") \/ Shmat(p, "attach1", "inuse")
  \/ IsInUse(p) \/ MapMemory(p) \/ Shmget(p) \/ Probe(p)
  \/ IpcStat(p, "stat2", "attach2", "recycle") \/ Shmat(p, "attach2", "recycle")
  \/ Recycle(p) \/ AttachOwn(p) \/ AddLine(p) \/ Header(p) \/ SigBus(p)
  \/ Recheck(p) \/ ChildrenGone(p) \/ ShmemDetach(p) \/ ShmemDelete(p) \/ ProcExit(p)

Next ==
  \/ \E p \in Postmasters :
       \/ Start(p) \/ Steps(p) \/ Reinitialize(p) \/ Shutdown(p) \/ Fatal(p) \/ Kill(p)
       \/ \E b \in Backends : Fork(p, b)
  \/ \E b \in Backends : BackendExit(b)
  \/ Reboot \/ ForeignExit \/ RemoveByHand

Spec == Init /\ [][Next]_vars

\* A stopping server ends its backends, and a backend ends when its postmaster did.
EndChild(b) ==
  /\ \A p \in Postmasters : own[p] = be[b] => pc[p] = "stopping"
  /\ BackendExit(b)

\* A process that runs goes on running.
FairSpec ==
  /\ Spec
  /\ \A p \in Postmasters : WF_vars(Steps(p))
  /\ \A b \in Backends : WF_vars(EndChild(b))

-----------------------------------------------------------------------------
(***************************************************************************)
(* Properties.                                                             *)
(***************************************************************************)

\* The servers that may touch the data directory: those with a postmaster that
\* runs, and those of which only backends are left.
Servers ==
  {own[p] : p \in {q \in Postmasters : pc[q] \in {"run", "stopping"}}}
    \cup {be[b] : b \in {c \in Backends : be[c] # 0}}

\* The lock file alone keeps two postmasters apart, also when they start at the
\* same time, and lock file and segment together let no second server start while
\* a process of the first one is alive, whatever was killed at whatever point
\* (CreateLockFile, PGSharedMemoryIsInUse, PGSharedMemoryCreate).  Two ways lead
\* around both: a start unlinks, by name, another file than the one it has read and
\* found stale, or somebody removes the file.  A segment that AddToDataDirLockFile
\* has failed to record hides the backends that outlive their postmaster.
OneServer ==
  "removal" \notin upset =>
    /\ \A p, q \in Postmasters : {pc[p], pc[q]} \subseteq {"run", "stopping"} => p = q
    /\ "unrecorded" \notin upset => Cardinality(Servers) <= 1

\* PGSharedMemoryCreate removes a segment, and with it the server's dynamic
\* shared memory, only when no process of a server is attached to it, although
\* the count it looks at was read before: not even next to a second server that
\* the removal of the lock file has let in.
RecyclesOnlyDead ==
  "overlap" \notin upset => \A p \in Postmasters :
    At(p, "recycle") /\ state[p] = "UNATTACHED" => id[p] \notin Servers

\* postmaster.pid of a running server has its PID and, unless it could not be
\* recorded, its segment's id, across crashes of backends, after which the segment
\* is another one, and whatever another postmaster tries in the meantime.
LockFileNamesServer ==
  "removal" \notin upset => \A p \in Postmasters :
    At(p, "run") => lock.pid = p /\ ("unrecorded" \notin upset => lock.shm = own[p])

\* The loops of CreateLockFile and PGSharedMemoryCreate end: postmasters that
\* start end up running or gone, also when they start at the same time.
StartupEnds == Starting # {} ~> \A p \in Postmasters : pc[p] \in {"run", "dead"}

\* When two servers run after all, RecheckDataDirLockFile ends that.
RecheckEndsDouble == Cardinality(Servers) > 1 ~> Cardinality(Servers) <= 1
=============================================================================
