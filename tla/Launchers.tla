----------------------------- MODULE Launchers -----------------------------
(***************************************************************************)
(* bmks/fbmm_wrapper.c and bmks/badger-trap.c, the launchers of the        *)
(* repository that the driver puts in front of a workload.  A command line *)
(* is a sequence of launchers; the workload follows it.  fbmm_wrapper      *)
(* becomes what follows it; badger-trap forks, and waits for its child.    *)
(* perf, numactl and cgexec, which are not of the repository, run what     *)
(* follows them and end with it.  Several command lines may be executed at *)
(* a time, each by a shell of its own.                                     *)
(*                                                                         *)
(* Exit statuses are left out: the command line is the first half of a     *)
(* pipeline, of which the shell returns the status of the second.          *)
(***************************************************************************)
EXTENDS Naturals, Sequences

CONSTANT Shell   \* the shells command lines are given to

VARIABLES
  line,   \* the command line each shell executes
  trap    \* is badger trap on for the workload?

Launcher == {"fbmm_wrapper", "badger-trap"}

\* chain: the launchers of the command line; pos: the one whose image the running
\* process has, the next is the workload; at: where it is, "done" when no process
\* of the command line is left; waiting: the badger-traps waiting for it,
\* innermost last; dir: has the process an fbmm_mnt_dir?
NoLine == [chain |-> <<>>, pos |-> 1, at |-> "done", waiting |-> <<>>, dir |-> FALSE]

\* No command line was given yet, in this boot.
Init == line = [s \in Shell |-> NoLine] /\ trap = FALSE

\* The host goes down.
PowerOff == line' = [s \in Shell |-> NoLine] /\ trap' = FALSE

\* The shell s executes the command line c and the workload behind it.
Start(s, c) ==
  /\ line[s].at = "done"
  /\ line' = [line EXCEPT ![s] = [NoLine EXCEPT !.chain = c, !.at = "start"]]
  /\ UNCHANGED trap

Image(l) == IF l.pos <= Len(l.chain) THEN l.chain[l.pos] ELSE "workload"
At(s, image, label) == line[s].at = label /\ Image(line[s]) = image

\* The command line of s comes to be l.
Becomes(s, l) == line' = [line EXCEPT ![s] = l]

\* A process ends: the badger-trap that waits for it goes on, or none is left.
Exited(l) ==
  IF l.waiting = <<>> THEN NoLine
  ELSE [l EXCEPT !.pos = l.waiting[Len(l.waiting)], !.at = "teardown",
                 !.waiting = SubSeq(l.waiting, 1, Len(l.waiting) - 1)]

Exit(s) == Becomes(s, Exited(line[s]))

\* exec of what follows, in the same process.
Exec(s) == Becomes(s, [line[s] EXCEPT !.pos = @ + 1, !.at = "start"])

(***************************************************************************)
(* fbmm_wrapper.                                                           *)
(***************************************************************************)

OpenMntDir(s) ==
  /\ At(s, "fbmm_wrapper", "start")
  /\ Becomes(s, [line[s] EXCEPT !.at = "write"]) \/ Exit(s)
  /\ UNCHANGED trap

\* fprintf and fclose; a failure is not noticed.
WriteMntDir(s) ==
  /\ At(s, "fbmm_wrapper", "write")
  /\ \E d \in {TRUE, line[s].dir} : Becomes(s, [line[s] EXCEPT !.at = "exec", !.dir = d])
  /\ UNCHANGED trap

\* execv; when it returns, so does main.
WrapperExec(s) ==
  /\ At(s, "fbmm_wrapper", "exec")
  /\ Exec(s) \/ Exit(s)
  /\ UNCHANGED trap

(***************************************************************************)
(* badger-trap command.                                                    *)
(***************************************************************************)

TrapOn(s) ==
  /\ At(s, "badger-trap", "start")
  /\ trap' \in {TRUE, trap}
  /\ Becomes(s, [line[s] EXCEPT !.at = "fork"])

Fork(s) ==
  /\ At(s, "badger-trap", "fork")
  /\ \/ Becomes(s, [line[s] EXCEPT !.at = "execvp", !.waiting = Append(@, line[s].pos)])
     \/ Becomes(s, [line[s] EXCEPT !.at = "teardown"])
  /\ UNCHANGED trap

\* The child, which exits when execvp fails.
ChildExec(s) ==
  /\ At(s, "badger-trap", "execvp")
  /\ Exec(s) \/ Exit(s)
  /\ UNCHANGED trap

\* The end of main: a system call with another number than that of badger trap,
\* which leaves the trap as it is.
Teardown(s) ==
  /\ At(s, "badger-trap", "teardown")
  /\ Exit(s)
  /\ UNCHANGED trap

(***************************************************************************)
(* The other launchers, and the workload.                                  *)
(***************************************************************************)

\* perf, numactl, cgexec: what follows is executed, or cannot be.
PassOn(s) ==
  /\ line[s].at = "start" /\ Image(line[s]) \notin Launcher \cup {"workload"}
  /\ Exec(s) \/ Exit(s)
  /\ UNCHANGED trap

End(s) ==
  /\ At(s, "workload", "start")
  /\ Exit(s)
  /\ UNCHANGED trap

Launch(s) ==
  \/ OpenMntDir(s) \/ WriteMntDir(s) \/ WrapperExec(s)
  \/ TrapOn(s) \/ Fork(s) \/ ChildExec(s) \/ Teardown(s)
  \/ PassOn(s) \/ End(s)
=============================================================================
