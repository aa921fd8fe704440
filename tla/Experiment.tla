----------------------------- MODULE Experiment -----------------------------
(***************************************************************************)
(* The driver and the launchers together.  FbmmExp takes the run of a      *)
(* batch workload for one step; here it is the command line the driver     *)
(* gives to the shell of the host, which starts the launchers of the       *)
(* prefix one after the other and then the workload, with `tee' at the end *)
(* of their output.  When the driver is interrupted, or loses its session, *)
(* what it has started goes on; when the host goes down, it is gone.       *)
(***************************************************************************)
EXTENDS FbmmExp

CONSTANT Shell   \* see Launchers

VARIABLES
  mine,        \* the shell that executes the command line of this run
  line, trap   \* see Launchers

L == INSTANCE Launchers

\* The driver has not given it yet.
NoShell == "no shell"

ASSUME ShellAssumption == NoShell \notin Shell

launch == <<line, trap>>
allVars == <<vars, mine, launch>>

ExpInit == Init /\ mine = NoShell /\ L!Init

\* Which of the shells gets the command line makes no difference.
FreeShell == CHOOSE s \in Shell : line[s].at = "done"

\* Mutant: the command is given once more while there is no answer to it.
StartWorkloadAgain ==
  /\ pc = "workload" /\ conn /\ cfg.kind = "batch"
  /\ mine' = FreeShell /\ mine' \in Shell /\ L!Start(mine', prefix)
  /\ UNCHANGED vars

\* run_alloc_test, run_gups, ...: ushell.run sends the command ...
StartWorkload ==
  /\ pc = "workload" /\ conn /\ cfg.kind = "batch" /\ mine = NoShell
  /\ mine' = FreeShell /\ mine' \in Shell /\ L!Start(mine', prefix)
  /\ UNCHANGED vars

\* ... and returns when the pipeline has ended, with the status of `tee',
\* however the launchers and the workload ended.
FinishWorkload ==
  /\ RunWorkload
  /\ cfg.kind = "batch" => mine # NoShell /\ line[mine].at = "done"
  /\ UNCHANGED <<mine, launch>>

ExpStart == Start /\ mine' = NoShell /\ UNCHANGED launch

Driver ==
  \/ StartWorkload \/ FinishWorkload
  \/ (Setup \/ Finish \/ Fail) /\ UNCHANGED <<mine, launch>>

HostDown == (ShutDown \/ Crash) /\ L!PowerOff /\ UNCHANGED mine

OnHost == (\E s \in Shell : L!Launch(s)) /\ UNCHANGED <<vars, mine>>

Rest == (Interrupt \/ BootUp \/ SignalledExit \/ EarlyExit) /\ UNCHANGED <<mine, launch>>

ExpNext == ExpStart \/ Driver \/ HostDown \/ OnHost \/ Rest

ExpSpec == ExpInit /\ [][ExpNext]_allVars

\* As in FbmmExp; and the processes of a command line go on running.
ExpFairSpec ==
  /\ ExpSpec /\ WF_allVars(~ServerAnswers /\ Driver) /\ WF_allVars(OnHost)
  /\ WF_allVars(ShutDown /\ HostDown)
  /\ WF_allVars(BootUp /\ Rest) /\ WF_allVars(SignalledExit /\ Rest)

-----------------------------------------------------------------------------
\* From its reconnection on, nothing that was started from a command line runs
\* on the host but the one command line this run has given and waits for: neither
\* what interrupted runs have left behind, nor a second copy of the workload.
AloneOnHost ==
  conn /\ pc \in AfterBoot =>
    \A s \in Shell : line[s].at # "done" => pc = "workload" /\ s = mine

\* badger-trap does not switch off the trap it has switched on; a run that is
\* not to use it finds it off all the same.
TrapIsOurs == conn /\ pc \in AfterBoot /\ trap => Enabled("badger_trap")

\* A process is given a directory for its memory by fbmm_wrapper only while FBMM
\* is on and its file system mounted.
DirHasMount == \A s \in Shell : line[s].dir => "fbmm" \in env /\ mount # "none"
=============================================================================
