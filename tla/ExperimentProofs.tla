-------------------------- MODULE ExperimentProofs --------------------------
(***************************************************************************)
(* Proofs about the experiment driver, by itself and together with the     *)
(* launchers: what it leaves on the host, and what it has made of the      *)
(* command prefix and of the host by the time the workload runs; for every *)
(* set of accepted configurations, every number of cores and of crashes.   *)
(* The composition implements the driver taken by itself, so that what is  *)
(* proved of that holds of it, and nothing of another run is on the host   *)
(* during a run.                                                           *)
(***************************************************************************)
EXTENDS Experiment, TLAPS


-----------------------------------------------------------------------------
(***************************************************************************)
(* The inductive invariants.                                               *)
(***************************************************************************)

\* Where the driver is tells how far FBMM is set up, as long as its session is
\* one of the current boot.
FbmmSteps ==
  /\ pc \in {"module", "mount", "fs_knobs", "fbmm_on"} => cfg.fbmm # "none"
  /\ pc = "mount" /\ conn => cfg.fbmm \in mods \cup {"ext4"}
  /\ pc \in {"fs_knobs", "fbmm_on"} /\ conn => mount = cfg.fbmm
  /\ FbmmHasMount

\* A command line that carries each option of S once.
Line(S) == [o \in BootOption |-> IF o \in S THEN 1 ELSE 0]
Wanted(c) == MemmapOptions(c) \cup TppOptions(c)

\* What the script has made of the grub files so far.
GrubSteps ==
  /\ pc = "strip_mv" => tmp = NoOptions
  /\ pc = "memmap" => grub = NoOptions
  /\ pc = "memmap_mv" => tmp = Line(MemmapOptions(cfg))
  /\ pc = "tpp" => grub = Line(MemmapOptions(cfg))
  /\ pc = "tpp_mv" => tmp = Line(Wanted(cfg))
  /\ pc = "update_grub" => grub = Line(Wanted(cfg))
  /\ \E c \in Configs : grub \in {NoOptions, Line(MemmapOptions(c)), Line(Wanted(c))}

\* How far the reboot is: from "sleep" on the host is still to go down, or down,
\* or up again with the new options.
BootSteps ==
  /\ pc \in {"reboot", "send_reboot", "sleep", "reconnect"} \cup AfterBoot
       => menu = Line(Wanted(cfg))
  /\ pc = "send_reboot" /\ ~conn => ~up \/ boot = menu
  /\ pc = "sleep" => rebooting \/ ~up \/ boot = menu
  /\ pc = "reconnect" => ~rebooting /\ (~up \/ boot = menu)
  /\ pc \in AfterBoot /\ conn => boot = menu

-----------------------------------------------------------------------------
(***************************************************************************)
(* Type correctness.                                                       *)
(***************************************************************************)

\* What a configuration is made of.
LEMMA OptionsOfConfig ==
  ASSUME NEW c \in Configs
  PROVE  /\ c.opts \subseteq Options /\ c.fbmm \in MMFS \cup {"none"}
         /\ c.dram \in Regions \cup {NoRegion} /\ c.pmem \in Regions \cup {NoRegion}
BY Zenon, ConfigsAssumption DEF Config

\* A run starts with no prefix.
LEMMA EmptyPrefix == <<>> \in Seq(PrefixCommand)
OBVIOUS

\* The blocks of settings: every one of them is an option or a setting.
LEMMA TypeConfigure ==
  TypeOK /\ ( \/ SetUpHost \/ HugePagePool \/ SetThp \/ SetAslr \/ StartDamo
              \/ EnableLockStat \/ SetFsKnobs \/ EnableFbmm \/ SetPolicy ) => TypeOK'
<1> SUFFICES ASSUME TypeOK,
                    \/ SetUpHost \/ HugePagePool \/ SetThp \/ SetAslr \/ StartDamo
                    \/ EnableLockStat \/ SetFsKnobs \/ EnableFbmm \/ SetPolicy
             PROVE  TypeOK'
  BY Zenon
<1>1. cfg.opts \subseteq Options
  BY Zenon, OptionsOfConfig DEF TypeOK
<1>2. env' \subseteq Options \cup Settings /\ pc' \in BeforeBoot \cup AfterBoot
  <2>1. CASE SetUpHost
    BY Zenon, <2>1 DEF SetUpHost, Configure, TypeOK, BeforeBoot, AfterBoot, Settings
  <2>2. CASE HugePagePool
    BY Zenon, <1>1, <2>2 DEF HugePagePool, Configure, TypeOK, BeforeBoot, AfterBoot
  <2>3. CASE SetThp
    BY Zenon, <2>3 DEF SetThp, Configure, TypeOK, BeforeBoot, AfterBoot, Settings
  <2>4. CASE SetAslr
    BY Zenon, <2>4 DEF SetAslr, Configure, TypeOK, BeforeBoot, AfterBoot, Settings
  <2>5. CASE StartDamo
    BY Zenon, <2>5 DEF StartDamo, Configure, TypeOK, BeforeBoot, AfterBoot, Settings
  <2>6. CASE EnableLockStat
    BY Zenon, <1>1, <2>6 DEF EnableLockStat, Configure, TypeOK, BeforeBoot, AfterBoot
  <2>7. CASE SetFsKnobs
    BY Zenon, <1>1, <2>7 DEF SetFsKnobs, FsKnobs, Configure, TypeOK, BeforeBoot, AfterBoot
  <2>8. CASE EnableFbmm
    BY Zenon, <2>8 DEF EnableFbmm, Configure, TypeOK, BeforeBoot, AfterBoot, Settings
  <2>9. CASE SetPolicy
    BY Zenon, <1>1, <2>9 DEF SetPolicy, PolicyKnobs, Configure, TypeOK, BeforeBoot, AfterBoot,
       Settings
  <2> QED
    BY Zenon, <2>1, <2>2, <2>3, <2>4, <2>5, <2>6, <2>7, <2>8, <2>9
<1>3. UNCHANGED <<cfg, prefix, files, conn, disk, up, rebooting, boot, mods,
                  mount, procs, signalled, crashes>>
  BY Zenon DEF SetUpHost, HugePagePool, SetThp, SetAslr, StartDamo, EnableLockStat,
         SetFsKnobs, EnableFbmm, SetPolicy, Configure
<1> QED
  BY Zenon, <1>2, <1>3 DEF TypeOK, disk

\* The steps that change only the prefix, or only where the driver is.
LEMMA TypePrefix ==
  TypeOK /\ ( \/ PerfPrefix \/ NumactlPrefix \/ CgexecPrefix \/ WrapperPrefix
              \/ BadgerTrapPrefix \/ Sleep \/ PinCores \/ AwaitServerExit
              \/ Fail \/ Interrupt ) => TypeOK'
<1> SUFFICES ASSUME TypeOK,
                    \/ PerfPrefix \/ NumactlPrefix \/ CgexecPrefix \/ WrapperPrefix
                    \/ BadgerTrapPrefix \/ Sleep \/ PinCores \/ AwaitServerExit
                    \/ Fail \/ Interrupt
             PROVE  TypeOK'
  BY Zenon
<1>1. <<>> \in Seq(PrefixCommand) /\ \A w \in PrefixCommand : <<w>> \in Seq(PrefixCommand)
  OBVIOUS
<1>2. \A s, t \in Seq(PrefixCommand) : s \o t \in Seq(PrefixCommand)
  OBVIOUS
<1>3. prefix \in Seq(PrefixCommand)
  BY Zenon DEF TypeOK
<1>4. pc' \in BeforeBoot \cup AfterBoot /\ prefix' \in Seq(PrefixCommand)
  <2>1. CASE PerfPrefix
    BY Zenon, <1>1, <1>2, <1>3, <2>1 DEF PerfPrefix, Push, Enabled, If, PrefixCommand, AfterBoot
  <2>2. CASE NumactlPrefix
    BY Zenon, <1>1, <1>2, <1>3, <2>2 DEF NumactlPrefix, Push, Enabled, If, PrefixCommand, AfterBoot
  <2>3. CASE CgexecPrefix
    BY Zenon, <1>1, <1>2, <1>3, <2>3 DEF CgexecPrefix, Push, Enabled, If, PrefixCommand, AfterBoot
  <2>4. CASE WrapperPrefix
    BY Zenon, <1>1, <1>2, <1>3, <2>4 DEF WrapperPrefix, Push, Skip, Enabled, If, PrefixCommand,
       AfterBoot
  <2>5. CASE BadgerTrapPrefix
    BY Zenon, <1>1, <1>2, <1>3, <2>5 DEF BadgerTrapPrefix, Push, Enabled, If, PrefixCommand,
       AfterBoot
  <2>6. CASE Sleep \/ PinCores \/ AwaitServerExit \/ Fail \/ Interrupt
    BY Zenon, <1>3, <2>6 DEF Sleep, Skip, PinCores, AwaitServerExit, Fail, Interrupt,
                     BeforeBoot, AfterBoot
  <2> QED
    BY Zenon, <2>1, <2>2, <2>3, <2>4, <2>5, <2>6
<1>5. UNCHANGED <<cfg, files, conn, disk, kernel>>
  BY Zenon DEF PerfPrefix, NumactlPrefix, CgexecPrefix, WrapperPrefix, BadgerTrapPrefix,
         Push, Sleep, Skip, PinCores, AwaitServerExit, Fail, Interrupt
<1> QED
  BY Zenon, <1>4, <1>5 DEF TypeOK, disk, kernel

\* The steps on the grub files and the sessions.
LEMMA TypeBoot ==
  TypeOK /\ ( \/ Start \/ Connect \/ StripOptions \/ MoveGrub("strip_mv", "memmap")
              \/ ReserveRegions \/ MoveGrub("memmap_mv", "tpp") \/ RestrictCpus
              \/ MoveGrub("tpp_mv", "update_grub") \/ UpdateGrub \/ OpenSession
              \/ SendReboot \/ Reconnect ) => TypeOK'
<1> SUFFICES ASSUME TypeOK,
                    \/ Start \/ Connect \/ StripOptions \/ MoveGrub("strip_mv", "memmap")
                    \/ ReserveRegions \/ MoveGrub("memmap_mv", "tpp") \/ RestrictCpus
                    \/ MoveGrub("tpp_mv", "update_grub") \/ UpdateGrub \/ OpenSession
                    \/ SendReboot \/ Reconnect
             PROVE  TypeOK'
  BY Zenon
<1>1. NoOptions \in [BootOption -> Nat]
  BY Zenon DEF NoOptions
<1>2. ASSUME NEW S PROVE AddOptions(grub, S) \in [BootOption -> Nat]
  BY DEF AddOptions, TypeOK
<1>3. CASE Start
  BY Zenon, <1>3, EmptyPrefix DEF Start, TypeOK, disk, kernel, BeforeBoot
<1>4. CASE Connect \/ OpenSession \/ Reconnect
  BY Zenon, <1>4 DEF Connect, OpenSession, Reconnect, TypeOK, disk, kernel, BeforeBoot, AfterBoot
<1>5. CASE StripOptions
  BY Zenon, <1>1, <1>5 DEF StripOptions, Command, TypeOK, kernel, BeforeBoot
<1>6. CASE \/ MoveGrub("strip_mv", "memmap") \/ MoveGrub("memmap_mv", "tpp")
           \/ MoveGrub("tpp_mv", "update_grub") \/ UpdateGrub
  BY Zenon, <1>6 DEF MoveGrub, UpdateGrub, Command, TypeOK, kernel, BeforeBoot
<1>7. CASE ReserveRegions
  BY Zenon, <1>2, <1>7 DEF ReserveRegions, AppendOptions, Skip, Command, TypeOK, disk, kernel,
     BeforeBoot
<1>8. CASE RestrictCpus
  BY Zenon, <1>2, <1>8 DEF RestrictCpus, AppendOptions, Skip, Command, TypeOK, disk, kernel,
     BeforeBoot
<1>9. CASE SendReboot
  BY Zenon, <1>9 DEF SendReboot, TypeOK, disk, BeforeBoot
<1> QED
  BY Zenon, <1>3, <1>4, <1>5, <1>6, <1>7, <1>8, <1>9

\* The steps on result files, modules, the mount and processes.
LEMMA TypeMeasure ==
  TypeOK /\ FbmmSteps /\
            ( \/ WriteParams \/ SpawnCollectors \/ PrepareFs \/ MountFs
              \/ SpawnTracker("mmap_tracker", "load", "mmap_tracker") \/ LoadServer
              \/ SpawnTracker("fault_tracker", "workload", "mm_fault_tracker")
              \/ RunWorkload \/ Signal("stop_server", "await_server", "server")
              \/ RecordStats
              \/ StopTracker("kill_fault", "join_fault", "kill_mmap", "mm_fault_tracker")
              \/ JoinTracker("join_fault", "kill_mmap", "mm_fault_tracker")
              \/ StopTracker("kill_mmap", "join_mmap", "timings", "mmap_tracker")
              \/ JoinTracker("join_mmap", "timings", "mmap_tracker")
              \/ WriteTimings ) => TypeOK'
<1>1. TypeOK /\ WriteParams => TypeOK'
  BY Zenon DEF WriteParams, Command, TypeOK, disk, kernel, AfterBoot
<1>2. TypeOK /\ SpawnCollectors => TypeOK'
  BY Zenon DEF SpawnCollectors, TypeOK, disk, BeforeBoot, AfterBoot
<1>3. TypeOK /\ FbmmSteps /\ PrepareFs => TypeOK'
  <2> SUFFICES ASSUME TypeOK, FbmmSteps, PrepareFs PROVE TypeOK'
    BY Zenon
  <2>1. cfg.opts \subseteq Options /\ cfg.fbmm \in MMFS
    BY Zenon, OptionsOfConfig DEF TypeOK, FbmmSteps, PrepareFs, Command
  <2>2. env' \subseteq Options \cup Settings
    BY Zenon, <2>1 DEF PrepareFs, TypeOK
  <2>3. mods' \subseteq MMFS
    BY Zenon, <2>1 DEF PrepareFs, TypeOK
  <2> QED
    BY Zenon, <2>2, <2>3 DEF PrepareFs, Command, TypeOK, disk, AfterBoot
<1>4. TypeOK /\ MountFs => TypeOK'
  BY Zenon, OptionsOfConfig DEF MountFs, Command, TypeOK, disk, AfterBoot
<1>5. TypeOK /\ SpawnTracker("mmap_tracker", "load", "mmap_tracker") => TypeOK'
  BY Zenon DEF SpawnTracker, Spawn, Skip, Command, TypeOK, disk, kernel, AfterBoot, Tracker
<1>6. TypeOK /\ LoadServer => TypeOK'
  BY Zenon DEF LoadServer, Spawn, Skip, Command, TypeOK, disk, kernel, AfterBoot
<1>7. TypeOK /\ SpawnTracker("fault_tracker", "workload", "mm_fault_tracker") => TypeOK'
  BY Zenon DEF SpawnTracker, Spawn, Skip, Command, TypeOK, disk, kernel, AfterBoot, Tracker
<1>8. TypeOK /\ (RunWorkload \/ RecordStats \/ WriteTimings) => TypeOK'
  BY Zenon DEF RunWorkload, RecordStats, WriteTimings, Command, TypeOK, disk, kernel, AfterBoot
<1>9. TypeOK /\ Signal("stop_server", "await_server", "server") => TypeOK'
  BY Zenon DEF Signal, Command, TypeOK, disk, AfterBoot
<1>10. TypeOK /\ StopTracker("kill_fault", "join_fault", "kill_mmap", "mm_fault_tracker") => TypeOK'
  BY Zenon DEF StopTracker, Signal, Skip, Command, TypeOK, disk, kernel, AfterBoot
<1>11. TypeOK /\ StopTracker("kill_mmap", "join_mmap", "timings", "mmap_tracker") => TypeOK'
  BY Zenon DEF StopTracker, Signal, Skip, Command, TypeOK, disk, kernel, AfterBoot
<1>12. TypeOK /\ ( \/ JoinTracker("join_fault", "kill_mmap", "mm_fault_tracker")
                   \/ JoinTracker("join_mmap", "timings", "mmap_tracker") ) => TypeOK'
  BY Zenon DEF JoinTracker, Command, TypeOK, disk, kernel, AfterBoot
<1> QED
  BY Zenon, <1>1, <1>2, <1>3, <1>4, <1>5, <1>6, <1>7, <1>8, <1>9, <1>10, <1>11, <1>12

\* The host keeps the types, however it goes down and comes up.
LEMMA TypeHost == TypeOK /\ Host => TypeOK'
<1>1. TypeOK /\ (ShutDown \/ Crash) => TypeOK'
  <2>1. TypeOK /\ (ShutDown \/ Crash) => crashes' \in 0..MaxCrashes
    BY BoundsAssumption DEF ShutDown, Crash, TypeOK
  <2>2. ShutDown \/ Crash => PowerOff
    BY Zenon DEF ShutDown, Crash
  <2> QED
    BY Zenon, <2>1, <2>2 DEF PowerOff, TypeOK, disk
<1>2. TypeOK /\ BootUp => TypeOK'
  BY Zenon DEF BootUp, TypeOK, driver, disk
<1>3. TypeOK /\ (SignalledExit \/ EarlyExit) => TypeOK'
  BY Zenon DEF SignalledExit, EarlyExit, Exit, TypeOK, driver, disk
<1> QED
  BY Zenon, <1>1, <1>2, <1>3 DEF Host

\* Every step keeps the types.
LEMMA TypeNext == TypeOK /\ FbmmSteps /\ [Next]_vars => TypeOK'
<1>1. TypeOK /\ UNCHANGED vars => TypeOK'
  BY Zenon DEF vars, driver, disk, kernel, TypeOK
<1> QED
  BY Zenon, <1>1, TypeConfigure, TypePrefix, TypeBoot, TypeMeasure, TypeHost DEF Next, Script, Setup,
     Finish

-----------------------------------------------------------------------------
(***************************************************************************)
(* FBMM and its mount.                                                     *)
(***************************************************************************)

\* A block of settings leaves module and mount alone, and switches FBMM on only
\* if that is one of them.
LEMMA ConfigureFrame ==
  ASSUME NEW from, NEW to, NEW Old, NEW S, Configure(from, to, Old, S)
  PROVE  /\ pc = from /\ pc' \in {to, "Err"}
         /\ UNCHANGED <<cfg, conn, mods, mount>>
         /\ "fbmm" \in env' => "fbmm" \in env \cup S
BY Zenon DEF Configure

\* The steps that set FBMM up: each relies on what the one before it made, and
\* on the session, which a crash of the host takes away.
LEMMA FbmmStepsSetUp ==
  FbmmSteps /\ ( \/ WrapperPrefix \/ PrepareFs \/ MountFs \/ SetFsKnobs \/ EnableFbmm )
    => FbmmSteps'
<1>1. FbmmSteps /\ WrapperPrefix => FbmmSteps'
  BY DEF FbmmSteps, FbmmHasMount, WrapperPrefix, Skip, Push, kernel
<1>2. FbmmSteps /\ PrepareFs => FbmmSteps'
  BY Zenon DEF FbmmSteps, FbmmHasMount, PrepareFs, Command
<1>3. FbmmSteps /\ MountFs => FbmmSteps'
  BY Zenon DEF FbmmSteps, FbmmHasMount, MountFs, Command
<1>4. FbmmSteps /\ SetFsKnobs => FbmmSteps'
  <2> SUFFICES ASSUME FbmmSteps, SetFsKnobs PROVE FbmmSteps'
    BY Zenon
  <2>1. "fbmm" \notin FsKnobs(cfg)
    BY Zenon DEF FsKnobs
  <2>2. /\ pc = "fs_knobs" /\ pc' \in {"fbmm_on", "Err"}
        /\ UNCHANGED <<cfg, conn, mods, mount>>
        /\ "fbmm" \in env' => "fbmm" \in env
    BY Zenon, <2>1, ConfigureFrame DEF SetFsKnobs
  <2> QED
    BY Zenon, <2>2 DEF FbmmSteps, FbmmHasMount
<1>5. FbmmSteps /\ EnableFbmm => FbmmSteps'
  <2> SUFFICES ASSUME FbmmSteps, EnableFbmm PROVE FbmmSteps'
    BY Zenon
  <2>1. /\ pc = "fbmm_on" /\ pc' \in {"policy", "Err"} /\ conn
        /\ UNCHANGED <<cfg, conn, mods, mount>>
    BY Zenon, ConfigureFrame DEF EnableFbmm, Configure
  <2> QED
    BY Zenon, <2>1 DEF FbmmSteps, FbmmHasMount
<1> QED
  BY Zenon, <1>1, <1>2, <1>3, <1>4, <1>5

\* No other setting switches FBMM on.
LEMMA FbmmStepsConfigure ==
  FbmmSteps /\ ( \/ SetUpHost \/ HugePagePool \/ SetThp \/ SetAslr \/ StartDamo
                \/ EnableLockStat \/ SetPolicy ) => FbmmSteps'
<1> DEFINE Kept == /\ pc' \notin {"module", "mount", "fs_knobs", "fbmm_on"}
                   /\ UNCHANGED <<mods, mount>>
                   /\ "fbmm" \in env' => "fbmm" \in env
<1>1. SetUpHost \/ HugePagePool => Kept
  BY ConfigureFrame DEF SetUpHost, HugePagePool
<1>2. SetThp \/ SetAslr => Kept
  BY ConfigureFrame DEF SetThp, SetAslr
<1>3. StartDamo \/ EnableLockStat => Kept
  BY ConfigureFrame DEF StartDamo, EnableLockStat
<1>4. SetPolicy => Kept
  <2>1. "fbmm" \notin PolicyKnobs(cfg)
    BY Zenon DEF PolicyKnobs, NumaKnobs, FbmmKnobs
  <2> QED
    BY <2>1, ConfigureFrame DEF SetPolicy
<1>5. FbmmSteps /\ Kept => FbmmSteps'
  BY Zenon DEF FbmmSteps, FbmmHasMount
<1> QED
  BY Zenon, <1>1, <1>2, <1>3, <1>4, <1>5

\* The rest of the script leaves the mount alone and is at none of these steps.
LEMMA FbmmStepsFrame ==
  ASSUME FbmmSteps, UNCHANGED <<env, mods, mount>>,
         pc' \notin {"module", "mount", "fs_knobs", "fbmm_on"}
  PROVE  FbmmSteps'
BY Zenon DEF FbmmSteps, FbmmHasMount

\* The steps to FBMM are inductive.
LEMMA FbmmStepsNext == FbmmSteps /\ [Next]_vars => FbmmSteps'
<1> SUFFICES ASSUME FbmmSteps, [Next]_vars PROVE FbmmSteps'
  BY Zenon
<1> DEFINE Quiet == /\ UNCHANGED <<env, mods, mount>>
                    /\ pc' \notin {"module", "mount", "fs_knobs", "fbmm_on"}
<1>1. Start \/ Connect \/ OpenSession \/ SendReboot \/ Sleep \/ Reconnect => Quiet
  BY Zenon DEF Start, Connect, OpenSession, SendReboot, Sleep, Reconnect, Skip, kernel
<1>2. ( \/ StripOptions \/ MoveGrub("strip_mv", "memmap") \/ ReserveRegions
        \/ MoveGrub("memmap_mv", "tpp") \/ RestrictCpus
        \/ MoveGrub("tpp_mv", "update_grub") \/ UpdateGrub ) => Quiet
  BY Zenon DEF StripOptions, MoveGrub, ReserveRegions, RestrictCpus, AppendOptions, UpdateGrub,
         Command, Skip, kernel
<1>3. ( \/ WriteParams \/ PinCores \/ PerfPrefix \/ SpawnCollectors \/ NumactlPrefix
        \/ CgexecPrefix \/ BadgerTrapPrefix ) => Quiet
  BY Zenon DEF WriteParams, PinCores, PerfPrefix, SpawnCollectors, NumactlPrefix, CgexecPrefix,
         BadgerTrapPrefix, Command, Push, kernel
<1>4. ( \/ SpawnTracker("mmap_tracker", "load", "mmap_tracker") \/ LoadServer
        \/ SpawnTracker("fault_tracker", "workload", "mm_fault_tracker")
        \/ RunWorkload \/ Signal("stop_server", "await_server", "server") ) => Quiet
  BY Zenon DEF SpawnTracker, Spawn, LoadServer, RunWorkload, Signal, Command, Skip, kernel
<1>5. ( \/ AwaitServerExit \/ RecordStats \/ WriteTimings
        \/ StopTracker("kill_fault", "join_fault", "kill_mmap", "mm_fault_tracker")
        \/ JoinTracker("join_fault", "kill_mmap", "mm_fault_tracker")
        \/ StopTracker("kill_mmap", "join_mmap", "timings", "mmap_tracker")
        \/ JoinTracker("join_mmap", "timings", "mmap_tracker")
        \/ Fail \/ Interrupt ) => Quiet
  BY Zenon DEF AwaitServerExit, RecordStats, WriteTimings, StopTracker, Signal, JoinTracker,
         Fail, Interrupt, Command, Skip, kernel
<1>6. Quiet => FbmmSteps'
  BY Zenon, FbmmStepsFrame
<1>7. ShutDown \/ Crash => FbmmSteps'
  BY Zenon DEF ShutDown, Crash, PowerOff, FbmmSteps, FbmmHasMount
<1>8. BootUp \/ SignalledExit \/ EarlyExit => FbmmSteps'
  BY DEF BootUp, SignalledExit, EarlyExit, Exit, driver, FbmmSteps, FbmmHasMount
<1>9. UNCHANGED vars => FbmmSteps'
  <2>1. UNCHANGED vars => UNCHANGED <<pc, cfg, conn, env, mods, mount>>
    BY Zenon DEF vars, driver, kernel
  <2> QED
    BY <2>1 DEF FbmmSteps, FbmmHasMount
<1> QED
  BY Zenon, <1>1, <1>2, <1>3, <1>4, <1>5, <1>6, <1>7, <1>8, <1>9, FbmmStepsSetUp,
     FbmmStepsConfigure DEF Next, Script, Setup, Finish, Host

\* A host no experiment ran on yet.
LEMMA InitTypeAndFbmm == Init => TypeOK /\ FbmmSteps
<1>1. 0 \in 0..MaxCrashes /\ NoOptions \in [BootOption -> Nat]
  BY BoundsAssumption DEF NoOptions
<1>2. Init => TypeOK
  BY Zenon, <1>1, EmptyPrefix DEF Init, TypeOK, BeforeBoot
<1>3. Init => FbmmSteps
  BY Zenon DEF Init, FbmmSteps, FbmmHasMount
<1> QED
  BY Zenon, <1>2, <1>3

\* Every variable of the driver and of the host keeps its type.  The set of
\* loaded modules does only because the script loads one when FBMM is asked for.
THEOREM TypeCorrect == Spec => []TypeOK
BY InitTypeAndFbmm, TypeNext, FbmmStepsNext, PTL DEF Spec

\* FBMM is never on without its mount, nor mounted without its module, however
\* many runs fail or are interrupted and however often the host crashes.
THEOREM FbmmMountCorrect == Spec => []FbmmHasMount
<1>1. FbmmSteps => FbmmHasMount
  BY Zenon DEF FbmmSteps
<1> QED
  BY <1>1, InitTypeAndFbmm, FbmmStepsNext, PTL DEF Spec

-----------------------------------------------------------------------------
(***************************************************************************)
(* The boot options.                                                       *)
(***************************************************************************)

\* The part of the script that runs in the new boot.
Late ==
  \/ SetUpHost \/ HugePagePool \/ WriteParams \/ SetThp \/ SetAslr \/ PinCores
  \/ PerfPrefix \/ SpawnCollectors \/ NumactlPrefix \/ StartDamo \/ CgexecPrefix
  \/ EnableLockStat \/ WrapperPrefix \/ PrepareFs \/ MountFs \/ SetFsKnobs
  \/ EnableFbmm \/ SetPolicy \/ BadgerTrapPrefix
  \/ SpawnTracker("mmap_tracker", "load", "mmap_tracker")
  \/ LoadServer
  \/ SpawnTracker("fault_tracker", "workload", "mm_fault_tracker")
  \/ RunWorkload
  \/ Signal("stop_server", "await_server", "server") \/ AwaitServerExit
  \/ RecordStats
  \/ StopTracker("kill_fault", "join_fault", "kill_mmap", "mm_fault_tracker")
  \/ JoinTracker("join_fault", "kill_mmap", "mm_fault_tracker")
  \/ StopTracker("kill_mmap", "join_mmap", "timings", "mmap_tracker")
  \/ JoinTracker("join_mmap", "timings", "mmap_tracker")
  \/ WriteTimings

\* It never touches the grub files, the session or the boot, nor goes back.
LEMMA LateFrame ==
  Late => /\ pc \in AfterBoot /\ pc' \in AfterBoot \cup {"Err"}
          /\ UNCHANGED <<cfg, conn, grub, tmp, menu, up, rebooting, boot>>
<1> DEFINE Frame == /\ pc \in AfterBoot /\ pc' \in AfterBoot \cup {"Err"}
                    /\ UNCHANGED <<cfg, conn, grub, tmp, menu, up, rebooting, boot>>
<1>1. ( \/ SetUpHost \/ HugePagePool \/ SetThp \/ SetAslr \/ StartDamo
        \/ EnableLockStat \/ SetFsKnobs \/ EnableFbmm \/ SetPolicy ) => Frame
  BY Zenon DEF SetUpHost, HugePagePool, SetThp, SetAslr, StartDamo, EnableLockStat, SetFsKnobs,
         EnableFbmm, SetPolicy, Configure, disk, AfterBoot
<1>2. ( \/ WriteParams \/ PinCores \/ PerfPrefix \/ SpawnCollectors \/ NumactlPrefix
        \/ CgexecPrefix \/ BadgerTrapPrefix \/ WrapperPrefix ) => Frame
  BY ZenonT(30) DEF WriteParams, PinCores, PerfPrefix, SpawnCollectors, NumactlPrefix, CgexecPrefix,
         BadgerTrapPrefix, WrapperPrefix, Command, Skip, Push, disk, kernel, AfterBoot
<1>3. ( \/ PrepareFs \/ MountFs
        \/ SpawnTracker("mmap_tracker", "load", "mmap_tracker") \/ LoadServer
        \/ SpawnTracker("fault_tracker", "workload", "mm_fault_tracker")
        \/ RunWorkload \/ Signal("stop_server", "await_server", "server") ) => Frame
  BY Zenon DEF PrepareFs, MountFs, SpawnTracker, Spawn, LoadServer, RunWorkload, Signal, Command,
         Skip, disk, kernel, AfterBoot
<1>4. ( \/ AwaitServerExit \/ RecordStats \/ WriteTimings
        \/ StopTracker("kill_fault", "join_fault", "kill_mmap", "mm_fault_tracker")
        \/ JoinTracker("join_fault", "kill_mmap", "mm_fault_tracker")
        \/ StopTracker("kill_mmap", "join_mmap", "timings", "mmap_tracker")
        \/ JoinTracker("join_mmap", "timings", "mmap_tracker") ) => Frame
  BY Zenon DEF AwaitServerExit, RecordStats, WriteTimings, StopTracker, Signal, JoinTracker,
         Command, Skip, disk, kernel, AfterBoot
<1> QED
  BY Zenon, <1>1, <1>2, <1>3, <1>4 DEF Late

\* The command lines the seds make for a configuration.
LEMMA LinesOfConfig ==
  ASSUME NEW c \in Configs
  PROVE  /\ Line({}) = NoOptions
         /\ c.dram = NoRegion => MemmapOptions(c) = {}
         /\ "tpp" \notin c.opts => Wanted(c) = MemmapOptions(c)
         /\ AddOptions(NoOptions, MemmapOptions(c)) = Line(MemmapOptions(c))
         /\ AddOptions(Line(MemmapOptions(c)), TppOptions(c)) = Line(Wanted(c))
<1>1. MemmapOptions(c) \cap TppOptions(c) = {}
  BY Zenon, OptionsOfConfig, BoundsAssumption DEF MemmapOptions, TppOptions
<1>2. AddOptions(NoOptions, MemmapOptions(c)) = Line(MemmapOptions(c))
  BY DEF AddOptions, NoOptions, Line
<1>3. AddOptions(Line(MemmapOptions(c)), TppOptions(c)) = Line(Wanted(c))
  BY <1>1 DEF AddOptions, Line, Wanted
<1>4. /\ Line({}) = NoOptions
      /\ c.dram = NoRegion => MemmapOptions(c) = {}
      /\ "tpp" \notin c.opts => Wanted(c) = MemmapOptions(c)
  BY Zenon DEF Line, NoOptions, Wanted, TppOptions, MemmapOptions
<1> QED
  BY Zenon, <1>2, <1>3, <1>4

\* The seds and moves build the line of the configuration, whatever an earlier
\* run left in either file.
LEMMA GrubStepsNext == TypeOK /\ GrubSteps /\ [Next]_vars => GrubSteps'
<1> SUFFICES ASSUME TypeOK, GrubSteps, [Next]_vars PROVE GrubSteps'
  BY Zenon
<1>0. cfg \in Configs
  BY Zenon DEF TypeOK
<1>1. StripOptions => GrubSteps'
  BY Zenon DEF StripOptions, Command, GrubSteps
<1>2. MoveGrub("strip_mv", "memmap") => GrubSteps'
  BY Zenon, <1>0 DEF MoveGrub, Command, GrubSteps
<1>3. ReserveRegions => GrubSteps'
  BY Zenon, <1>0, LinesOfConfig DEF ReserveRegions, AppendOptions, Command, Skip, disk, GrubSteps
<1>4. MoveGrub("memmap_mv", "tpp") => GrubSteps'
  BY Zenon, <1>0 DEF MoveGrub, Command, GrubSteps
<1>5. RestrictCpus => GrubSteps'
  BY Zenon, <1>0, LinesOfConfig DEF RestrictCpus, Enabled, AppendOptions, Command, Skip, disk, GrubSteps
<1>6. MoveGrub("tpp_mv", "update_grub") => GrubSteps'
  BY Zenon, <1>0 DEF MoveGrub, Command, GrubSteps
<1>7. UpdateGrub \/ OpenSession \/ SendReboot \/ Sleep \/ Reconnect => GrubSteps'
  BY Zenon DEF UpdateGrub, OpenSession, SendReboot, Sleep, Reconnect, Command, Skip, disk, GrubSteps
<1>8. Late => GrubSteps'
  BY Zenon, LateFrame DEF GrubSteps, AfterBoot
<1>9. Start \/ Connect \/ Fail \/ Interrupt => GrubSteps'
  BY Zenon DEF Start, Connect, Fail, Interrupt, disk, GrubSteps
<1>10. Host => GrubSteps'
  BY Zenon DEF Host, ShutDown, Crash, PowerOff, BootUp, SignalledExit, EarlyExit, Exit, driver,
         disk, GrubSteps
<1>11. UNCHANGED vars => GrubSteps'
  BY Zenon DEF vars, driver, disk, GrubSteps
<1> QED
  BY Zenon, <1>1, <1>2, <1>3, <1>4, <1>5, <1>6, <1>7, <1>8, <1>9, <1>10, <1>11
     DEF Next, Script, Setup, Finish, Late

\* The reboot, when the command is neither lost nor slow.
LEMMA BootStepsNext ==
  ASSUME RebootFaults = {}, TypeOK, GrubSteps, BootSteps, [Next]_vars
  PROVE  BootSteps'
<1>1. Start \/ Connect \/ Fail \/ Interrupt => BootSteps'
  BY Zenon DEF Start, Connect, Fail, Interrupt, BootSteps, AfterBoot
<1>2. ( \/ StripOptions \/ MoveGrub("strip_mv", "memmap") \/ ReserveRegions
        \/ MoveGrub("memmap_mv", "tpp") \/ RestrictCpus
        \/ MoveGrub("tpp_mv", "update_grub") ) => BootSteps'
  BY Zenon DEF StripOptions, MoveGrub, ReserveRegions, RestrictCpus, AppendOptions, Command,
         Skip, BootSteps, AfterBoot
<1>3. UpdateGrub => BootSteps'
  BY Zenon DEF UpdateGrub, Command, GrubSteps, BootSteps, AfterBoot
<1>4. OpenSession => BootSteps'
  BY Zenon DEF OpenSession, disk, kernel, TypeOK, BootSteps, AfterBoot
<1>5. SendReboot => BootSteps'
  BY DEF SendReboot, disk, TypeOK, BootSteps, AfterBoot
<1>6. Sleep => BootSteps'
  BY DEF Sleep, Skip, disk, kernel, TypeOK, BootSteps, AfterBoot
<1>7. Reconnect => BootSteps'
  BY Zenon DEF Reconnect, disk, kernel, TypeOK, BootSteps, AfterBoot
<1>8. Late => BootSteps'
  BY Zenon, LateFrame DEF BootSteps, AfterBoot
<1>9. ShutDown \/ Crash => BootSteps'
  BY Zenon DEF ShutDown, Crash, PowerOff, disk, BootSteps
<1>10. BootUp => BootSteps'
  BY DEF BootUp, driver, disk, BootSteps
<1>11. SignalledExit \/ EarlyExit => BootSteps'
  BY DEF SignalledExit, EarlyExit, Exit, driver, disk, BootSteps
<1>12. UNCHANGED vars => BootSteps'
  BY DEF vars, driver, disk, kernel, BootSteps
<1> QED
  BY Zenon, <1>1, <1>2, <1>3, <1>4, <1>5, <1>6, <1>7, <1>8, <1>9, <1>10, <1>11, <1>12
     DEF Next, Script, Setup, Finish, Host, Late

\* The grub files and the boot of such a host.
LEMMA InitGrubAndBoot == Init => GrubSteps /\ BootSteps
BY Zenon DEF Init, GrubSteps, BootSteps, AfterBoot

\* However many runs stop half way, and wherever, the grub file carries no
\* option twice and no regions of two configurations at once.
THEOREM GrubCorrect == Spec => []GrubStaysClean
<1>1. GrubSteps => GrubStaysClean
  <2> SUFFICES ASSUME GrubSteps PROVE GrubStaysClean
    BY Zenon
  <2>1. PICK c \in Configs : grub \in {NoOptions, Line(MemmapOptions(c)), Line(Wanted(c))}
    BY Zenon DEF GrubSteps
  <2>2. PICK S : grub = Line(S) /\ S \in {{}, MemmapOptions(c), Wanted(c)}
    BY Zenon, <2>1, LinesOfConfig
  <2>3. \A o \in BootOption : grub[o] = IF o \in S THEN 1 ELSE 0
    BY Zenon, <2>2 DEF Line
  <2>4. \A o \in BootOption : grub[o] <= 1
    BY <2>3
  <2>5. \A r \in Regions : grub[r] = 1 => r \in {c.dram, c.pmem}
    BY <2>2, <2>3, BoundsAssumption DEF BootOption, Wanted, MemmapOptions, TppOptions
  <2> QED
    BY Zenon, <2>4, <2>5 DEF GrubStaysClean
<1> QED
  BY <1>1, InitTypeAndFbmm, InitGrubAndBoot, TypeNext, FbmmStepsNext, GrubStepsNext, PTL
     DEF Spec

\* If `sudo reboot' is neither lost nor slower than the sleep that follows it, a
\* run that is past its reconnection works on a host booted with exactly the
\* options of its own configuration.
THEOREM BootCorrect ==
  ASSUME RebootFaults = {}
  PROVE  Spec => []BootMatchesConfig
<1>1. TypeOK /\ BootSteps => BootMatchesConfig
  <2> SUFFICES ASSUME TypeOK, BootSteps, conn, pc \in AfterBoot
               PROVE  \A o \in BootOption :
                        boot[o] = IF \/ o \in {cfg.dram, cfg.pmem}
                                     \/ o \in {"do_tpp", "maxcpus"} /\ "tpp" \in cfg.opts
                                  THEN 1 ELSE 0
    BY Zenon DEF BootMatchesConfig
  <2>1. boot = Line(Wanted(cfg))
    BY Zenon DEF BootSteps
  <2>2. cfg.dram = NoRegion => cfg.pmem = NoRegion
    BY Zenon, ConfigsAssumption DEF TypeOK, CliAccepts
  <2>3. \A o \in BootOption :
          o \in Wanted(cfg) <=> \/ o \in {cfg.dram, cfg.pmem}
                                \/ o \in {"do_tpp", "maxcpus"} /\ "tpp" \in cfg.opts
    BY Zenon, <2>2, BoundsAssumption DEF Wanted, MemmapOptions, TppOptions, BootOption, NoRegion
  <2> QED
    BY Zenon, <2>1, <2>3 DEF Line
<1>2. TypeOK /\ GrubSteps /\ BootSteps /\ [Next]_vars => BootSteps'
  BY Zenon, BootStepsNext
<1> QED
  BY <1>1, <1>2, InitTypeAndFbmm, InitGrubAndBoot, TypeNext, FbmmStepsNext, GrubStepsNext,
     PTL DEF Spec

-----------------------------------------------------------------------------
(***************************************************************************)
(* The prefix.                                                             *)
(***************************************************************************)

\* The commands before the wrapper is pushed, those between it and badger trap,
\* and those after that, up to the workload.
Unwrapped ==
  {"connect", "strip", "strip_mv", "memmap", "memmap_mv", "tpp", "tpp_mv", "update_grub",
   "reboot", "send_reboot", "sleep", "reconnect", "setup_host", "hugetlb", "params", "thp",
   "aslr", "pin", "perf", "collectors", "numactl", "damo", "cgexec", "lock_stat", "wrapper"}
Wrapped == {"module", "mount", "fs_knobs", "fbmm_on", "policy", "badger"}
Launched == {"mmap_tracker", "load", "fault_tracker", "workload"}

Has(s, w) == \E i \in 1..Len(s) : s[i] = w
OnlyLast(s, w) == \A i \in 1..Len(s) : s[i] = w => i = Len(s)

\* The wrapper is the last command until badger trap is put behind it; nothing
\* is put behind badger trap.
PrefixSteps ==
  /\ pc \in Unwrapped => ~Has(prefix, "fbmm_wrapper") /\ ~Has(prefix, "badger-trap")
  /\ pc \in Wrapped => OnlyLast(prefix, "fbmm_wrapper") /\ ~Has(prefix, "badger-trap")
  /\ pc \in Launched =>
       /\ OnlyLast(prefix, "badger-trap")
       /\ \A i \in 1..Len(prefix) :
            prefix[i] = "fbmm_wrapper" /\ i # Len(prefix) => prefix[i + 1] = "badger-trap"

\* A step within one part of the script that pushes nothing.
NoPush ==
  /\ prefix' = prefix /\ cfg' = cfg
  /\ pc' \in Unwrapped => pc \in Unwrapped
  /\ pc' \in Wrapped => pc \in Wrapped \cup Unwrapped
  /\ pc' \in Launched => pc \in Launched

\* Such a step keeps the prefix.
LEMMA PrefixFrame == PrefixSteps /\ NoPush => PrefixSteps'
BY Zenon DEF NoPush, PrefixSteps, Has, OnlyLast

\* Words without w, one after the other, do not have it.
LEMMA HasConcat ==
  ASSUME NEW s \in Seq(PrefixCommand), NEW t \in Seq(PrefixCommand), NEW w,
         ~Has(s, w), ~Has(t, w)
  PROVE  s \o t \in Seq(PrefixCommand) /\ ~Has(s \o t, w)
BY DEF Has

\* What is pushed under a condition is another word, or nothing.
LEMMA HasIf ==
  ASSUME NEW cond, NEW w, NEW p \in PrefixCommand \ {w}
  PROVE  If(cond, <<p>>) \in Seq(PrefixCommand) /\ ~Has(If(cond, <<p>>), w)
<1>1. <<p>> \in Seq(PrefixCommand) /\ ~Has(<<p>>, w)
  BY DEF Has
<1>2. <<>> \in Seq(PrefixCommand) /\ ~Has(<<>>, w)
  BY EmptyPrefix DEF Has
<1> QED
  BY Zenon, <1>1, <1>2 DEF If

\* The steps that push something, or start another run.
Pushes ==
  Start \/ PerfPrefix \/ NumactlPrefix \/ CgexecPrefix \/ WrapperPrefix \/ BadgerTrapPrefix

\* Every step is one of those that push, or pushes nothing.
LEMMA NoPushSteps == [Next]_vars => Pushes \/ NoPush
<1>1. ( \/ Connect \/ OpenSession \/ SendReboot \/ Sleep \/ Reconnect \/ StripOptions
        \/ MoveGrub("strip_mv", "memmap") \/ MoveGrub("memmap_mv", "tpp")
        \/ MoveGrub("tpp_mv", "update_grub") ) => NoPush
  BY Zenon DEF NoPush, Connect, OpenSession, SendReboot, Sleep, Reconnect, StripOptions, MoveGrub, Command,
         Skip, Unwrapped, Wrapped, Launched
<1>2. ReserveRegions \/ RestrictCpus \/ UpdateGrub => NoPush
  BY Zenon DEF NoPush, ReserveRegions, RestrictCpus, AppendOptions, UpdateGrub, Command, Skip, Unwrapped,
         Wrapped, Launched
<1>3. SetUpHost \/ HugePagePool \/ SetThp \/ SetAslr \/ StartDamo \/ EnableLockStat => NoPush
  <2>1. SetUpHost \/ HugePagePool \/ SetThp => NoPush
    BY Zenon DEF NoPush, SetUpHost, HugePagePool, SetThp, Configure, Unwrapped, Wrapped, Launched
  <2>2. SetAslr \/ StartDamo \/ EnableLockStat => NoPush
    BY Zenon DEF NoPush, SetAslr, StartDamo, EnableLockStat, Configure, Unwrapped, Wrapped, Launched
  <2> QED
    BY Zenon, <2>1, <2>2
<1>4. SetFsKnobs \/ EnableFbmm \/ SetPolicy \/ PrepareFs \/ MountFs => NoPush
  <2>1. SetFsKnobs \/ EnableFbmm \/ SetPolicy => NoPush
    BY Zenon DEF NoPush, SetFsKnobs, EnableFbmm, SetPolicy, Configure, Unwrapped, Wrapped, Launched
  <2>2. PrepareFs \/ MountFs => NoPush
    BY Zenon DEF NoPush, PrepareFs, MountFs, Command, Unwrapped, Wrapped, Launched
  <2> QED
    BY Zenon, <2>1, <2>2
<1>5. WriteParams \/ PinCores \/ SpawnCollectors => NoPush
  BY Zenon DEF NoPush, WriteParams, PinCores, SpawnCollectors, Command, Unwrapped, Wrapped, Launched
<1>6. ( \/ SpawnTracker("mmap_tracker", "load", "mmap_tracker") \/ LoadServer
        \/ SpawnTracker("fault_tracker", "workload", "mm_fault_tracker")
        \/ RunWorkload \/ Fail \/ Interrupt ) => NoPush
  BY Zenon DEF NoPush, SpawnTracker, Spawn, LoadServer, RunWorkload, Fail, Interrupt, Command, Skip,
         Unwrapped, Wrapped, Launched
<1>7. Finish => NoPush
  <2>1. Finish => /\ prefix' = prefix /\ cfg' = cfg
                  /\ pc' \in {"await_server", "stats", "kill_fault", "join_fault", "kill_mmap", "join_mmap",
                             "timings", "Ok", "Err"}
    <3>1. Signal("stop_server", "await_server", "server") \/ AwaitServerExit \/ RecordStats \/ WriteTimings
          => /\ prefix' = prefix /\ cfg' = cfg
             /\ pc' \in {"await_server", "stats", "kill_fault", "Ok", "Err"}
      BY Zenon DEF Signal, AwaitServerExit, RecordStats, WriteTimings, Command
    <3>2. StopTracker("kill_fault", "join_fault", "kill_mmap", "mm_fault_tracker")
          \/ JoinTracker("join_fault", "kill_mmap", "mm_fault_tracker")
          => prefix' = prefix /\ cfg' = cfg /\ pc' \in {"join_fault", "kill_mmap", "Err"}
      BY Zenon DEF StopTracker, JoinTracker, Signal, Command, Skip
    <3>3. StopTracker("kill_mmap", "join_mmap", "timings", "mmap_tracker")
          \/ JoinTracker("join_mmap", "timings", "mmap_tracker")
          => prefix' = prefix /\ cfg' = cfg /\ pc' \in {"join_mmap", "timings", "Err"}
      BY Zenon DEF StopTracker, JoinTracker, Signal, Command, Skip
    <3> QED
      BY Zenon, <3>1, <3>2, <3>3 DEF Finish
  <2> QED
    BY Zenon, <2>1 DEF NoPush, Unwrapped, Wrapped, Launched
<1>8. Host \/ UNCHANGED vars => NoPush
  BY Zenon DEF NoPush, Host, ShutDown, Crash, PowerOff, BootUp, SignalledExit, EarlyExit, Exit, vars, driver
<1> QED
  BY Zenon, <1>1, <1>2, <1>3, <1>4, <1>5, <1>6, <1>7, <1>8 DEF Next, Script, Setup, Pushes

\* The prefix holds the launchers in the order they were pushed.
LEMMA PrefixStepsNext == TypeOK /\ PrefixSteps /\ [Next]_vars => PrefixSteps'
<1> SUFFICES ASSUME TypeOK, PrefixSteps, [Next]_vars PROVE PrefixSteps'
  BY Zenon
<1>0. prefix \in Seq(PrefixCommand)
  BY Zenon DEF TypeOK
<1>1. CASE Start
  BY <1>1 DEF Start, PrefixSteps, Unwrapped, Wrapped, Launched, Has
<1>2. CASE PerfPrefix \/ NumactlPrefix \/ CgexecPrefix
  <2>1. pc \in Unwrapped /\ pc' \in Unwrapped
    BY Zenon, <1>2 DEF PerfPrefix, NumactlPrefix, CgexecPrefix, Push, Unwrapped
  <2>2. ASSUME NEW w \in {"fbmm_wrapper", "badger-trap"} PROVE ~Has(prefix', w)
    <3>1. ~Has(prefix, w)
      BY Zenon, <2>1 DEF PrefixSteps
    <3>2. CASE PerfPrefix
      <4>1. /\ "perf stat" \in PrefixCommand \ {w} /\ "perf record" \in PrefixCommand \ {w}
        BY Zenon DEF PrefixCommand
      <4> QED
        BY Zenon, <1>0, <3>1, <3>2, <4>1, HasIf, HasConcat DEF PerfPrefix, Push
    <3>3. CASE NumactlPrefix
      <4>1. /\ "numactl" \in PrefixCommand \ {w} /\ "hmsdk numactl" \in PrefixCommand \ {w}
        BY Zenon DEF PrefixCommand
      <4> QED
        BY Zenon, <1>0, <3>1, <3>3, <4>1, HasIf, HasConcat DEF NumactlPrefix, Push
    <3>4. CASE CgexecPrefix
      <4>1. "cgexec" \in PrefixCommand \ {w}
        BY Zenon DEF PrefixCommand
      <4> QED
        BY Zenon, <1>0, <3>1, <3>4, <4>1, HasIf, HasConcat DEF CgexecPrefix, Push
    <3> QED
      BY Zenon, <1>2, <3>2, <3>3, <3>4
  <2> QED
    BY Zenon, <2>1, <2>2 DEF PrefixSteps, Unwrapped, Wrapped, Launched
<1>3. CASE WrapperPrefix
  <2>1. pc = "wrapper" /\ pc' \in {"policy", "module"}
    BY Zenon, <1>3 DEF WrapperPrefix, Skip, Push
  <2>2. ~Has(prefix, "fbmm_wrapper") /\ ~Has(prefix, "badger-trap")
    BY Zenon, <2>1 DEF PrefixSteps, Unwrapped
  <2>3. \/ prefix' = prefix \/ prefix' = prefix \o <<>> \/ prefix' = prefix \o <<"fbmm_wrapper">>
    BY Zenon, <1>3 DEF WrapperPrefix, Skip, Push, If
  <2>4. ~Has(prefix', "badger-trap") /\ OnlyLast(prefix', "fbmm_wrapper")
    BY <1>0, <2>2, <2>3 DEF Has, OnlyLast
  <2> QED
    BY Zenon, <2>1, <2>4 DEF PrefixSteps, Unwrapped, Wrapped, Launched
<1>4. CASE BadgerTrapPrefix
  <2>1. pc = "badger" /\ pc' = "mmap_tracker"
    BY Zenon, <1>4 DEF BadgerTrapPrefix, Push
  <2>2. OnlyLast(prefix, "fbmm_wrapper") /\ ~Has(prefix, "badger-trap")
    BY Zenon, <2>1 DEF PrefixSteps, Wrapped
  <2>3. prefix' = prefix \o <<>> \/ prefix' = prefix \o <<"badger-trap">>
    BY Zenon, <1>4 DEF BadgerTrapPrefix, Push, If
  <2>4. OnlyLast(prefix', "badger-trap")
    BY <1>0, <2>2, <2>3 DEF Has, OnlyLast
  <2>5. \A i \in 1..Len(prefix') :
          prefix'[i] = "fbmm_wrapper" /\ i # Len(prefix') => prefix'[i + 1] = "badger-trap"
    BY <1>0, <2>2, <2>3 DEF OnlyLast
  <2> QED
    BY Zenon, <2>1, <2>4, <2>5 DEF PrefixSteps, Unwrapped, Wrapped, Launched
<1>5. NoPush => PrefixSteps'
  BY Zenon, PrefixFrame
<1> QED
  BY Zenon, <1>1, <1>2, <1>3, <1>4, <1>5, NoPushSteps DEF Pushes

\* Whatever the configuration, badger trap ends up directly in front of the
\* workload, and the wrapper in front of something that is given by its path.
THEOREM PrefixCorrect == Spec => []PrefixExecutes
<1>1. Init => PrefixSteps
  BY Zenon DEF Init, PrefixSteps, Unwrapped, Wrapped, Launched
<1>2. TypeOK /\ PrefixSteps => PrefixExecutes
  <2> SUFFICES ASSUME TypeOK, PrefixSteps, pc \in {"load", "workload"}, NEW i \in 1..Len(prefix)
               PROVE  LET cl == Append(prefix, "workload")
                      IN /\ cl[i] = "badger-trap" => cl[i + 1] = "workload"
                         /\ cl[i] = "fbmm_wrapper" => cl[i + 1] \in {"badger-trap", "workload"}
    BY Zenon DEF PrefixExecutes
  <2>1. prefix \in Seq(PrefixCommand)
    BY Zenon DEF TypeOK
  <2>2. /\ prefix[i] = "badger-trap" => i = Len(prefix)
        /\ prefix[i] = "fbmm_wrapper" /\ i # Len(prefix) => prefix[i + 1] = "badger-trap"
    BY Zenon DEF PrefixSteps, OnlyLast, Launched
  <2> QED
    BY <2>1, <2>2
<1> QED
  BY <1>1, <1>2, InitTypeAndFbmm, TypeNext, FbmmStepsNext, PrefixStepsNext, PTL DEF Spec

-----------------------------------------------------------------------------
(***************************************************************************)
(* The settings, the module and the mount.                                 *)
(***************************************************************************)

\* What has been set, block after block.
Env1(c) == {"performance", "printk"} \cup (c.opts \cap {"hugetlb"})
Env2(c) == Env1(c) \cup (IF "disable_thp" \in c.opts THEN {"thp_never"} ELSE {"thp_always"})
Env3(c) == Env2(c) \cup (IF "disable_aslr" \in c.opts THEN {"aslr_off"} ELSE {"aslr_on"})
Env4(c) == Env3(c) \cup (IF "hmsdk_tiered" \in c.opts THEN {"damo"} ELSE {})
Env5(c) == Env4(c) \cup (c.opts \cap {"lock_stat"})
Env6(c) == Env5(c) \cup (IF c.fbmm = "ext4" THEN c.opts \cap {"ext4_metadata"} ELSE {})
Env7(c) == Env6(c) \cup FsKnobs(c)
Env8(c) == Env7(c) \cup (IF c.fbmm # "none" THEN {"fbmm"} ELSE {})
Env9(c) == Env8(c) \cup PolicyKnobs(c)

\* As a boot leaves it.
Clean == env = {} /\ mods = {} /\ mount = "none"

\* The commands that find neither module nor mount.
Bare == {"setup_host", "hugetlb", "params", "thp", "aslr", "pin", "perf", "collectors",
         "numactl", "damo", "cgexec", "lock_stat", "wrapper", "module"}

\* How far the settings are, while the session is one of the current boot.  That
\* they start from nothing is owed to the reboot.
EnvSteps ==
  /\ pc = "send_reboot" /\ ~conn => Clean
  /\ pc = "sleep" => rebooting \/ Clean
  /\ pc = "reconnect" => Clean
  /\ conn =>
       /\ pc = "setup_host" => env = {}
       /\ pc = "hugetlb" => env = {"performance", "printk"}
       /\ pc \in {"params", "thp"} => env = Env1(cfg)
       /\ pc = "aslr" => env = Env2(cfg)
       /\ pc \in {"pin", "perf", "collectors", "numactl", "damo"} => env = Env3(cfg)
       /\ pc \in {"cgexec", "lock_stat"} => env = Env4(cfg)
       /\ pc \in {"wrapper", "module"} => env = Env5(cfg)
       /\ pc \in {"mount", "fs_knobs"} => env = Env6(cfg)
       /\ pc = "fbmm_on" => env = Env7(cfg)
       /\ pc = "policy" => env = Env8(cfg)
       /\ pc \in {"badger"} \cup Launched => env = Env9(cfg)
       /\ pc \in Bare => mods = {} /\ mount = "none"
       /\ pc = "mount" => mods = {cfg.fbmm} \ {"none", "ext4"}
       /\ pc \in {"fs_knobs", "fbmm_on", "policy", "badger"} \cup Launched
            => mods = {cfg.fbmm} \ {"none", "ext4"} /\ mount = cfg.fbmm

\* What a block of settings does: all of it, or the run ends.
LEMMA ConfigureExact ==
  ASSUME NEW from, NEW to, NEW Old, NEW S, Configure(from, to, Old, S)
  PROVE  /\ pc = from /\ UNCHANGED <<cfg, conn, rebooting, mods, mount>>
         /\ pc' = "Err" \/ (pc' = to /\ env' = (env \ Old) \cup S)
BY Zenon DEF Configure

\* The settings say nothing of a run that has ended.
LEMMA EnvErr == ASSUME pc' = "Err" PROVE EnvSteps'
BY Zenon DEF EnvSteps, Bare, Launched

\* A block of settings takes the settings one further.
LEMMA EnvConfigure ==
  FbmmSteps /\ EnvSteps /\ ( \/ SetUpHost \/ HugePagePool \/ SetThp \/ SetAslr
                             \/ StartDamo \/ EnableLockStat \/ SetFsKnobs \/ EnableFbmm
                             \/ SetPolicy ) => EnvSteps'
<1> SUFFICES ASSUME FbmmSteps, EnvSteps PROVE
      ( \/ SetUpHost \/ HugePagePool \/ SetThp \/ SetAslr \/ StartDamo \/ EnableLockStat \/ SetFsKnobs
        \/ EnableFbmm \/ SetPolicy ) => EnvSteps'
  BY Zenon
<1>1. CASE SetUpHost
  <2>1. /\ pc = "setup_host" /\ UNCHANGED <<cfg, conn, rebooting, mods, mount>>
        /\ \/ pc' = "Err"
           \/ pc' = "hugetlb" /\ env' = (env \ {}) \cup ({"performance", "printk"})
    BY Zenon, <1>1, ConfigureExact DEF SetUpHost
  <2>2. conn => env = {} /\ mods = {} /\ mount = "none"
    BY Zenon, <2>1 DEF EnvSteps, Bare, Launched
  <2>3. CASE pc' = "hugetlb"
    <3>1. env = {} => env' = {"performance", "printk"}
      BY Zenon, <2>1, <2>3
    <3> QED
      BY Zenon, <2>1, <2>2, <2>3, <3>1 DEF EnvSteps, Bare, Launched
  <2> QED
    BY Zenon, <2>1, <2>3, EnvErr
<1>2. CASE HugePagePool
  <2>1. /\ pc = "hugetlb" /\ UNCHANGED <<cfg, conn, rebooting, mods, mount>>
        /\ \/ pc' = "Err"
           \/ pc' = "params" /\ env' = (env \ {}) \cup (cfg.opts \cap {"hugetlb"})
    BY Zenon, <1>2, ConfigureExact DEF HugePagePool
  <2>2. conn => env = {"performance", "printk"} /\ mods = {} /\ mount = "none"
    BY Zenon, <2>1 DEF EnvSteps, Bare, Launched
  <2>3. CASE pc' = "params"
    <3>1. env = {"performance", "printk"} => env' = Env1(cfg)
      BY Zenon, <2>1, <2>3 DEF Env1
    <3> QED
      BY Zenon, <2>1, <2>2, <2>3, <3>1 DEF EnvSteps, Bare, Launched
  <2> QED
    BY Zenon, <2>1, <2>3, EnvErr
<1>3. CASE SetThp
  <2>1. /\ pc = "thp" /\ UNCHANGED <<cfg, conn, rebooting, mods, mount>>
        /\ \/ pc' = "Err"
           \/ pc' = "aslr" /\ env' = (env \ {"thp_always", "thp_never"}) \cup (IF Enabled("disable_thp") THEN {"thp_never"} ELSE {"thp_always"})
    BY Zenon, <1>3, ConfigureExact DEF SetThp
  <2>2. conn => env = Env1(cfg) /\ mods = {} /\ mount = "none"
    BY Zenon, <2>1 DEF EnvSteps, Bare, Launched
  <2>3. CASE pc' = "aslr"
    <3>1. env = Env1(cfg) => env' = Env2(cfg)
      BY Zenon, <2>1, <2>3 DEF Env1, Env2, Enabled
    <3> QED
      BY Zenon, <2>1, <2>2, <2>3, <3>1 DEF EnvSteps, Bare, Launched
  <2> QED
    BY Zenon, <2>1, <2>3, EnvErr
<1>4. CASE SetAslr
  <2>1. /\ pc = "aslr" /\ UNCHANGED <<cfg, conn, rebooting, mods, mount>>
        /\ \/ pc' = "Err"
           \/ pc' = "pin" /\ env' = (env \ {"aslr_on", "aslr_off"}) \cup (IF Enabled("disable_aslr") THEN {"aslr_off"} ELSE {"aslr_on"})
    BY Zenon, <1>4, ConfigureExact DEF SetAslr
  <2>2. conn => env = Env2(cfg) /\ mods = {} /\ mount = "none"
    BY Zenon, <2>1 DEF EnvSteps, Bare, Launched
  <2>3. CASE pc' = "pin"
    <3>1. env = Env2(cfg) => env' = Env3(cfg)
      BY Zenon, <2>1, <2>3 DEF Env1, Env2, Env3, Enabled
    <3> QED
      BY Zenon, <2>1, <2>2, <2>3, <3>1 DEF EnvSteps, Bare, Launched
  <2> QED
    BY Zenon, <2>1, <2>3, EnvErr
<1>5. CASE StartDamo
  <2>1. /\ pc = "damo" /\ UNCHANGED <<cfg, conn, rebooting, mods, mount>>
        /\ \/ pc' = "Err"
           \/ pc' = "cgexec" /\ env' = (env \ {}) \cup (IF Enabled("hmsdk_tiered") THEN {"damo"} ELSE {})
    BY Zenon, <1>5, ConfigureExact DEF StartDamo
  <2>2. conn => env = Env3(cfg) /\ mods = {} /\ mount = "none"
    BY Zenon, <2>1 DEF EnvSteps, Bare, Launched
  <2>3. CASE pc' = "cgexec"
    <3>1. env = Env3(cfg) => env' = Env4(cfg)
      BY Zenon, <2>1, <2>3 DEF Env4, Enabled
    <3> QED
      BY Zenon, <2>1, <2>2, <2>3, <3>1 DEF EnvSteps, Bare, Launched
  <2> QED
    BY Zenon, <2>1, <2>3, EnvErr
<1>6. CASE EnableLockStat
  <2>1. /\ pc = "lock_stat" /\ UNCHANGED <<cfg, conn, rebooting, mods, mount>>
        /\ \/ pc' = "Err"
           \/ pc' = "wrapper" /\ env' = (env \ {}) \cup (cfg.opts \cap {"lock_stat"})
    BY Zenon, <1>6, ConfigureExact DEF EnableLockStat
  <2>2. conn => env = Env4(cfg) /\ mods = {} /\ mount = "none"
    BY Zenon, <2>1 DEF EnvSteps, Bare, Launched
  <2>3. CASE pc' = "wrapper"
    <3>1. env = Env4(cfg) => env' = Env5(cfg)
      BY Zenon, <2>1, <2>3 DEF Env5
    <3> QED
      BY Zenon, <2>1, <2>2, <2>3, <3>1 DEF EnvSteps, Bare, Launched
  <2> QED
    BY Zenon, <2>1, <2>3, EnvErr
<1>7. CASE SetFsKnobs
  <2>1. /\ pc = "fs_knobs" /\ UNCHANGED <<cfg, conn, rebooting, mods, mount>>
        /\ \/ pc' = "Err"
           \/ pc' = "fbmm_on" /\ env' = (env \ {}) \cup (FsKnobs(cfg))
    BY Zenon, <1>7, ConfigureExact DEF SetFsKnobs
  <2>2. conn => env = Env6(cfg) /\ mods = {cfg.fbmm} \ {"none", "ext4"} /\ mount = cfg.fbmm
    BY Zenon, <2>1 DEF EnvSteps, Bare, Launched
  <2>3. CASE pc' = "fbmm_on"
    <3>1. env = Env6(cfg) => env' = Env7(cfg)
      BY Zenon, <2>1, <2>3 DEF Env7
    <3> QED
      BY Zenon, <2>1, <2>2, <2>3, <3>1 DEF EnvSteps, Bare, Launched
  <2> QED
    BY Zenon, <2>1, <2>3, EnvErr
<1>8. CASE EnableFbmm
  <2>1. /\ pc = "fbmm_on" /\ UNCHANGED <<cfg, conn, rebooting, mods, mount>>
        /\ \/ pc' = "Err"
           \/ pc' = "policy" /\ env' = (env \ {}) \cup ({"fbmm"})
    BY Zenon, <1>8, ConfigureExact DEF EnableFbmm
  <2>2. conn => env = Env7(cfg) /\ mods = {cfg.fbmm} \ {"none", "ext4"} /\ mount = cfg.fbmm /\ cfg.fbmm # "none"
    BY Zenon, <2>1 DEF EnvSteps, Bare, Launched, FbmmSteps
  <2>3. CASE pc' = "policy"
    <3>1. env = Env7(cfg) /\ cfg.fbmm # "none" => env' = Env8(cfg)
      BY Zenon, <2>1, <2>3 DEF Env8
    <3> QED
      BY Zenon, <2>1, <2>2, <2>3, <3>1 DEF EnvSteps, Bare, Launched
  <2> QED
    BY Zenon, <2>1, <2>3, EnvErr
<1>9. CASE SetPolicy
  <2>1. /\ pc = "policy" /\ UNCHANGED <<cfg, conn, rebooting, mods, mount>>
        /\ \/ pc' = "Err"
           \/ pc' = "badger" /\ env' = (env \ {}) \cup (PolicyKnobs(cfg))
    BY Zenon, <1>9, ConfigureExact DEF SetPolicy
  <2>2. conn => env = Env8(cfg) /\ mods = {cfg.fbmm} \ {"none", "ext4"} /\ mount = cfg.fbmm
    BY Zenon, <2>1 DEF EnvSteps, Bare, Launched
  <2>3. CASE pc' = "badger"
    <3>1. env = Env8(cfg) => env' = Env9(cfg)
      BY Zenon, <2>1, <2>3 DEF Env9
    <3> QED
      BY Zenon, <2>1, <2>2, <2>3, <3>1 DEF EnvSteps, Bare, Launched
  <2> QED
    BY Zenon, <2>1, <2>3, EnvErr
<1> QED
  BY Zenon, <1>1, <1>2, <1>3, <1>4, <1>5, <1>6, <1>7, <1>8, <1>9

\* No setting, no module and no mount changes, and the driver goes on within one
\* line of EnvSteps, or out of them.
EnvQuiet ==
  /\ UNCHANGED <<env, mods, mount, conn, cfg>>
  /\ \/ pc' = pc /\ rebooting' = rebooting
     \/ pc' \notin {"send_reboot", "sleep", "reconnect"} \cup AfterBoot
     \/ pc' \in AfterBoot \ (Bare \cup Wrapped \cup Launched)
     \/ pc \in {"params", "thp"} /\ pc' \in {"params", "thp"}
     \/ /\ pc \in {"pin", "perf", "collectors", "numactl", "damo"}
        /\ pc' \in {"pin", "perf", "collectors", "numactl", "damo"}
     \/ pc \in {"cgexec", "lock_stat"} /\ pc' \in {"cgexec", "lock_stat"}
     \/ pc \in {"wrapper", "module"} /\ pc' \in {"wrapper", "module"}
     \/ pc \in {"badger"} \cup Launched /\ pc' \in {"badger"} \cup Launched

\* Such a step keeps them.
LEMMA EnvFrame == EnvSteps /\ EnvQuiet => EnvSteps'
BY DEF EnvSteps, EnvQuiet, Clean, Bare, Wrapped, Launched, AfterBoot

\* The steps that set FBMM up.
LEMMA EnvFbmm ==
  FbmmSteps /\ EnvSteps /\ (WrapperPrefix \/ PrepareFs \/ MountFs) => EnvSteps'
<1>1. FbmmSteps /\ EnvSteps /\ WrapperPrefix => EnvSteps'
  <2>1. cfg.fbmm = "none" => Env8(cfg) = Env5(cfg) /\ {cfg.fbmm} \ {"none", "ext4"} = {}
    BY Zenon DEF Env6, Env7, Env8, FsKnobs
  <2>2. WrapperPrefix => /\ UNCHANGED <<cfg, conn, env, mods, mount, rebooting>>
                         /\ pc = "wrapper"
                         /\ \/ cfg.fbmm = "none" /\ pc' = "policy"
                            \/ pc' = "module"
    BY Zenon DEF WrapperPrefix, Skip, Push, kernel
  <2> QED
    BY Zenon, <2>1, <2>2 DEF EnvSteps, Bare, Launched
<1>2. FbmmSteps /\ EnvSteps /\ PrepareFs => EnvSteps'
  <2> SUFFICES ASSUME FbmmSteps, EnvSteps, PrepareFs PROVE EnvSteps'
    BY Zenon
  <2>1. pc = "module" /\ pc' = "mount" /\ conn /\ UNCHANGED <<cfg, conn>>
    BY Zenon DEF PrepareFs, Command
  <2>2. env = Env5(cfg) /\ mods = {} /\ cfg.fbmm # "none"
    BY Zenon, <2>1 DEF EnvSteps, FbmmSteps, Bare
  <2>3. Env5(cfg) \ {"ext4_metadata"} = Env5(cfg)
    BY Zenon DEF Env1, Env2, Env3, Env4, Env5
  <2>4. env' = Env6(cfg) /\ mods' = {cfg.fbmm} \ {"none", "ext4"}
    BY Zenon, <2>2, <2>3 DEF PrepareFs, Env6
  <2> QED
    BY Zenon, <2>1, <2>4 DEF EnvSteps, Bare, Launched
<1>3. EnvSteps /\ MountFs => EnvSteps'
  BY Zenon DEF MountFs, Command, EnvSteps, Bare, Launched
<1> QED
  BY Zenon, <1>1, <1>2, <1>3

\* The settings are inductive when the reboot is neither lost nor slow.
LEMMA EnvStepsNext ==
  ASSUME RebootFaults = {}, TypeOK, FbmmSteps, EnvSteps, [Next]_vars
  PROVE  EnvSteps'
<1>1. CASE Start \/ Connect \/ OpenSession \/ UpdateGrub
  BY Zenon, <1>1 DEF Start, Connect, OpenSession, UpdateGrub, Command, EnvSteps, Bare, Launched
<1>2. CASE SendReboot
  BY Zenon, <1>2 DEF SendReboot, EnvSteps, Clean, Bare, Launched
<1>3. CASE Sleep
  BY Zenon, <1>3 DEF Sleep, Skip, kernel, EnvSteps, Clean, Bare, Launched
<1>4. CASE Reconnect
  <2>1. /\ pc = "reconnect" /\ pc' = "setup_host"
        /\ env' = env /\ mods' = mods /\ mount' = mount
    BY Zenon, <1>4 DEF Reconnect, kernel
  <2>2. env' = {} /\ mods' = {} /\ mount' = "none"
    BY Zenon, <2>1 DEF EnvSteps, Clean
  <2> QED
    BY Zenon, <2>1, <2>2 DEF EnvSteps, Launched
<1>5. ( \/ StripOptions \/ MoveGrub("strip_mv", "memmap") \/ ReserveRegions
        \/ MoveGrub("memmap_mv", "tpp") \/ RestrictCpus
        \/ MoveGrub("tpp_mv", "update_grub") \/ Fail \/ Interrupt ) => EnvQuiet
  <2>1. StripOptions \/ ReserveRegions \/ RestrictCpus => EnvQuiet
    <3>1. StripOptions => EnvQuiet
      BY Zenon DEF StripOptions, Command, Skip, kernel, EnvQuiet, AfterBoot
    <3>2. ReserveRegions => EnvQuiet
      BY Zenon DEF ReserveRegions, AppendOptions, Command, Skip, kernel, EnvQuiet, AfterBoot
    <3>3. RestrictCpus => EnvQuiet
      BY Zenon DEF RestrictCpus, AppendOptions, Command, Skip, kernel, EnvQuiet, AfterBoot
    <3> QED
      BY Zenon, <3>1, <3>2, <3>3
  <2>2. MoveGrub("strip_mv", "memmap") \/ MoveGrub("memmap_mv", "tpp") => EnvQuiet
    BY Zenon DEF MoveGrub, Command, Skip, kernel, EnvQuiet, AfterBoot
  <2>3. MoveGrub("tpp_mv", "update_grub") => EnvQuiet
    BY Zenon DEF MoveGrub, Command, Skip, kernel, EnvQuiet, AfterBoot
  <2>4. Fail \/ Interrupt => EnvQuiet
    BY Zenon DEF Fail, Interrupt, Command, Skip, kernel, EnvQuiet, AfterBoot
  <2> QED
    BY Zenon, <2>1, <2>2, <2>3, <2>4
<1>6. ( \/ WriteParams \/ PinCores \/ PerfPrefix \/ SpawnCollectors \/ NumactlPrefix
        \/ CgexecPrefix \/ BadgerTrapPrefix ) => EnvQuiet
  BY ZenonT(60) DEF WriteParams, PinCores, PerfPrefix, SpawnCollectors, NumactlPrefix, CgexecPrefix,
         BadgerTrapPrefix, Command, Push, kernel, EnvQuiet, Launched, AfterBoot
<1>7. ( \/ SpawnTracker("mmap_tracker", "load", "mmap_tracker") \/ LoadServer
        \/ SpawnTracker("fault_tracker", "workload", "mm_fault_tracker") ) => EnvQuiet
  BY Zenon DEF SpawnTracker, Spawn, LoadServer, Command, Skip, kernel, EnvQuiet, Launched
<1>8. RunWorkload \/ Finish => EnvQuiet
  BY Zenon DEF RunWorkload, Finish, Signal, AwaitServerExit, RecordStats, WriteTimings, StopTracker,
         JoinTracker, Command, Skip, kernel, EnvQuiet, Bare, Wrapped, Launched, AfterBoot
<1>9. CASE ShutDown \/ Crash
  <2>1. pc' = pc /\ conn' = FALSE /\ env' = {} /\ mods' = {} /\ mount' = "none"
    BY Zenon, <1>9 DEF ShutDown, Crash, PowerOff
  <2>2. Clean' /\ ~conn'
    BY Zenon, <2>1 DEF Clean
  <2> QED
    BY Zenon, <2>2 DEF EnvSteps
<1>10. BootUp \/ SignalledExit \/ EarlyExit \/ UNCHANGED vars => EnvQuiet
  BY Zenon DEF BootUp, SignalledExit, EarlyExit, Exit, vars, driver, kernel, EnvQuiet
<1> QED
  BY Zenon, <1>1, <1>2, <1>3, <1>4, <1>5, <1>6, <1>7, <1>8, <1>9, <1>10, EnvFrame, EnvFbmm,
     EnvConfigure DEF Next, Script, Setup, Host

\* What the blocks set is what the command line asks for, but for the knobs of what
\* the run does not use, and for thp_temporal_zero.
LEMMA OnlyUsed ==
  ASSUME NEW c, "tpp" \in c.opts => c.fbmm = "none",
         "thp_temporal_zero" \in c.opts => c.fbmm = "none"
  PROVE  Env9(c) = Asked(c) \ (Unused(c) \cup {"thp_temporal_zero"})
<1> DEFINE Always == {"performance", "printk"}
           Thp == {IF "disable_thp" \in c.opts THEN "thp_never" ELSE "thp_always"}
           Aslr == {IF "disable_aslr" \in c.opts THEN "aslr_off" ELSE "aslr_on"}
           Damo == IF "hmsdk_tiered" \in c.opts THEN {"damo"} ELSE {}
           Tpp == IF "tpp" \in c.opts THEN {"numa_balancing", "demotion"} ELSE {}
           Fbmm == IF c.fbmm # "none" THEN {"fbmm"} ELSE {}
           Own == Always \cup Thp \cup Aslr \cup Damo \cup Tpp \cup Fbmm
           Left == Unused(c) \cup {"thp_temporal_zero"}
           Set == (c.opts \cap {"hugetlb", "lock_stat"})
                  \cup (IF c.fbmm = "ext4" THEN c.opts \cap {"ext4_metadata"} ELSE {})
                  \cup FsKnobs(c)
                  \cup (IF "tpp" \in c.opts THEN c.opts \cap NumaKnobs
                        ELSE IF c.fbmm # "none" THEN c.opts \cap FbmmKnobs ELSE {})
<1> HIDE DEF Own
<1>1. Asked(c) = Own \cup (c.opts \cap Knobs)
  BY Zenon DEF Asked, Own
<1>2. Own \cap (FbmmKnobs \cup NumaKnobs \cup {"ext4_metadata", "migrate_task_int", "node_weight"}) = {}
  BY DEF FbmmKnobs, NumaKnobs, Own
<1>3. Own \cap Left = {}
  BY <1>2 DEF Unused, FbmmKnobs
<1>4. Env9(c) = Own \cup Set
  BY Zenon DEF Env1, Env2, Env3, Env4, Env5, Env6, Env7, Env8, Env9, PolicyKnobs, Own
<1>5. (c.opts \cap Knobs) \ Left = Set
  BY DEF Knobs, Unused, FsKnobs, FbmmKnobs, NumaKnobs
<1> HIDE DEF Left, Set
<1>6. Env9(c) = Asked(c) \ Left
  BY Zenon, <1>1, <1>3, <1>4, <1>5
<1> QED
  BY Zenon, <1>6 DEF Left

\* If `sudo reboot' is neither lost nor slow, the server is loaded and the
\* workload runs with the settings its command line asks for, with its module and
\* its mount, and no others, whatever the runs before it had set up.  Not set are
\* the knobs of what the run does not use, and --thp_temporal_zero in any run.
THEOREM EnvironmentCorrect ==
  ASSUME RebootFaults = {}
  PROVE  Spec => []EnvironmentMatchesConfig
<1>1. Init => EnvSteps
  BY Zenon DEF Init, EnvSteps, Bare, Launched
<1>2. TypeOK /\ FbmmSteps /\ EnvSteps /\ [Next]_vars => EnvSteps'
  BY Zenon, EnvStepsNext
<1>3. TypeOK /\ EnvSteps => EnvironmentMatchesConfig
  <2> SUFFICES ASSUME TypeOK, EnvSteps, conn, pc \in {"load", "workload"}
               PROVE  /\ env = Asked(cfg) \ (Unused(cfg) \cup {"thp_temporal_zero"})
                      /\ mount = cfg.fbmm /\ mods = {cfg.fbmm} \ {"none", "ext4"}
    BY Zenon DEF EnvironmentMatchesConfig
  <2>1. env = Env9(cfg) /\ mount = cfg.fbmm /\ mods = {cfg.fbmm} \ {"none", "ext4"}
    BY Zenon DEF EnvSteps, Launched
  <2>2. /\ "tpp" \in cfg.opts => cfg.fbmm = "none"
        /\ "thp_temporal_zero" \in cfg.opts => cfg.fbmm = "none"
    BY Zenon, ConfigsAssumption DEF TypeOK, CliAccepts
  <2>3. Env9(cfg) = Asked(cfg) \ (Unused(cfg) \cup {"thp_temporal_zero"})
    BY Zenon, <2>2, OnlyUsed
  <2> QED
    BY Zenon, <2>1, <2>3
<1> QED
  BY <1>1, <1>2, <1>3, InitTypeAndFbmm, TypeNext, FbmmStepsNext, PTL DEF Spec
-----------------------------------------------------------------------------
(***************************************************************************)
(* Trackers and servers.                                                   *)
(***************************************************************************)

Servers(c) == IF c.kind = "server" THEN {"server"} ELSE {}

\* The server was told to stop, if there is one.
Stopped == {"await_server", "stats", "kill_fault", "join_fault", "kill_mmap", "join_mmap",
            "timings", "Ok"}

\* Which processes there may be, while the session is one of the current boot.
\* A boot leaves none.
ProcSteps ==
  /\ pc = "send_reboot" /\ ~conn => procs = {}
  /\ pc = "sleep" => rebooting \/ procs = {}
  /\ pc = "reconnect" => procs = {}
  /\ conn =>
       /\ pc \in Bare \cup Wrapped \cup {"mmap_tracker"} => procs \subseteq Collectors
       /\ pc = "load" => procs \subseteq Collectors \cup (cfg.opts \cap {"mmap_tracker"})
       /\ pc = "fault_tracker" =>
            procs \subseteq Collectors \cup (cfg.opts \cap {"mmap_tracker"}) \cup Servers(cfg)
       /\ pc \in {"workload", "stop_server", "await_server"} =>
            procs \subseteq Collectors \cup (cfg.opts \cap Tracker) \cup Servers(cfg)
       /\ pc \in {"stats", "kill_fault", "join_fault"} =>
            procs \subseteq Collectors \cup (cfg.opts \cap Tracker) \cup {"server"}
       /\ pc \in {"kill_mmap", "join_mmap"} =>
            procs \subseteq Collectors \cup (cfg.opts \cap {"mmap_tracker"}) \cup {"server"}
       /\ pc \in {"timings", "Ok"} => procs \subseteq Collectors \cup {"server"}
       /\ pc \in Stopped /\ "server" \in procs => "server" \in signalled

\* The script up to the trackers, after the boot: it starts collectors only.
LEMMA ProcEarly ==
  ( \/ SetUpHost \/ HugePagePool \/ WriteParams \/ SetThp \/ SetAslr \/ PinCores
    \/ PerfPrefix \/ SpawnCollectors \/ NumactlPrefix \/ StartDamo \/ CgexecPrefix
    \/ EnableLockStat \/ WrapperPrefix \/ PrepareFs \/ MountFs \/ SetFsKnobs
    \/ EnableFbmm \/ SetPolicy \/ BadgerTrapPrefix )
  => /\ pc \in Bare \cup Wrapped /\ pc' \in Bare \cup Wrapped \cup {"mmap_tracker", "Err"}
     /\ UNCHANGED <<cfg, conn>> /\ procs' \subseteq procs \cup Collectors
<1> DEFINE Kept == /\ pc \in Bare \cup Wrapped
                   /\ pc' \in Bare \cup Wrapped \cup {"mmap_tracker", "Err"}
                   /\ UNCHANGED <<cfg, conn>> /\ procs' \subseteq procs \cup Collectors
<1>1. ( \/ SetUpHost \/ HugePagePool \/ SetThp \/ SetAslr \/ StartDamo
        \/ EnableLockStat \/ SetFsKnobs \/ EnableFbmm \/ SetPolicy ) => Kept
  BY Zenon DEF SetUpHost, HugePagePool, SetThp, SetAslr, StartDamo, EnableLockStat, SetFsKnobs,
         EnableFbmm, SetPolicy, Configure, Bare, Wrapped
<1>2. ( \/ WriteParams \/ PinCores \/ PerfPrefix \/ NumactlPrefix \/ CgexecPrefix
        \/ BadgerTrapPrefix \/ WrapperPrefix ) => Kept
  BY ZenonT(60) DEF WriteParams, PinCores, PerfPrefix, NumactlPrefix, CgexecPrefix,
     BadgerTrapPrefix,
         WrapperPrefix, Command, Skip, Push, kernel, Bare, Wrapped
<1>3. SpawnCollectors \/ PrepareFs \/ MountFs => Kept
  BY Zenon DEF SpawnCollectors, PrepareFs, MountFs, Command, Bare, Wrapped
<1> QED
  BY Zenon, <1>1, <1>2, <1>3

\* The trackers the script starts are waited for, and the server is told to stop.
LEMMA ProcStepsNext ==
  ASSUME RebootFaults = {}, TypeOK, ProcSteps, [Next]_vars
  PROVE  ProcSteps'
<1> USE DEF Bare, Wrapped, Stopped
<1>1. CASE Start \/ Connect \/ OpenSession \/ UpdateGrub
  BY Zenon, <1>1 DEF Start, Connect, OpenSession, UpdateGrub, Command, ProcSteps
<1>2. CASE SendReboot
  BY Zenon, <1>2 DEF SendReboot, ProcSteps
<1>3. CASE Sleep
  BY Zenon, <1>3 DEF Sleep, Skip, kernel, ProcSteps
<1>4. CASE Reconnect
  <2>1. pc = "reconnect" /\ pc' = "setup_host" /\ procs' = procs
    BY Zenon, <1>4 DEF Reconnect, kernel
  <2>2. procs' = {}
    BY Zenon, <2>1 DEF ProcSteps
  <2> QED
    BY Zenon, <2>1, <2>2 DEF ProcSteps
<1>5. CASE \/ StripOptions \/ MoveGrub("strip_mv", "memmap") \/ ReserveRegions
           \/ MoveGrub("memmap_mv", "tpp") \/ RestrictCpus
           \/ MoveGrub("tpp_mv", "update_grub") \/ Fail \/ Interrupt
  <2>1. pc' \in {"strip_mv", "memmap", "memmap_mv", "tpp", "tpp_mv", "update_grub", "Err"}
    BY Zenon, <1>5 DEF StripOptions, MoveGrub, ReserveRegions, RestrictCpus, AppendOptions, Fail,
                Interrupt, Command, Skip
  <2> QED
    BY Zenon, <2>1 DEF ProcSteps
<1>6. CASE \/ SetUpHost \/ HugePagePool \/ WriteParams \/ SetThp \/ SetAslr \/ PinCores
           \/ PerfPrefix \/ SpawnCollectors \/ NumactlPrefix \/ StartDamo \/ CgexecPrefix
           \/ EnableLockStat \/ WrapperPrefix \/ PrepareFs \/ MountFs \/ SetFsKnobs
           \/ EnableFbmm \/ SetPolicy \/ BadgerTrapPrefix
  <2>1. /\ pc \in Bare \cup Wrapped /\ pc' \in Bare \cup Wrapped \cup {"mmap_tracker", "Err"}
        /\ UNCHANGED <<cfg, conn>> /\ procs' \subseteq procs \cup Collectors
    BY Zenon, <1>6, ProcEarly
  <2>2. conn => procs' \subseteq Collectors
    BY Zenon, <2>1 DEF ProcSteps
  <2>3. pc' \notin {"send_reboot", "sleep", "reconnect", "join_mmap", "done"}
    BY Zenon, <2>1 DEF Bare, Wrapped
  <2> QED
    BY Zenon, <2>1, <2>2, <2>3 DEF ProcSteps
<1>7. CASE SpawnTracker("mmap_tracker", "load", "mmap_tracker")
  BY Zenon, <1>7 DEF SpawnTracker, Enabled, Spawn, Command, Skip, kernel, ProcSteps
<1>8. CASE LoadServer
  BY Zenon, <1>8 DEF LoadServer, Spawn, Command, Skip, kernel, ProcSteps, Servers
<1>9. CASE SpawnTracker("fault_tracker", "workload", "mm_fault_tracker")
  BY Zenon, <1>9 DEF SpawnTracker, Enabled, Spawn, Command, Skip, kernel, ProcSteps, Tracker
<1>10. CASE RunWorkload
  <2>1. "server" \notin Collectors \cup Tracker
    BY Zenon DEF Collectors, Tracker
  <2> QED
    BY Zenon, <1>10, <2>1 DEF RunWorkload, Command, kernel, ProcSteps, Servers
<1>11. CASE Signal("stop_server", "await_server", "server") \/ AwaitServerExit \/ RecordStats
  <2>1. CASE Signal("stop_server", "await_server", "server")
    BY Zenon, <2>1 DEF Signal, Command, ProcSteps
  <2>2. CASE AwaitServerExit
    BY Zenon, <2>2 DEF AwaitServerExit, kernel, ProcSteps, Servers
  <2>3. CASE RecordStats
    BY Zenon, <2>3 DEF RecordStats, Command, kernel, ProcSteps
  <2> QED
    BY Zenon, <1>11, <2>1, <2>2, <2>3
<1>12. CASE \/ StopTracker("kill_fault", "join_fault", "kill_mmap", "mm_fault_tracker")
            \/ JoinTracker("join_fault", "kill_mmap", "mm_fault_tracker")
  BY Zenon, <1>12 DEF StopTracker, JoinTracker, Signal, Enabled, Command, Skip, kernel, ProcSteps,
               Tracker
<1>13. CASE \/ StopTracker("kill_mmap", "join_mmap", "timings", "mmap_tracker")
            \/ JoinTracker("join_mmap", "timings", "mmap_tracker") \/ WriteTimings
  BY Zenon, <1>13 DEF StopTracker, JoinTracker, WriteTimings, Signal, Enabled, Command, Skip, kernel,
               ProcSteps
<1>14. CASE ShutDown \/ Crash
  BY Zenon, <1>14 DEF ShutDown, Crash, PowerOff, ProcSteps
<1>15. CASE BootUp \/ SignalledExit \/ EarlyExit \/ UNCHANGED vars
  <2>1. UNCHANGED <<pc, cfg, conn, rebooting>> /\ procs' \subseteq procs
    BY Zenon, <1>15 DEF BootUp, SignalledExit, EarlyExit, Exit, vars, driver, kernel
  <2>2. /\ pc = "send_reboot" /\ ~conn => procs = {}
        /\ pc = "sleep" => rebooting \/ procs = {}
        /\ pc = "reconnect" => procs = {}
    BY Zenon DEF ProcSteps
  <2>3. /\ pc' = "send_reboot" /\ ~conn' => procs' = {}
        /\ pc' = "sleep" => rebooting' \/ procs' = {}
        /\ pc' = "reconnect" => procs' = {}
    BY Zenon, <2>1, <2>2
  <2>4. \A S : procs \subseteq S => procs' \subseteq S
    BY Zenon, <2>1
  <2>5. UNCHANGED <<pc, cfg, conn>>
    BY Zenon, <2>1
  <2>6. "server" \in procs' => "server" \in procs /\ ("server" \in signalled => "server" \in signalled')
    BY Zenon, <1>15 DEF BootUp, SignalledExit, EarlyExit, Exit, vars, driver, kernel
  <2> QED
    BY Zenon, <2>3, <2>4, <2>5, <2>6 DEF ProcSteps
<1> QED
  BY Zenon, <1>1, <1>2, <1>3, <1>4, <1>5, <1>6, <1>7, <1>8, <1>9, <1>10, <1>11, <1>12, <1>13,
     <1>14, <1>15 DEF Next, Script, Setup, Finish, Host

\* If `sudo reboot' is neither lost nor slow, a run that returns Ok leaves no
\* tracker on the host, neither its own nor one of a run that was stopped before
\* it, and no server that was not told to stop.
THEOREM OkCorrect ==
  ASSUME RebootFaults = {}
  PROVE  Spec => []OkLeavesNoTracker
<1>1. Init => ProcSteps
  BY Zenon DEF Init, ProcSteps, Bare, Wrapped, Stopped
<1>2. TypeOK /\ ProcSteps /\ [Next]_vars => ProcSteps'
  BY Zenon, ProcStepsNext
<1>3. ProcSteps => OkLeavesNoTracker
  <2>1. (Collectors \cup {"server"}) \cap Tracker = {}
    BY DEF Collectors, Tracker
  <2> QED
    BY Zenon, <2>1 DEF ProcSteps, Stopped, OkLeavesNoTracker
<1> QED
  BY <1>1, <1>2, <1>3, InitTypeAndFbmm, TypeNext, FbmmStepsNext, PTL DEF Spec

-----------------------------------------------------------------------------
(***************************************************************************)
(* The driver and the launchers together.                                  *)
(***************************************************************************)

\* Every step of the composition is a step of the driver or of the host, or one
\* of a launcher that neither of them sees.
LEMMA ExpStep == [ExpNext]_allVars => [Next]_vars
<1>1. UNCHANGED allVars => UNCHANGED vars
  BY Zenon DEF allVars
<1>2. ExpStart => Next
  BY Zenon DEF ExpStart, Next
<1>3. Driver => [Next]_vars
  BY Zenon DEF Driver, StartWorkload, FinishWorkload, Next, Script
<1>4. HostDown => Next
  BY Zenon DEF HostDown, Next, Host
<1>5. OnHost => UNCHANGED vars
  BY Zenon DEF OnHost
<1>6. Rest => Next
  BY Zenon DEF Rest, Next, Host
<1> QED
  BY Zenon, <1>1, <1>2, <1>3, <1>4, <1>5, <1>6 DEF ExpNext

\* The driver and the launchers together implement the driver taken by itself,
\* in which the run of a workload is one step.
THEOREM ImplementsDriver == ExpSpec => Spec
<1>1. ExpInit => Init
  BY Zenon DEF ExpInit
<1> QED
  BY <1>1, ExpStep, PTL DEF ExpSpec, Spec

\* So, wherever launchers and workload are when a run is stopped or the host goes
\* down, the host and the grub files stay as the driver by itself keeps them, and
\* the command prefix can be executed.
THEOREM ExpKeepsHost == ExpSpec => [](FbmmHasMount /\ GrubStaysClean /\ PrefixExecutes)
BY ImplementsDriver, FbmmMountCorrect, GrubCorrect, PrefixCorrect, PTL

\* And, if the reboot is neither lost nor slow, every run works in the boot and
\* with the settings of its own configuration, and leaves no tracker behind.
THEOREM ExpMatchesConfig ==
  ASSUME RebootFaults = {}
  PROVE  ExpSpec => [](BootMatchesConfig /\ EnvironmentMatchesConfig /\ OkLeavesNoTracker)
<1>1. Spec => []BootMatchesConfig
  BY Zenon, BootCorrect
<1>2. Spec => []EnvironmentMatchesConfig
  BY Zenon, EnvironmentCorrect
<1>3. Spec => []OkLeavesNoTracker
  BY Zenon, OkCorrect
<1> QED
  BY <1>1, <1>2, <1>3, ImplementsDriver, PTL

-----------------------------------------------------------------------------
(***************************************************************************)
(* The command lines.                                                      *)
(***************************************************************************)

CommandLine ==
  [chain : Seq(PrefixCommand), pos : Nat \ {0},
   at : {"done", "start", "write", "exec", "fork", "execvp", "teardown"},
   waiting : Seq(Nat \ {0}), dir : BOOLEAN]

LineType == line \in [Shell -> CommandLine] /\ mine \in Shell \cup {NoShell}

\* What a step makes of the command line k: only fbmm_wrapper gives a directory.
Follows(k, l) ==
  /\ l \in CommandLine
  /\ l.at # "done" => l.chain = k.chain
  /\ l.dir => k.dir \/ L!Image(k) = "fbmm_wrapper"

\* No command line.
LEMMA NoLineType == L!NoLine \in CommandLine /\ L!NoLine.at = "done" /\ L!NoLine.dir = FALSE
BY EmptyPrefix DEF L!NoLine, CommandLine

\* A process of the command line ends.
LEMMA ExitedFollows ==
  ASSUME NEW k \in CommandLine
  PROVE  Follows(k, L!Exited(k))
<1>1. CASE k.waiting = <<>>
  BY Zenon, <1>1, NoLineType DEF L!Exited, Follows
<1>2. CASE k.waiting # <<>>
  <2> DEFINE w == k.waiting
             l == [k EXCEPT !.pos = w[Len(w)], !.at = "teardown",
                            !.waiting = SubSeq(w, 1, Len(w) - 1)]
  <2>1. w \in Seq(Nat \ {0}) /\ w # <<>>
    BY <1>2 DEF CommandLine
  <2>2. w[Len(w)] \in Nat \ {0} /\ SubSeq(w, 1, Len(w) - 1) \in Seq(Nat \ {0})
    BY <2>1
  <2> HIDE DEF w
  <2>3. l \in CommandLine /\ l.chain = k.chain /\ l.dir = k.dir
    BY <2>2 DEF CommandLine
  <2>4. L!Exited(k) = l
    BY Zenon, <1>2 DEF L!Exited, w
  <2> QED
    BY Zenon, <2>3, <2>4 DEF Follows
<1> QED
  BY Zenon, <1>1, <1>2

\* A process becomes the next of the command line.
LEMMA ExecFollows ==
  ASSUME NEW k \in CommandLine
  PROVE  Follows(k, [k EXCEPT !.pos = @ + 1, !.at = "start"])
<1> DEFINE n == k.pos + 1
           l == [k EXCEPT !.pos = n, !.at = "start"]
<1>1. n \in Nat \ {0}
  BY DEF CommandLine
<1> HIDE DEF n
<1>2. l \in CommandLine /\ l.chain = k.chain /\ l.dir = k.dir
  BY <1>1 DEF CommandLine
<1> QED
  BY Zenon, <1>2 DEF Follows, n

\* A step of a launcher or of the workload is one of a shell whose command line has
\* not ended.
LEMMA LaunchFollows ==
  ASSUME LineType, NEW s \in Shell, L!Launch(s)
  PROVE  /\ line[s].at # "done"
         /\ \E l : Follows(line[s], l) /\ line' = [line EXCEPT ![s] = l]
<1>1. line[s].at # "done"
  BY Zenon DEF L!Launch, L!OpenMntDir, L!WriteMntDir, L!WrapperExec, L!TrapOn, L!Fork, L!ChildExec,
         L!Teardown, L!PassOn, L!End, L!At
<1> DEFINE k == line[s]
<1>2. k \in CommandLine
  BY Zenon DEF LineType
<1>3. Follows(k, L!Exited(k))
  BY Zenon, <1>2, ExitedFollows
<1>4. Follows(k, [k EXCEPT !.pos = @ + 1, !.at = "start"])
  BY Zenon, <1>2, ExecFollows
<1>5. \A a \in {"write", "fork", "teardown"} : Follows(k, [k EXCEPT !.at = a])
  BY <1>2 DEF Follows, CommandLine
<1>6. L!Image(k) = "fbmm_wrapper"
        => \A d \in {TRUE, k.dir} : Follows(k, [k EXCEPT !.at = "exec", !.dir = d])
  BY <1>2 DEF Follows, CommandLine
<1>7. Follows(k, [k EXCEPT !.at = "execvp", !.waiting = Append(@, k.pos)])
  <2>1. Append(k.waiting, k.pos) \in Seq(Nat \ {0})
    BY <1>2 DEF CommandLine
  <2> QED
    BY <1>2, <2>1 DEF Follows, CommandLine
<1>8. CASE L!OpenMntDir(s)
  BY Zenon, <1>1, <1>3, <1>5, <1>8 DEF L!OpenMntDir, L!Exit, L!Becomes
<1>9. CASE L!WriteMntDir(s)
  BY Zenon, <1>1, <1>6, <1>9 DEF L!WriteMntDir, L!At, L!Becomes
<1>10. CASE L!WrapperExec(s) \/ L!ChildExec(s) \/ L!PassOn(s) \/ L!Teardown(s) \/ L!End(s)
  <2>1. L!Exec(s) \/ L!Exit(s)
    BY Zenon, <1>10 DEF L!WrapperExec, L!ChildExec, L!PassOn, L!Teardown, L!End
  <2> QED
    BY Zenon, <1>1, <1>3, <1>4, <2>1 DEF L!Exec, L!Exit, L!Becomes
<1>11. CASE L!TrapOn(s)
  BY Zenon, <1>1, <1>5, <1>11 DEF L!TrapOn, L!Becomes
<1>12. CASE L!Fork(s)
  BY Zenon, <1>1, <1>5, <1>7, <1>12 DEF L!Fork, L!Becomes
<1> QED
  BY Zenon, <1>1, <1>8, <1>9, <1>10, <1>11, <1>12 DEF L!Launch

\* The same, for the command lines of all shells.
LEMMA OnHostFollows ==
  ASSUME LineType, OnHost
  PROVE  \E s \in Shell :
           /\ L!Launch(s) /\ line[s].at # "done" /\ Follows(line[s], line'[s])
           /\ \A t \in Shell \ {s} : line'[t] = line[t]
           /\ line' \in [Shell -> CommandLine]
<1>1. PICK s \in Shell : L!Launch(s)
  BY Zenon DEF OnHost
<1>2. PICK l : Follows(line[s], l) /\ line' = [line EXCEPT ![s] = l]
  BY Zenon, <1>1, LaunchFollows
<1>3. line \in [Shell -> CommandLine] /\ l \in CommandLine
  BY Zenon, <1>2 DEF LineType, Follows
<1>4. line'[s] = l /\ line' \in [Shell -> CommandLine] /\ \A t \in Shell \ {s} : line'[t] = line[t]
  BY <1>2, <1>3
<1> QED
  BY Zenon, <1>1, <1>2, <1>4, LaunchFollows

\* The driver gives a command line to a free shell.
LEMMA StartFollows ==
  ASSUME TypeOK, LineType, StartWorkload
  PROVE  /\ mine' \in Shell /\ line[mine'].at = "done"
         /\ line'[mine'].at = "start" /\ line'[mine'].chain = prefix /\ ~line'[mine'].dir
         /\ \A t \in Shell \ {mine'} : line'[t] = line[t]
         /\ line' \in [Shell -> CommandLine] /\ trap' = trap
<1> DEFINE l == [L!NoLine EXCEPT !.chain = prefix, !.at = "start"]
<1>1. /\ mine' \in Shell /\ line[mine'].at = "done" /\ trap' = trap
      /\ line' = [line EXCEPT ![mine'] = l]
  BY Zenon DEF StartWorkload, L!Start
<1>2. l \in CommandLine /\ l.at = "start" /\ l.chain = prefix /\ ~l.dir
  <2>1. prefix \in Seq(PrefixCommand)
    BY Zenon DEF TypeOK
  <2>2. l \in CommandLine /\ l.at = "start" /\ l.chain = prefix /\ l.dir = L!NoLine.dir
    BY <2>1, NoLineType DEF CommandLine
  <2> QED
    BY Zenon, <2>2, NoLineType
<1> HIDE DEF l
<1>3. line'[mine'] = l /\ line' \in [Shell -> CommandLine]
      /\ \A t \in Shell \ {mine'} : line'[t] = line[t]
  BY <1>1, <1>2 DEF LineType
<1> QED
  BY Zenon, <1>1, <1>2, <1>3

\* At first no shell executes a command line.
LEMMA LineTypeInit == ExpInit => LineType /\ (\A s \in Shell : line[s] = L!NoLine) /\ ~trap
<1> SUFFICES ASSUME ExpInit PROVE LineType /\ (\A s \in Shell : line[s] = L!NoLine) /\ ~trap
  BY Zenon
<1>1. line = [s \in Shell |-> L!NoLine] /\ mine = NoShell /\ trap = FALSE
  BY Zenon DEF ExpInit, L!Init
<1> QED
  BY Zenon, <1>1, NoLineType DEF LineType

\* The types are kept.
LEMMA LineTypeNext == TypeOK /\ LineType /\ [ExpNext]_allVars => LineType'
<1> SUFFICES ASSUME TypeOK, LineType, [ExpNext]_allVars PROVE LineType'
  BY Zenon
<1>1. CASE StartWorkload
  BY Zenon, <1>1, StartFollows DEF LineType
<1>2. CASE HostDown
  <2>1. line' = [s \in Shell |-> L!NoLine] /\ mine' = mine
    BY Zenon, <1>2 DEF HostDown, L!PowerOff
  <2> QED
    BY Zenon, <2>1, NoLineType DEF LineType
<1>3. CASE OnHost
  <2>1. mine' = mine
    BY Zenon, <1>3 DEF OnHost
  <2> QED
    BY Zenon, <1>3, <2>1, OnHostFollows DEF LineType
<1>4. CASE ExpStart
  BY Zenon, <1>4 DEF ExpStart, launch, LineType
<1>5. CASE \/ FinishWorkload \/ Rest \/ UNCHANGED allVars
           \/ (Setup \/ Finish \/ Fail) /\ UNCHANGED <<mine, launch>>
  <2>1. UNCHANGED <<mine, line>>
    BY Zenon, <1>5 DEF FinishWorkload, Rest, allVars, launch
  <2> QED
    BY Zenon, <2>1 DEF LineType
<1> QED
  BY Zenon, <1>1, <1>2, <1>3, <1>4, <1>5 DEF ExpNext, Driver

\* No command line is being executed.
AllDone == \A s \in Shell : line[s].at = "done"

\* Where the driver is tells whether anything may be left of a command line.
\* The reboot is what ends the workload of an interrupted run.
LaunchSteps ==
  /\ mine # NoShell => cfg.kind = "batch"
  /\ pc = "send_reboot" /\ ~conn => AllDone
  /\ pc = "sleep" => rebooting \/ AllDone
  /\ pc = "reconnect" => AllDone
  /\ pc \in AfterBoot => \A s \in Shell : line[s].at # "done" => pc = "workload" /\ s = mine

\* The steps of the script before the host goes down.
LEMMA EarlySteps ==
  ( \/ Connect \/ StripOptions \/ MoveGrub("strip_mv", "memmap") \/ ReserveRegions
    \/ MoveGrub("memmap_mv", "tpp") \/ RestrictCpus
    \/ MoveGrub("tpp_mv", "update_grub") \/ UpdateGrub )
  => /\ pc' \notin {"send_reboot", "sleep", "reconnect"} \cup AfterBoot
     /\ UNCHANGED cfg
BY Zenon DEF Connect, StripOptions, MoveGrub, ReserveRegions, RestrictCpus, AppendOptions,
       UpdateGrub, Command, Skip, AfterBoot

\* The part of the script that runs in the new boot, but for the workload.
LEMMA LateSteps ==
  (Setup \/ Finish) /\ pc \in AfterBoot
  => /\ pc # "workload" /\ pc' \in AfterBoot \cup {"Err"} /\ UNCHANGED <<cfg, conn>>
<1> SUFFICES ASSUME Setup \/ Finish, pc \in AfterBoot
             PROVE  pc # "workload" /\ pc' \in AfterBoot \cup {"Err"} /\ UNCHANGED <<cfg, conn>>
  BY Zenon
<1>1. ~( \/ Connect \/ StripOptions \/ MoveGrub("strip_mv", "memmap") \/ ReserveRegions
         \/ MoveGrub("memmap_mv", "tpp") \/ RestrictCpus
         \/ MoveGrub("tpp_mv", "update_grub") \/ UpdateGrub \/ OpenSession \/ SendReboot
         \/ Sleep \/ Reconnect )
  BY Zenon DEF Connect, StripOptions, MoveGrub, ReserveRegions, RestrictCpus, AppendOptions,
         UpdateGrub, OpenSession, SendReboot, Sleep, Reconnect, Command, Skip, AfterBoot
<1>2. Late
  BY Zenon, <1>1 DEF Setup, Finish, Late
<1>3. pc # "workload"
  <2>1. ~( \/ SetUpHost \/ HugePagePool \/ SetThp \/ SetAslr \/ StartDamo \/ EnableLockStat
           \/ SetFsKnobs \/ EnableFbmm \/ SetPolicy ) \/ pc # "workload"
    BY Zenon DEF SetUpHost, HugePagePool, SetThp, SetAslr, StartDamo, EnableLockStat, SetFsKnobs,
           EnableFbmm, SetPolicy, Configure
  <2>2. ~( \/ WriteParams \/ PinCores \/ PerfPrefix \/ SpawnCollectors \/ NumactlPrefix
           \/ CgexecPrefix \/ BadgerTrapPrefix \/ WrapperPrefix ) \/ pc # "workload"
    BY ZenonT(30) DEF WriteParams, PinCores, PerfPrefix, SpawnCollectors, NumactlPrefix, CgexecPrefix,
           BadgerTrapPrefix, WrapperPrefix, Command, Skip, Push
  <2>3. ~( \/ PrepareFs \/ MountFs
           \/ SpawnTracker("mmap_tracker", "load", "mmap_tracker") \/ LoadServer
           \/ SpawnTracker("fault_tracker", "workload", "mm_fault_tracker") )
        \/ pc # "workload"
    BY ZenonT(30) DEF PrepareFs, MountFs, SpawnTracker, Spawn, LoadServer, Command, Skip
  <2>4. ~Finish \/ pc # "workload"
    BY Zenon DEF Finish, Signal, AwaitServerExit, RecordStats, WriteTimings, StopTracker,
           JoinTracker, Command, Skip
  <2> QED
    BY Zenon, <1>1, <2>1, <2>2, <2>3, <2>4 DEF Setup
<1> QED
  BY Zenon, <1>2, <1>3, LateFrame

\* What runs on the host is where the driver expects it, in every step, when the
\* reboot is neither lost nor slow.
LEMMA LaunchStepsNext ==
  ASSUME RebootFaults = {}, TypeOK, LineType, LaunchSteps, [ExpNext]_allVars
  PROVE  LaunchSteps'
<1>1. CASE ExpStart
  BY Zenon, <1>1 DEF ExpStart, Start, LaunchSteps, AfterBoot
<1>2. CASE StartWorkload
  <2>1. pc' = "workload" /\ pc = "workload" /\ cfg' = cfg /\ cfg.kind = "batch" /\ mine = NoShell
    BY Zenon, <1>2 DEF StartWorkload, vars, driver
  <2>2. AllDone
    BY Zenon, <2>1, ShellAssumption DEF LaunchSteps, AfterBoot, AllDone
  <2>3. \A s \in Shell : line'[s].at # "done" => s = mine'
    BY Zenon, <1>2, <2>2, StartFollows DEF AllDone
  <2> QED
    BY Zenon, <2>1, <2>3 DEF LaunchSteps
<1>3. CASE FinishWorkload
  <2>1. /\ pc = "workload" /\ pc' \notin {"send_reboot", "sleep", "reconnect"}
        /\ UNCHANGED <<cfg, mine, line>>
        /\ cfg.kind = "batch" => line[mine].at = "done"
    BY Zenon, <1>3 DEF FinishWorkload, RunWorkload, Command, launch
  <2>2. \A s \in Shell : line[s].at # "done" => s = mine
    BY Zenon, <2>1 DEF LaunchSteps, AfterBoot
  <2>3. \A s \in Shell : line[s].at = "done"
    BY Zenon, <2>1, <2>2, ShellAssumption DEF LaunchSteps
  <2> QED
    BY Zenon, <2>1, <2>3 DEF LaunchSteps
<1>4. CASE (Setup \/ Finish) /\ UNCHANGED <<mine, launch>>
  <2>1. UNCHANGED <<mine, line>> /\ AllDone' = AllDone
    BY Zenon, <1>4 DEF launch, AllDone
  <2>2. CASE pc \in AfterBoot
    <3>1. pc # "workload" /\ pc' \in AfterBoot \cup {"Err"} /\ UNCHANGED <<cfg, conn>>
      BY Zenon, <1>4, <2>2, LateSteps
    <3>2. AllDone
      BY Zenon, <2>2, <3>1 DEF LaunchSteps, AllDone
    <3>3. pc' \notin {"send_reboot", "sleep", "reconnect"}
      BY Zenon, <3>1 DEF AfterBoot
    <3> QED
      BY Zenon, <2>1, <3>1, <3>2, <3>3 DEF LaunchSteps, AllDone
  <2>3. CASE \/ Connect \/ StripOptions \/ MoveGrub("strip_mv", "memmap") \/ ReserveRegions
             \/ MoveGrub("memmap_mv", "tpp") \/ RestrictCpus
             \/ MoveGrub("tpp_mv", "update_grub") \/ UpdateGrub
    BY Zenon, <2>1, <2>3, EarlySteps DEF LaunchSteps
  <2>4. CASE OpenSession
    BY Zenon, <2>1, <2>4 DEF OpenSession, LaunchSteps, AfterBoot
  <2>5. CASE SendReboot
    BY Zenon, <2>1, <2>5 DEF SendReboot, LaunchSteps, AfterBoot
  <2>6. CASE Sleep
    BY Zenon, <2>1, <2>6 DEF Sleep, Skip, LaunchSteps, AfterBoot
  <2>7. CASE Reconnect
    <3>1. pc' = "setup_host" /\ cfg' = cfg /\ AllDone
      BY Zenon, <2>7 DEF Reconnect, LaunchSteps
    <3> QED
      BY Zenon, <2>1, <3>1 DEF LaunchSteps, AllDone
  <2>8. Late => pc \in AfterBoot
    BY Zenon, LateFrame
  <2> QED
    BY Zenon, <1>4, <2>2, <2>3, <2>4, <2>5, <2>6, <2>7, <2>8 DEF Setup, Finish, Late
<1>5. CASE (Fail \/ Interrupt) /\ UNCHANGED <<mine, launch>>
  BY Zenon, <1>5 DEF Fail, Interrupt, launch, LaunchSteps, AfterBoot
<1>6. CASE HostDown
  <2>1. AllDone'
    BY Zenon, <1>6, NoLineType DEF HostDown, L!PowerOff, AllDone
  <2>2. UNCHANGED <<mine, cfg>>
    BY Zenon, <1>6 DEF HostDown, ShutDown, Crash, PowerOff
  <2> QED
    BY Zenon, <2>1, <2>2 DEF LaunchSteps, AllDone
<1>7. CASE OnHost
  <2>1. PICK s \in Shell : line[s].at # "done" /\ \A t \in Shell \ {s} : line'[t] = line[t]
    BY Zenon, <1>7, OnHostFollows
  <2>2. UNCHANGED <<pc, cfg, conn, rebooting, mine>>
    BY Zenon, <1>7 DEF OnHost, vars, driver, kernel
  <2>3. ~AllDone
    BY Zenon, <2>1 DEF AllDone
  <2>4. \A t \in Shell : line'[t].at # "done" => line[t].at # "done"
    BY Zenon, <2>1
  <2> QED
    BY Zenon, <2>2, <2>3, <2>4 DEF LaunchSteps
<1>8. CASE (BootUp \/ SignalledExit \/ EarlyExit) /\ UNCHANGED <<mine, launch>>
  BY Zenon, <1>8 DEF BootUp, SignalledExit, EarlyExit, Exit, driver, launch, LaunchSteps, AllDone
<1>9. CASE UNCHANGED allVars
  BY Zenon, <1>9 DEF allVars, vars, driver, kernel, launch, LaunchSteps, AllDone
<1> QED
  BY Zenon, <1>1, <1>2, <1>3, <1>4, <1>5, <1>6, <1>7, <1>8, <1>9 DEF ExpNext, Driver, Rest

\* If `sudo reboot' is neither lost nor slow, nothing started from a command line
\* runs on the host during a run but the one command line the run has given and
\* waits for, wherever earlier runs were stopped and whenever the host crashes.
THEOREM AloneCorrect ==
  ASSUME RebootFaults = {}
  PROVE  ExpSpec => []AloneOnHost
<1>1. ExpInit => TypeOK /\ FbmmSteps /\ LineType /\ LaunchSteps
  <2>1. ExpInit => LaunchSteps
    BY Zenon DEF ExpInit, Init, LaunchSteps, AfterBoot
  <2> QED
    BY Zenon, <2>1, InitTypeAndFbmm, LineTypeInit DEF ExpInit
<1>2. TypeOK /\ FbmmSteps /\ LineType /\ [ExpNext]_allVars => TypeOK' /\ FbmmSteps' /\ LineType'
  BY Zenon, ExpStep, TypeNext, FbmmStepsNext, LineTypeNext
<1>3. TypeOK /\ LineType /\ LaunchSteps /\ [ExpNext]_allVars => LaunchSteps'
  BY Zenon, LaunchStepsNext
<1>4. LaunchSteps => AloneOnHost
  BY Zenon DEF LaunchSteps, AloneOnHost
<1> QED
  BY <1>1, <1>2, <1>3, <1>4, PTL DEF ExpSpec

-----------------------------------------------------------------------------
(***************************************************************************)
(* The directory and the trap of a workload.                               *)
(***************************************************************************)

\* FBMM was switched on before, if this run uses it.
AfterFbmm == {"policy", "badger", "mmap_tracker", "load", "fault_tracker", "workload"}

\* A command line that begins with fbmm_wrapper is only given, and its processes
\* only last, while FBMM is on.
DirSteps ==
  /\ conn /\ pc \in AfterFbmm /\ Has(prefix, "fbmm_wrapper") => "fbmm" \in env
  /\ \A s \in Shell :
       \/ line[s].dir
       \/ line[s].at # "done" /\ Has(line[s].chain, "fbmm_wrapper")
       => "fbmm" \in env

\* Of the settings only those of their own block are changed by a command, and
\* what a run does not change stays.
LEMMA FbmmStays ==
  (Setup \/ Finish \/ Fail) /\ "fbmm" \in env => "fbmm" \in env'
<1>1. ( \/ SetUpHost \/ HugePagePool \/ SetThp \/ SetAslr \/ StartDamo \/ EnableLockStat
        \/ SetFsKnobs \/ EnableFbmm \/ SetPolicy ) /\ "fbmm" \in env => "fbmm" \in env'
  BY Zenon DEF SetUpHost, HugePagePool, SetThp, SetAslr, StartDamo, EnableLockStat, SetFsKnobs,
         EnableFbmm, SetPolicy, Configure
<1>2. PrepareFs /\ "fbmm" \in env => "fbmm" \in env'
  BY ZenonT(30) DEF PrepareFs
<1>3. ( \/ Connect \/ StripOptions \/ MoveGrub("strip_mv", "memmap") \/ ReserveRegions
        \/ MoveGrub("memmap_mv", "tpp") \/ RestrictCpus
        \/ MoveGrub("tpp_mv", "update_grub") \/ UpdateGrub \/ OpenSession \/ SendReboot
        \/ Sleep \/ Reconnect ) => env' = env
  BY Zenon DEF Connect, StripOptions, MoveGrub, ReserveRegions, RestrictCpus, AppendOptions,
         UpdateGrub, OpenSession, SendReboot, Sleep, Reconnect, Command, Skip, kernel
<1>4. ( \/ WriteParams \/ PinCores \/ PerfPrefix \/ SpawnCollectors \/ NumactlPrefix
        \/ CgexecPrefix \/ BadgerTrapPrefix \/ WrapperPrefix \/ MountFs ) => env' = env
  BY ZenonT(30) DEF WriteParams, PinCores, PerfPrefix, SpawnCollectors, NumactlPrefix, CgexecPrefix,
         BadgerTrapPrefix, WrapperPrefix, MountFs, Command, Skip, Push, kernel
<1>5. ( \/ SpawnTracker("mmap_tracker", "load", "mmap_tracker") \/ LoadServer
        \/ SpawnTracker("fault_tracker", "workload", "mm_fault_tracker")
        \/ Finish \/ Fail ) => env' = env
  BY Zenon DEF SpawnTracker, Spawn, LoadServer, Finish, Signal, AwaitServerExit, RecordStats,
         WriteTimings, StopTracker, JoinTracker, Fail, Command, Skip, kernel
<1> QED
  BY Zenon, <1>1, <1>2, <1>3, <1>4, <1>5 DEF Setup

\* Where the driver comes to a command after the switching on of FBMM, it has
\* switched it on, or has put no wrapper into the prefix.
LEMMA FbmmIsOn ==
  ASSUME TypeOK, PrefixSteps, DirSteps, Setup \/ Finish \/ Fail,
         conn', pc' \in AfterFbmm, Has(prefix', "fbmm_wrapper")
  PROVE  "fbmm" \in env'
<1> USE DEF AfterFbmm
<1>1. CASE EnableFbmm
  BY Zenon, <1>1 DEF EnableFbmm, Configure
<1>2. CASE WrapperPrefix
  <2>1. pc = "wrapper" /\ prefix' = prefix
    BY Zenon, <1>2 DEF WrapperPrefix, Skip, Push
  <2> QED
    BY Zenon, <2>1 DEF PrefixSteps, Unwrapped
<1>3. CASE BadgerTrapPrefix
  <2>1. pc = "badger" /\ conn /\ env' = env
    BY ZenonT(30), <1>3 DEF BadgerTrapPrefix, Push, kernel
  <2>2. prefix \in Seq(PrefixCommand) /\ "badger-trap" \in PrefixCommand \ {"fbmm_wrapper"}
    BY Zenon DEF TypeOK, PrefixCommand
  <2>3. Has(prefix, "fbmm_wrapper")
    BY ZenonT(30), <1>3, <2>2, HasIf, HasConcat DEF BadgerTrapPrefix, Push
  <2> QED
    BY Zenon, <2>1, <2>3 DEF DirSteps
<1>4. ( \/ SetPolicy \/ SpawnTracker("mmap_tracker", "load", "mmap_tracker") \/ LoadServer
        \/ SpawnTracker("fault_tracker", "workload", "mm_fault_tracker") )
      => pc \in AfterFbmm /\ conn' = conn /\ prefix' = prefix
  BY Zenon DEF SetPolicy, Configure, SpawnTracker, Spawn, LoadServer, Command, Skip
<1>5. ~( \/ Connect \/ StripOptions \/ MoveGrub("strip_mv", "memmap") \/ ReserveRegions
         \/ MoveGrub("memmap_mv", "tpp") \/ RestrictCpus
         \/ MoveGrub("tpp_mv", "update_grub") \/ UpdateGrub \/ OpenSession \/ SendReboot
         \/ Sleep \/ Reconnect )
  BY ZenonT(30) DEF Connect, StripOptions, MoveGrub, ReserveRegions, RestrictCpus, AppendOptions,
         UpdateGrub, OpenSession, SendReboot, Sleep, Reconnect, Command, Skip
<1>6. ~( \/ SetUpHost \/ HugePagePool \/ SetThp \/ SetAslr \/ StartDamo \/ EnableLockStat
         \/ SetFsKnobs \/ PrepareFs \/ MountFs )
  BY Zenon DEF SetUpHost, HugePagePool, SetThp, SetAslr, StartDamo, EnableLockStat, SetFsKnobs,
         Configure, PrepareFs, MountFs, Command
<1>7. ~( \/ WriteParams \/ PinCores \/ PerfPrefix \/ SpawnCollectors \/ NumactlPrefix
         \/ CgexecPrefix )
  BY ZenonT(30) DEF WriteParams, PinCores, PerfPrefix, SpawnCollectors, NumactlPrefix, CgexecPrefix,
         Command, Push
<1>8. ~(Finish \/ Fail)
  BY Zenon DEF Finish, Signal, AwaitServerExit, RecordStats, WriteTimings, StopTracker, JoinTracker,
         Fail, Command, Skip
<1> QED
  BY Zenon, <1>1, <1>2, <1>3, <1>4, <1>5, <1>6, <1>7, <1>8, FbmmStays DEF Setup, DirSteps

\* The launcher whose image a process has is one of its command line.
LEMMA ImageIsLauncher ==
  ASSUME NEW k \in CommandLine, NEW w \in L!Launcher, L!Image(k) = w
  PROVE  Has(k.chain, w)
<1>1. w # "workload"
  BY Zenon DEF L!Launcher
<1>2. k.pos <= Len(k.chain) /\ k.chain[k.pos] = w
  BY Zenon, <1>1 DEF L!Image
<1>3. k.pos \in Nat \ {0} /\ k.chain \in Seq(PrefixCommand)
  BY DEF CommandLine
<1>4. k.pos \in 1..Len(k.chain)
  BY <1>2, <1>3
<1> QED
  BY Zenon, <1>2, <1>4 DEF Has

\* The steps of the launchers and of the workload.
LEMMA DirStepsLaunch ==
  ASSUME LineType, DirSteps, OnHost
  PROVE  DirSteps'
<1>1. UNCHANGED <<pc, conn, prefix, env>>
  BY Zenon DEF OnHost, vars, driver, kernel
<1>2. PICK s \in Shell : /\ line[s].at # "done" /\ Follows(line[s], line'[s])
                        /\ \A t \in Shell \ {s} : line'[t] = line[t]
  BY Zenon, OnHostFollows
<1>3. line[s] \in CommandLine
  BY Zenon DEF LineType
<1>4. L!Image(line[s]) = "fbmm_wrapper" => Has(line[s].chain, "fbmm_wrapper")
  BY Zenon, <1>3, ImageIsLauncher DEF L!Launcher
<1>5. \/ line'[s].dir
      \/ line'[s].at # "done" /\ Has(line'[s].chain, "fbmm_wrapper")
      => "fbmm" \in env
  BY Zenon, <1>2, <1>4 DEF Follows, DirSteps
<1> QED
  BY Zenon, <1>1, <1>2, <1>5 DEF DirSteps

\* Whatever runs, and whatever a run is stopped at, the directory of a process
\* has FBMM behind it.
LEMMA DirStepsNext ==
  ASSUME TypeOK, PrefixSteps, LineType, DirSteps, [ExpNext]_allVars
  PROVE  DirSteps'
<1>1. CASE ExpStart
  BY Zenon, <1>1 DEF ExpStart, Start, kernel, launch, DirSteps, AfterFbmm
<1>2. CASE StartWorkload
  <2>1. UNCHANGED <<pc, conn, prefix, env>> /\ pc = "workload" /\ conn
    BY Zenon, <1>2 DEF StartWorkload, vars, driver, kernel
  <2>2. Has(prefix, "fbmm_wrapper") => "fbmm" \in env
    BY Zenon, <2>1 DEF DirSteps, AfterFbmm
  <2> QED
    BY Zenon, <1>2, <2>1, <2>2, StartFollows DEF DirSteps
<1>3. CASE FinishWorkload
  BY Zenon, <1>3 DEF FinishWorkload, RunWorkload, Command, kernel, launch, DirSteps, AfterFbmm
<1>4. CASE (Setup \/ Finish \/ Fail) /\ UNCHANGED <<mine, launch>>
  <2>1. line' = line
    BY Zenon, <1>4 DEF launch
  <2> QED
    BY Zenon, <1>4, <2>1, FbmmStays, FbmmIsOn DEF DirSteps
<1>5. CASE HostDown
  <2>1. conn' = FALSE /\ \A s \in Shell : line'[s] = L!NoLine
    BY Zenon, <1>5 DEF HostDown, ShutDown, Crash, PowerOff, L!PowerOff
  <2> QED
    BY Zenon, <2>1, NoLineType DEF DirSteps
<1>6. CASE OnHost
  BY Zenon, <1>6, DirStepsLaunch
<1>7. CASE Rest
  <2>1. UNCHANGED <<line, prefix>>
    BY Zenon, <1>7 DEF Rest, Interrupt, BootUp, SignalledExit, EarlyExit, Exit, driver, kernel, launch
  <2>2. env' = env /\ (pc' = "Err" \/ UNCHANGED <<conn, pc>>)
    BY Zenon, <1>7 DEF Rest, Interrupt, BootUp, SignalledExit, EarlyExit, Exit, driver, kernel
  <2>3. conn' /\ pc' \in AfterFbmm => conn /\ pc \in AfterFbmm
    BY Zenon, <2>2 DEF AfterFbmm
  <2> QED
    BY Zenon, <2>1, <2>2, <2>3 DEF DirSteps
<1>8. CASE UNCHANGED allVars
  BY Zenon, <1>8 DEF allVars, vars, driver, kernel, launch, DirSteps
<1> QED
  BY Zenon, <1>1, <1>2, <1>3, <1>4, <1>5, <1>6, <1>7, <1>8 DEF ExpNext, Driver

\* A process is given a directory by fbmm_wrapper only while FBMM is on and its
\* file system mounted: wherever runs are stopped, whenever the host crashes,
\* and even if a reboot is lost or slow.
THEOREM DirCorrect == ExpSpec => []DirHasMount
<1>1. ExpInit => TypeOK /\ FbmmSteps /\ PrefixSteps /\ LineType /\ DirSteps
  <2>1. Init => PrefixSteps
    BY Zenon DEF Init, PrefixSteps, Unwrapped, Wrapped, Launched
  <2>2. ExpInit => DirSteps
    BY Zenon, LineTypeInit, NoLineType DEF ExpInit, Init, DirSteps, AfterFbmm
  <2> QED
    BY Zenon, <2>1, <2>2, InitTypeAndFbmm, LineTypeInit DEF ExpInit
<1>2. TypeOK /\ FbmmSteps /\ PrefixSteps /\ LineType /\ [ExpNext]_allVars
      => TypeOK' /\ FbmmSteps' /\ PrefixSteps' /\ LineType'
  BY Zenon, ExpStep, TypeNext, FbmmStepsNext, PrefixStepsNext, LineTypeNext
<1>3. TypeOK /\ PrefixSteps /\ LineType /\ DirSteps /\ [ExpNext]_allVars => DirSteps'
  BY Zenon, DirStepsNext
<1>4. FbmmHasMount /\ DirSteps => DirHasMount
  BY Zenon DEF FbmmHasMount, DirSteps, DirHasMount
<1>5. ExpSpec => []FbmmHasMount
  BY ImplementsDriver, FbmmMountCorrect, PTL
<1> QED
  BY <1>1, <1>2, <1>3, <1>4, <1>5, PTL DEF ExpSpec

\* The trap is off when a run gets its host back, and only badger-trap, which is
\* in the prefix only when it was asked for, switches it on.
TrapSteps ==
  /\ pc \in Launched /\ Has(prefix, "badger-trap") => Enabled("badger_trap")
  /\ pc \in AfterBoot => \A s \in Shell : line[s].at # "done" => line[s].chain = prefix
  /\ pc = "send_reboot" /\ ~conn => ~trap
  /\ pc = "sleep" => rebooting \/ ~trap
  /\ pc = "reconnect" => ~trap
  /\ pc \in AfterBoot /\ trap => Enabled("badger_trap")

\* The command line of the workload has badger trap only if it was asked for.
LEMMA TrapWanted ==
  ASSUME TypeOK, PrefixSteps, TrapSteps, [Next]_vars,
         pc' \in Launched, Has(prefix', "badger-trap")
  PROVE  Enabled("badger_trap")'
<1>1. CASE BadgerTrapPrefix
  <2>1. /\ pc = "badger" /\ cfg' = cfg
        /\ prefix' = prefix \o If(Enabled("badger_trap"), <<"badger-trap">>)
    BY Zenon, <1>1 DEF BadgerTrapPrefix, Push
  <2>2. prefix \in Seq(PrefixCommand) /\ ~Has(prefix, "badger-trap")
    BY Zenon, <2>1 DEF TypeOK, PrefixSteps, Wrapped
  <2>3. ~Enabled("badger_trap") => prefix' = prefix
    BY <2>1, <2>2 DEF If
  <2> QED
    BY Zenon, <2>1, <2>2, <2>3 DEF Enabled
<1>2. CASE NoPush
  BY Zenon, <1>2 DEF NoPush, TrapSteps, Enabled
<1>3. ~(Start \/ PerfPrefix \/ NumactlPrefix \/ CgexecPrefix \/ WrapperPrefix)
  BY Zenon DEF Start, PerfPrefix, NumactlPrefix, CgexecPrefix, WrapperPrefix, Push, Skip, Launched
<1> QED
  BY Zenon, <1>1, <1>2, <1>3, NoPushSteps DEF Pushes

\* The trap of a run is its own in every step, when the reboot is neither lost
\* nor slow.
LEMMA TrapStepsNext ==
  ASSUME RebootFaults = {}, TypeOK, PrefixSteps, LineType, LaunchSteps, TrapSteps,
         [ExpNext]_allVars
  PROVE  TrapSteps'
<1> DEFINE Goal == /\ pc' \in AfterBoot
                      => \A s \in Shell : line'[s].at # "done" => line'[s].chain = prefix'
                   /\ pc' = "send_reboot" /\ ~conn' => ~trap'
                   /\ pc' = "sleep" => rebooting' \/ ~trap'
                   /\ pc' = "reconnect" => ~trap'
                   /\ pc' \in AfterBoot /\ trap' => Enabled("badger_trap")'
<1>a. [Next]_vars
  BY Zenon, ExpStep
<1>b. pc' \in Launched /\ Has(prefix', "badger-trap") => Enabled("badger_trap")'
  BY Zenon, <1>a, TrapWanted
<1> SUFFICES Goal
  BY Zenon, <1>b DEF TrapSteps
<1>1. CASE ExpStart
  BY Zenon, <1>1 DEF ExpStart, Start, AfterBoot
<1>2. CASE StartWorkload
  <2>1. prefix' = prefix /\ pc' = "workload" /\ cfg' = cfg /\ pc = "workload"
    BY Zenon, <1>2 DEF StartWorkload, vars, driver
  <2>2. /\ trap' = trap /\ line'[mine'].chain = prefix
        /\ \A t \in Shell \ {mine'} : line'[t] = line[t]
    BY Zenon, <1>2, StartFollows
  <2> QED
    BY Zenon, <2>1, <2>2 DEF TrapSteps, Enabled, AfterBoot
<1>3. CASE FinishWorkload
  <2>1. /\ UNCHANGED <<cfg, prefix, line, trap>> /\ pc = "workload"
        /\ pc' \notin {"send_reboot", "sleep", "reconnect"}
    BY Zenon, <1>3 DEF FinishWorkload, RunWorkload, Command, launch
  <2> QED
    BY Zenon, <2>1 DEF TrapSteps, Enabled, AfterBoot
<1>4. CASE (Setup \/ Finish) /\ UNCHANGED <<mine, launch>>
  <2>1. UNCHANGED <<line, trap>>
    BY Zenon, <1>4 DEF launch
  <2>2. CASE pc \in AfterBoot
    <3>1. pc # "workload" /\ pc' \in AfterBoot \cup {"Err"} /\ UNCHANGED <<cfg, conn>>
      BY Zenon, <1>4, <2>2, LateSteps
    <3>2. AllDone
      BY Zenon, <2>2, <3>1 DEF LaunchSteps, AllDone
    <3>3. pc' \notin {"send_reboot", "sleep", "reconnect"}
      BY Zenon, <3>1 DEF AfterBoot
    <3>4. pc' \in AfterBoot /\ trap' => Enabled("badger_trap")'
      BY Zenon, <2>1, <2>2, <3>1 DEF TrapSteps, Enabled
    <3> QED
      BY Zenon, <2>1, <3>2, <3>3, <3>4 DEF AllDone
  <2>3. CASE \/ Connect \/ StripOptions \/ MoveGrub("strip_mv", "memmap") \/ ReserveRegions
             \/ MoveGrub("memmap_mv", "tpp") \/ RestrictCpus
             \/ MoveGrub("tpp_mv", "update_grub") \/ UpdateGrub
    BY Zenon, <2>3, EarlySteps
  <2>4. CASE OpenSession
    BY Zenon, <2>1, <2>4 DEF OpenSession, AfterBoot
  <2>5. CASE SendReboot
    BY Zenon, <2>1, <2>5 DEF SendReboot, TrapSteps, AfterBoot
  <2>6. CASE Sleep
    BY Zenon, <2>1, <2>6 DEF Sleep, Skip, TrapSteps, AfterBoot
  <2>7. CASE Reconnect
    <3>1. pc' = "setup_host" /\ AllDone /\ ~trap
      BY Zenon, <2>7 DEF Reconnect, LaunchSteps, TrapSteps
    <3> QED
      BY Zenon, <2>1, <3>1 DEF AllDone
  <2>8. Late => pc \in AfterBoot
    BY Zenon, LateFrame
  <2> QED
    BY Zenon, <1>4, <2>2, <2>3, <2>4, <2>5, <2>6, <2>7, <2>8 DEF Setup, Finish, Late
<1>5. CASE (Fail \/ Interrupt) /\ UNCHANGED <<mine, launch>>
  BY Zenon, <1>5 DEF Fail, Interrupt, AfterBoot
<1>6. CASE HostDown
  <2>1. ~trap' /\ \A s \in Shell : line'[s] = L!NoLine
    BY Zenon, <1>6 DEF HostDown, L!PowerOff
  <2> QED
    BY Zenon, <2>1, NoLineType
<1>7. CASE OnHost
  <2>1. PICK s \in Shell :
          /\ L!Launch(s) /\ line[s].at # "done" /\ Follows(line[s], line'[s])
          /\ \A t \in Shell \ {s} : line'[t] = line[t]
    BY Zenon, <1>7, OnHostFollows
  <2>2. UNCHANGED <<pc, cfg, conn, prefix, rebooting>>
    BY Zenon, <1>7 DEF OnHost, vars, driver, kernel
  <2>3. line[s] \in CommandLine /\ ~AllDone
    BY Zenon, <2>1 DEF LineType, AllDone
  <2>4. pc \in AfterBoot => \A t \in Shell : line'[t].at # "done" => line'[t].chain = prefix
    BY Zenon, <2>1 DEF Follows, TrapSteps
  <2>5. CASE L!TrapOn(s)
    <3>1. Has(line[s].chain, "badger-trap")
      BY Zenon, <2>3, <2>5, ImageIsLauncher DEF L!TrapOn, L!At, L!Launcher
    <3>2. pc \in AfterBoot => pc \in Launched /\ Has(prefix, "badger-trap")
      BY Zenon, <2>1, <3>1 DEF LaunchSteps, TrapSteps, Launched
    <3>3. pc \in AfterBoot => Enabled("badger_trap")
      BY Zenon, <3>2 DEF TrapSteps
    <3> QED
      BY Zenon, <2>2, <2>3, <2>4, <3>3 DEF LaunchSteps, Enabled
  <2>6. CASE ~L!TrapOn(s)
    <3>1. trap' = trap
      BY Zenon, <2>1, <2>6 DEF L!Launch, L!OpenMntDir, L!WriteMntDir, L!WrapperExec, L!Fork,
             L!ChildExec, L!Teardown, L!PassOn, L!End
    <3> QED
      BY Zenon, <2>2, <2>3, <2>4, <3>1 DEF TrapSteps, Enabled
  <2> QED
    BY Zenon, <2>5, <2>6
<1>8. CASE (BootUp \/ SignalledExit \/ EarlyExit) /\ UNCHANGED <<mine, launch>>
  BY Zenon, <1>8 DEF BootUp, SignalledExit, EarlyExit, Exit, driver, launch, TrapSteps, Enabled
<1>9. CASE UNCHANGED allVars
  BY Zenon, <1>9 DEF allVars, vars, driver, kernel, launch, TrapSteps, Enabled
<1> QED
  BY Zenon, <1>1, <1>2, <1>3, <1>4, <1>5, <1>6, <1>7, <1>8, <1>9 DEF ExpNext, Driver, Rest

\* If `sudo reboot' is neither lost nor slow, badger trap is on during a run only
\* if the run is to use it, although nothing switches it off.
THEOREM TrapCorrect ==
  ASSUME RebootFaults = {}
  PROVE  ExpSpec => []TrapIsOurs
<1>1. ExpInit => TypeOK /\ FbmmSteps /\ PrefixSteps /\ LineType /\ LaunchSteps /\ TrapSteps
  <2>1. Init => PrefixSteps
    BY Zenon DEF Init, PrefixSteps, Unwrapped, Wrapped, Launched
  <2>2. ExpInit => LaunchSteps /\ TrapSteps
    BY Zenon DEF ExpInit, Init, LaunchSteps, TrapSteps, AfterBoot, Launched
  <2> QED
    BY Zenon, <2>1, <2>2, InitTypeAndFbmm, LineTypeInit DEF ExpInit
<1>2. TypeOK /\ FbmmSteps /\ PrefixSteps /\ LineType /\ [ExpNext]_allVars
      => TypeOK' /\ FbmmSteps' /\ PrefixSteps' /\ LineType'
  BY Zenon, ExpStep, TypeNext, FbmmStepsNext, PrefixStepsNext, LineTypeNext
<1>3. TypeOK /\ LineType /\ LaunchSteps /\ [ExpNext]_allVars => LaunchSteps'
  BY Zenon, LaunchStepsNext
<1>4. TypeOK /\ PrefixSteps /\ LineType /\ LaunchSteps /\ TrapSteps /\ [ExpNext]_allVars
      => TrapSteps'
  BY Zenon, TrapStepsNext
<1>5. TrapSteps => TrapIsOurs
  BY Zenon DEF TrapSteps, TrapIsOurs
<1> QED
  BY <1>1, <1>2, <1>3, <1>4, <1>5, PTL DEF ExpSpec
=============================================================================
