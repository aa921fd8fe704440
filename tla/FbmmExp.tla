------------------------------- MODULE FbmmExp -------------------------------
(***************************************************************************)
(* The experiment driver of runner/src/fbmm_exp.rs and the remote host it  *)
(* drives over ssh.                                                        *)
(*                                                                         *)
(* run_inner is one long script of remote commands; the `?' after each     *)
(* makes any failed command end the run where it stands, with no cleanup.  *)
(* What a run leaves on the host is either persistent (the grub files) or  *)
(* lasts until the next boot (mounts, modules, knobs, processes).          *)
(* Experiments with different configurations follow one another on the     *)
(* same host, and the host itself may crash.                               *)
(***************************************************************************)
EXTENDS Naturals, Sequences

CONSTANTS
  Configs,      \* the configurations experiments are run with
  Regions,      \* the physical memory ranges a `memmap=' option may reserve
  HostCores,    \* cores of the host the workload can be pinned to
  MaxCrashes,   \* bound: how often the host crashes by itself
  RebootFaults  \* what may go wrong with `sudo reboot': it is "slow" to take
                \* the host down, or it is "lost"

\* The file systems of enum MMFS.
MMFS == {"ext4", "basic", "tiered", "contig", "bandwidth"}

\* fbmm-only knobs, and the ones only the TPP kernel has.
FbmmKnobs == {"pte_fault_size", "thp_temporal_zero", "no_fpm_fix",
              "no_pmem_write_zeroes", "track_pfn_insert", "mark_inode_dirty",
              "no_prealloc"}
NumaKnobs == {"numa_scan_size", "numa_scan_delay", "numa_scan_period_min"}

\* The periodic background collectors.
Collectors == {"smaps_periodic", "tmmfs_stats_periodic",
               "tmmfs_active_list_periodic"}

\* The flags of struct Config.
Options == FbmmKnobs \cup NumaKnobs \cup Collectors \cup
  {"tpp", "fbmm_control", "hmsdk_bw", "hmsdk_tiered", "node_weight", "numactl",
   "hugetlb", "disable_thp", "disable_aslr", "perf_stat", "perf_periodic",
   "flame_graph", "lock_stat", "badger_trap", "mmap_tracker",
   "mm_fault_tracker", "migrate_task_int", "ext4_metadata"}

NoRegion == "no region"

\* dram_region and pmem_region are Option<MemRegion>; threads is the number of
\* cores the workload is pinned to; a server workload (memcached, postgres) is
\* loaded before it is measured, any other runs once.
Config == [fbmm : MMFS \cup {"none"}, opts : SUBSET Options,
           dram : Regions \cup {NoRegion}, pmem : Regions \cup {NoRegion},
           kind : {"batch", "server"}, threads : Nat]

\* What clap accepts: the requires/conflicts_with rules of cli_options.
CliAccepts(c) ==
  /\ "tpp" \in c.opts => c.dram # NoRegion /\ c.fbmm = "none"
  /\ "hugetlb" \in c.opts => c.fbmm = "none" /\ "tpp" \notin c.opts
  /\ "fbmm_control" \in c.opts => c.fbmm # "none"
  /\ "hmsdk_bw" \in c.opts => {"node_weight", "hmsdk_tiered"} \cap c.opts = {"node_weight"}
  /\ c.fbmm = "tiered" <=> c.pmem # NoRegion
  /\ c.fbmm = "tiered" => c.dram # NoRegion
  /\ c.opts \cap {"tmmfs_stats_periodic", "tmmfs_active_list_periodic"} # {}
       => c.fbmm = "tiered"
  /\ "perf_periodic" \in c.opts => "perf_stat" \in c.opts
  /\ "thp_temporal_zero" \in c.opts
       => c.fbmm = "none" /\ "disable_thp" \notin c.opts

\* The default start of the PMEM region is the end of the DRAM region, so the
\* two regions of one configuration are different.
ASSUME ConfigsAssumption ==
  /\ Configs \subseteq Config
  /\ \A c \in Configs : CliAccepts(c) /\ (c.dram # NoRegion => c.dram # c.pmem)

ASSUME BoundsAssumption ==
  /\ HostCores \in Nat /\ MaxCrashes \in Nat /\ RebootFaults \subseteq {"slow", "lost"}
  /\ Regions \cap {NoRegion, "do_tpp", "maxcpus"} = {}

-----------------------------------------------------------------------------
VARIABLES
  \* the driver
  pc,         \* the command run_inner is at; "Ok" and "Err" are its results
  cfg,        \* the configuration of the run
  prefix,     \* cmd_prefix, as the sequence of its commands
  files,      \* the result files of this run
  conn,       \* is ushell's ssh session one of the host's current boot?
  \* the host, persistent
  grub,       \* GRUB_CMDLINE_LINUX of /etc/default/grub: copies of each option
  tmp,        \* the same of /tmp/grub
  menu,       \* the options update-grub2 wrote for the next boot
  \* the host, until it goes down
  up,         \* does it answer?
  rebooting,  \* was `sudo reboot' issued in this boot?
  boot,       \* the options this boot was started with
  env,        \* the settings made since boot
  mods,       \* the file system modules loaded
  mount,      \* the file system mounted on ~/daxtmp
  procs,      \* trackers, collectors and servers running
  signalled,  \* the ones among them that were sent SIGINT
  crashes     \* crashes so far

driver == <<pc, cfg, prefix, files, conn>>
disk == <<grub, tmp, menu>>
kernel == <<up, rebooting, boot, env, mods, mount, procs, signalled, crashes>>
vars == <<driver, disk, kernel>>

BootOption == Regions \cup {"do_tpp", "maxcpus"}
NoOptions == [o \in BootOption |-> 0]
Tracker == {"mm_fault_tracker", "mmap_tracker"}
PrefixCommand == {"perf stat", "perf record", "numactl", "hmsdk numactl", "cgexec",
                  "fbmm_wrapper", "badger-trap"}
Settings == {"performance", "printk", "thp_always", "thp_never", "aslr_on",
             "aslr_off", "damo", "fbmm", "numa_balancing", "demotion"}

\* Appends one copy of each option of S to a command line.
AddOptions(line, S) == [o \in BootOption |-> IF o \in S THEN line[o] + 1 ELSE line[o]]

Init ==
  /\ pc = "idle" /\ cfg \in Configs /\ prefix = <<>> /\ files = {} /\ conn = FALSE
  /\ grub = NoOptions /\ tmp = NoOptions /\ menu = NoOptions
  /\ up = TRUE /\ rebooting = FALSE /\ boot = NoOptions
  /\ env = {} /\ mods = {} /\ mount = "none" /\ procs = {} /\ signalled = {}
  /\ crashes = 0

\* The next command of the script succeeds; it needs the session.
Command(from, to) == pc = from /\ conn /\ pc' = to

\* No command is needed.
Skip(from, to) == pc = from /\ pc' = to /\ UNCHANGED <<cfg, prefix, files, conn, disk, kernel>>

\* Mutant: the results of the commands are dropped.
ConfigureUnchecked(from, to, Old, S) ==
  /\ pc = from /\ (S # {} => conn)
  /\ \E done \in SUBSET S : env' = (env \ Old) \cup done /\ pc' = to
  /\ UNCHANGED <<cfg, prefix, files, conn, disk, up, rebooting, boot, mods,
                 mount, procs, signalled, crashes>>

\* The commands `echo v | sudo tee knob' of one block, one for each of S, in
\* place of the settings in Old.  If one of them fails the run ends there.
Configure(from, to, Old, S) ==
  /\ pc = from /\ (S # {} => conn)
  /\ \/ env' = (env \ Old) \cup S /\ pc' = to
     \/ \E done \in SUBSET S : env' = (env \ Old) \cup done /\ pc' = "Err"
  /\ UNCHANGED <<cfg, prefix, files, conn, disk, up, rebooting, boot, mods,
                 mount, procs, signalled, crashes>>

\* Mutant: the words are put in front of the prefix.
PushFront(from, to, words) ==
  /\ pc = from /\ pc' = to /\ prefix' = words \o prefix
  /\ UNCHANGED <<cfg, files, conn, disk, kernel>>

\* cmd_prefix.push_str for each of the words.
Push(from, to, words) ==
  /\ pc = from /\ pc' = to /\ prefix' = prefix \o words
  /\ UNCHANGED <<cfg, files, conn, disk, kernel>>

If(cond, words) == IF cond THEN words ELSE <<>>

Enabled(o) == o \in cfg.opts

(***************************************************************************)
(* The persistent half: the boot options.                                  *)
(***************************************************************************)

\* run parses a command line into a Config and enters run_inner.
Start ==
  /\ pc \in {"idle", "Ok", "Err"}
  /\ cfg' \in Configs
  /\ pc' = "connect" /\ prefix' = <<>> /\ files' = {} /\ conn' = FALSE
  /\ UNCHANGED <<disk, kernel>>

Connect ==
  /\ pc = "connect" /\ up
  /\ pc' = "strip" /\ conn' = TRUE
  /\ UNCHANGED <<cfg, prefix, files, disk, kernel>>

\* Mutant: the sed for do_tpp is missing.
StripAllButTpp ==
  /\ Command("strip", "strip_mv")
  /\ tmp' = [NoOptions EXCEPT !["do_tpp"] = grub["do_tpp"]]
  /\ UNCHANGED <<cfg, prefix, files, conn, grub, menu, kernel>>

\* The three global seds take every memmap, do_tpp and maxcpus option out.
StripOptions ==
  /\ Command("strip", "strip_mv") /\ tmp' = NoOptions
  /\ UNCHANGED <<cfg, prefix, files, conn, grub, menu, kernel>>

\* sudo mv /tmp/grub /etc/default/grub
MoveGrub(from, to) ==
  /\ Command(from, to) /\ grub' = tmp
  /\ UNCHANGED <<cfg, prefix, files, conn, tmp, menu, kernel>>

\* sed ... /etc/default/grub | sudo tee /tmp/grub, appending options.
AppendOptions(from, to, S) ==
  /\ Command(from, to) /\ tmp' = AddOptions(grub, S)
  /\ UNCHANGED <<cfg, prefix, files, conn, grub, menu, kernel>>

\* PMEM is reserved only together with DRAM.
MemmapOptions(c) == IF c.dram = NoRegion THEN {} ELSE {c.dram, c.pmem} \ {NoRegion}
TppOptions(c) == IF "tpp" \in c.opts THEN {"do_tpp", "maxcpus"} ELSE {}

ReserveRegions ==
  IF cfg.dram # NoRegion THEN AppendOptions("memmap", "memmap_mv", MemmapOptions(cfg))
  ELSE Skip("memmap", "tpp")

RestrictCpus ==
  IF Enabled("tpp") THEN AppendOptions("tpp", "tpp_mv", TppOptions(cfg))
  ELSE Skip("tpp", "update_grub")

\* Mutant: update-grub2 is forgotten.
KeepMenu ==
  /\ Command("update_grub", "reboot")
  /\ UNCHANGED <<cfg, prefix, files, conn, disk, kernel>>

UpdateGrub ==
  /\ Command("update_grub", "reboot") /\ menu' = grub
  /\ UNCHANGED <<cfg, prefix, files, conn, grub, tmp, kernel>>

(***************************************************************************)
(* connect_and_setup_host                                                  *)
(***************************************************************************)

\* A second session is opened for the reboot.
OpenSession ==
  /\ pc = "reboot" /\ up /\ pc' = "send_reboot" /\ conn' = TRUE
  /\ UNCHANGED <<cfg, prefix, files, disk, kernel>>

\* `let _ =' drops the result of `sudo reboot': if the session is gone, or the
\* command is lost, the script goes on all the same.
SendReboot ==
  /\ pc = "send_reboot" /\ pc' = "sleep" /\ conn' = FALSE
  /\ \/ conn /\ rebooting' = TRUE
     \/ (~conn \/ "lost" \in RebootFaults) /\ UNCHANGED rebooting
  /\ UNCHANGED <<cfg, prefix, files, disk, up, boot, env, mods, mount, procs,
                 signalled, crashes>>

\* thread::sleep(5 s): a shutdown that is not slow is over by then.
Sleep ==
  /\ rebooting => "slow" \in RebootFaults
  /\ Skip("sleep", "reconnect")

\* The loop retries until a connection and `whoami' succeed.
Reconnect ==
  /\ pc = "reconnect" /\ up /\ pc' = "setup_host" /\ conn' = TRUE
  /\ UNCHANGED <<cfg, prefix, files, disk, kernel>>

\* dump_sys_info, cpupower, lscpu and the printk level.
SetUpHost == Configure("setup_host", "hugetlb", {}, {"performance", "printk"})

(***************************************************************************)
(* The half that lasts until the next boot.                                *)
(***************************************************************************)
HugePagePool == Configure("hugetlb", "params", {}, cfg.opts \cap {"hugetlb"})

\* The configuration, as JSON.
WriteParams ==
  /\ Command("params", "thp") /\ files' = files \cup {"params"}
  /\ UNCHANGED <<cfg, prefix, conn, disk, kernel>>

SetThp == Configure("thp", "aslr", {"thp_always", "thp_never"},
                    IF Enabled("disable_thp") THEN {"thp_never"} ELSE {"thp_always"})

SetAslr == Configure("aslr", "pin", {"aslr_on", "aslr_off"},
                     IF Enabled("disable_aslr") THEN {"aslr_off"} ELSE {"aslr_on"})

\* do_tpp comes with maxcpus=8.
UsableCores == IF boot["maxcpus"] > 0 /\ HostCores > 8 THEN 8 ELSE HostCores

\* Takes one core for each thread from the taskset context, or returns Err.
PinCores ==
  /\ pc = "pin" /\ conn
  /\ pc' = IF cfg.threads <= UsableCores THEN "perf" ELSE "Err"
  /\ UNCHANGED <<cfg, prefix, files, conn, disk, kernel>>

PerfPrefix == Push("perf", "collectors", If(Enabled("perf_stat"), <<"perf stat">>)
                                         \o If(Enabled("flame_graph"), <<"perf record">>))

\* bgctx.spawn for each periodic collector; an error ends the run half way.
SpawnCollectors ==
  /\ pc = "collectors" /\ (cfg.opts \cap Collectors # {} => conn)
  /\ \/ procs' = procs \cup (cfg.opts \cap Collectors) /\ pc' = "numactl"
     \/ \E done \in SUBSET (cfg.opts \cap Collectors) : procs' = procs \cup done /\ pc' = "Err"
  /\ UNCHANGED <<cfg, prefix, files, conn, disk, up, rebooting, boot, env, mods,
                 mount, signalled, crashes>>

NumactlPrefix == Push("numactl", "damo", If(Enabled("numactl"), <<"numactl">>)
                                         \o If(Enabled("hmsdk_bw"), <<"hmsdk numactl">>))

StartDamo == Configure("damo", "cgexec", {}, IF Enabled("hmsdk_tiered") THEN {"damo"} ELSE {})

CgexecPrefix == Push("cgexec", "lock_stat", If(Enabled("hmsdk_tiered"), <<"cgexec">>))

EnableLockStat == Configure("lock_stat", "wrapper", {}, cfg.opts \cap {"lock_stat"})

(***************************************************************************)
(* FBMM: the mount that backs anonymous memory.                            *)
(***************************************************************************)

\* /dev/pmem0, /dev/pmem1: one for each memmap option of this boot.
PmemDevices == {r \in Regions : boot[r] > 0}

\* Mutant: the wrapper is put in front of every workload.
WrapperPrefixAlways ==
  IF cfg.fbmm = "none" THEN Push("wrapper", "policy", <<"fbmm_wrapper">>)
  ELSE Push("wrapper", "module", If(~Enabled("fbmm_control"), <<"fbmm_wrapper">>))

WrapperPrefix ==
  IF cfg.fbmm = "none" THEN Skip("wrapper", "policy")
  ELSE Push("wrapper", "module", If(~Enabled("fbmm_control"), <<"fbmm_wrapper">>))

\* mkfs.ext4 and tune2fs on /dev/pmem0, or insmod of the file system's module,
\* which fails if it is already loaded.
PrepareFs ==
  /\ Command("module", "mount")
  /\ \/ /\ cfg.fbmm = "ext4" /\ PmemDevices # {} /\ mount # "ext4"
        /\ env' = (env \ {"ext4_metadata"}) \cup (cfg.opts \cap {"ext4_metadata"})
        /\ UNCHANGED mods
     \/ /\ cfg.fbmm # "ext4" /\ cfg.fbmm \notin mods
        /\ mods' = mods \cup {cfg.fbmm}
        /\ UNCHANGED env
  /\ UNCHANGED <<cfg, prefix, files, conn, disk, up, rebooting, boot, mount,
                 procs, signalled, crashes>>

\* Mutant: the result of mount is not looked at.
MountFsUnchecked ==
  /\ Command("mount", "fs_knobs")
  /\ mount' \in {mount, cfg.fbmm}
  /\ UNCHANGED <<cfg, prefix, files, conn, disk, up, rebooting, boot, env, mods,
                 procs, signalled, crashes>>

\* TieredMMFS takes /dev/pmem0 as fast and /dev/pmem1 as slow memory.
MountFs ==
  /\ Command("mount", "fs_knobs")
  /\ cfg.fbmm = "tiered" => \E r, s \in PmemDevices : r # s
  /\ mount' = cfg.fbmm
  /\ UNCHANGED <<cfg, prefix, files, conn, disk, up, rebooting, boot, env, mods,
                 procs, signalled, crashes>>

FsKnobs(c) == c.opts \cap ((IF c.fbmm = "tiered" THEN {"migrate_task_int"} ELSE {})
                    \cup (IF c.fbmm = "bandwidth" THEN {"node_weight"} ELSE {}))

SetFsKnobs == Configure("fs_knobs", "fbmm_on", {}, FsKnobs(cfg))

\* chown the mount and write 1 to /sys/kernel/mm/fbmm/state.
EnableFbmm == Configure("fbmm_on", "policy", {}, {"fbmm"})

PolicyKnobs(c) ==
  IF "tpp" \in c.opts THEN {"numa_balancing", "demotion"} \cup (c.opts \cap NumaKnobs)
  ELSE IF c.fbmm # "none" THEN c.opts \cap FbmmKnobs
  ELSE {}

SetPolicy == Configure("policy", "badger", {}, PolicyKnobs(cfg))

\* Mutant: whether the option was given is not looked at.
BadgerTrapAlways == Push("badger", "mmap_tracker", <<"badger-trap">>)

BadgerTrapPrefix == Push("badger", "mmap_tracker",
                         If(Enabled("badger_trap"), <<"badger-trap">>))

(***************************************************************************)
(* The measurement.                                                        *)
(***************************************************************************)

\* The process p is started in the background.
Spawn(from, to, p) ==
  /\ Command(from, to) /\ procs' = procs \cup {p}
  /\ UNCHANGED <<cfg, prefix, files, conn, disk, up, rebooting, boot, env, mods,
                 mount, signalled, crashes>>

\* ushell.spawn(tracker), and 10 s for the BPF verifier.
SpawnTracker(from, to, t) == IF Enabled(t) THEN Spawn(from, to, t) ELSE Skip(from, to)

\* ycsb.start_and_load starts the server under cmd_prefix and fills it.
LoadServer ==
  IF cfg.kind = "server" THEN Spawn("load", "fault_tracker", "server")
  ELSE Skip("load", "fault_tracker")

\* run_alloc_test, run_gups, ..., ycsb.run: the measured part.  A server can
\* only be driven while it is there.
RunWorkload ==
  /\ Command("workload", IF cfg.kind = "server" THEN "stop_server" ELSE "stats")
  /\ cfg.kind = "server" => "server" \in procs
  /\ files' = files \cup {"workload"}
  /\ UNCHANGED <<cfg, prefix, conn, disk, kernel>>

\* pkill -INT, killall -SIGINT: fail when there is nothing to signal.
Signal(from, to, p) ==
  /\ Command(from, to) /\ p \in procs
  /\ signalled' = signalled \cup {p}
  /\ UNCHANGED <<cfg, prefix, files, conn, disk, up, rebooting, boot, env, mods,
                 mount, procs, crashes>>

\* memcached-tool and pg_isready are polled until they fail, and 20 s are left to
\* the server then.  They fail once it is gone, but also while it shuts down and
\* refuses connections, or when the session is gone.
AwaitServerExit ==
  /\ pc = "await_server" /\ pc' = "stats"
  /\ UNCHANGED <<cfg, prefix, files, conn, disk, kernel>>

\* The fbmm, vmstat, flame graph, lock and badger trap records.
RecordStats ==
  /\ Command("stats", "kill_fault") /\ files' = files \cup {"stats"}
  /\ UNCHANGED <<cfg, prefix, conn, disk, kernel>>

\* Mutant: it is joined without having been told to stop.
StopTrackerNot(from, join, to, t) == Skip(from, IF Enabled(t) THEN join ELSE to)

\* A tracker that was spawned is signalled and its handle joined.
StopTracker(from, join, to, t) ==
  IF Enabled(t) THEN Signal(from, join, t) ELSE Skip(from, to)

\* Mutant: the handle is dropped, not joined.
DropTracker(from, to, t) ==
  /\ Command(from, to)
  /\ UNCHANGED <<cfg, prefix, files, conn, disk, kernel>>

JoinTracker(from, to, t) ==
  /\ Command(from, to) /\ t \notin procs
  /\ UNCHANGED <<cfg, prefix, files, conn, disk, kernel>>

WriteTimings ==
  /\ Command("timings", "Ok") /\ files' = files \cup {"time"}
  /\ UNCHANGED <<cfg, prefix, conn, disk, kernel>>

\* A command fails, or the session it needs is gone: `?' ends run_inner with no
\* cleanup.  The result of the reboot and errors in the two polling loops do not
\* end it, and a join fails only with its session.
Fail ==
  /\ pc \notin {"idle", "Ok", "Err", "send_reboot", "sleep", "reconnect", "await_server"}
  /\ pc \in {"join_fault", "join_mmap"} => ~conn
  /\ pc' = "Err"
  /\ UNCHANGED <<cfg, prefix, files, conn, disk, kernel>>

\* The user stops the driver, at any point.
Interrupt ==
  /\ pc \notin {"idle", "Ok", "Err"} /\ pc' = "Err"
  /\ UNCHANGED <<cfg, prefix, files, conn, disk, kernel>>

(***************************************************************************)
(* The host.                                                               *)
(***************************************************************************)

\* Everything that does not survive a boot goes.
PowerOff ==
  /\ up' = FALSE /\ rebooting' = FALSE /\ conn' = FALSE
  /\ env' = {} /\ mods' = {} /\ mount' = "none" /\ procs' = {} /\ signalled' = {}
  /\ UNCHANGED <<pc, cfg, prefix, files, disk, boot>>

ShutDown == up /\ rebooting /\ PowerOff /\ UNCHANGED crashes

Crash == up /\ crashes < MaxCrashes /\ PowerOff /\ crashes' = crashes + 1

BootUp ==
  /\ ~up /\ up' = TRUE /\ boot' = menu
  /\ UNCHANGED <<driver, disk, rebooting, env, mods, mount, procs, signalled, crashes>>

Exit(p) ==
  /\ procs' = procs \ {p} /\ signalled' = signalled \ {p}
  /\ UNCHANGED <<driver, disk, up, rebooting, boot, env, mods, mount, crashes>>

SignalledExit == \E p \in signalled : Exit(p)

\* A tracker or a server dies by itself: BPF fails to load, out of memory.
EarlyExit == \E p \in procs \cap (Tracker \cup {"server"}) : Exit(p)

-----------------------------------------------------------------------------
Setup ==
  \/ Connect
  \/ StripOptions \/ MoveGrub("strip_mv", "memmap")
  \/ ReserveRegions \/ MoveGrub("memmap_mv", "tpp")
  \/ RestrictCpus \/ MoveGrub("tpp_mv", "update_grub")
  \/ UpdateGrub \/ OpenSession \/ SendReboot \/ Sleep \/ Reconnect \/ SetUpHost
  \/ HugePagePool \/ WriteParams \/ SetThp \/ SetAslr \/ PinCores
  \/ PerfPrefix \/ SpawnCollectors \/ NumactlPrefix \/ StartDamo \/ CgexecPrefix
  \/ EnableLockStat \/ WrapperPrefix \/ PrepareFs \/ MountFs \/ SetFsKnobs
  \/ EnableFbmm \/ SetPolicy \/ BadgerTrapPrefix
  \/ SpawnTracker("mmap_tracker", "load", "mmap_tracker")
  \/ LoadServer
  \/ SpawnTracker("fault_tracker", "workload", "mm_fault_tracker")

Finish ==
  \/ Signal("stop_server", "await_server", "server") \/ AwaitServerExit
  \/ RecordStats
  \/ StopTracker("kill_fault", "join_fault", "kill_mmap", "mm_fault_tracker")
  \/ JoinTracker("join_fault", "kill_mmap", "mm_fault_tracker")
  \/ StopTracker("kill_mmap", "join_mmap", "timings", "mmap_tracker")
  \/ JoinTracker("join_mmap", "timings", "mmap_tracker")
  \/ WriteTimings

Script == Setup \/ RunWorkload \/ Finish

Host == ShutDown \/ BootUp \/ SignalledExit \/ EarlyExit \/ Crash

Next == Start \/ Script \/ Fail \/ Interrupt \/ Host

Spec == Init /\ [][Next]_vars

\* The poll need not fail while there is a server to answer it.
ServerAnswers == pc = "await_server" /\ conn /\ "server" \in procs

\* The driver runs on, a host told to reboot does, a host that is down is
\* brought up, and SIGINT ends the trackers and servers.
FairSpec == Spec /\ WF_vars(~ServerAnswers /\ (Script \/ Fail)) /\ WF_vars(ShutDown)
                 /\ WF_vars(BootUp) /\ WF_vars(SignalledExit)

-----------------------------------------------------------------------------
\* The options that stand for a setting of the host.
Knobs == FbmmKnobs \cup NumaKnobs \cup
  {"hugetlb", "lock_stat", "ext4_metadata", "migrate_task_int", "node_weight"}

\* The settings a command line asks for: those of every run, and what each of its
\* options says.
Asked(c) ==
  {"performance", "printk"} \cup (c.opts \cap Knobs)
  \cup {IF "disable_thp" \in c.opts THEN "thp_never" ELSE "thp_always",
        IF "disable_aslr" \in c.opts THEN "aslr_off" ELSE "aslr_on"}
  \cup (IF "hmsdk_tiered" \in c.opts THEN {"damo"} ELSE {})
  \cup (IF "tpp" \in c.opts THEN {"numa_balancing", "demotion"} ELSE {})
  \cup (IF c.fbmm # "none" THEN {"fbmm"} ELSE {})

\* The knobs of what a run does not use: of FBMM, of the TPP kernel, and of the
\* file systems it does not mount.
Unused(c) ==
  (IF c.fbmm = "none" THEN FbmmKnobs \ {"thp_temporal_zero"} ELSE {})
  \cup (IF "tpp" \in c.opts THEN {} ELSE NumaKnobs)
  \cup (IF c.fbmm = "ext4" THEN {} ELSE {"ext4_metadata"})
  \cup (IF c.fbmm = "tiered" THEN {} ELSE {"migrate_task_int"})
  \cup (IF c.fbmm = "bandwidth" THEN {} ELSE {"node_weight"})

BeforeBoot ==
  {"idle", "Err", "connect", "strip", "strip_mv", "memmap", "memmap_mv", "tpp",
   "tpp_mv", "update_grub", "reboot", "send_reboot", "sleep", "reconnect"}

\* The commands that run in the boot the run asked for.
AfterBoot ==
  {"setup_host", "hugetlb", "params", "thp", "aslr", "pin", "perf", "collectors",
   "numactl", "damo", "cgexec", "lock_stat", "wrapper", "module", "mount",
   "fs_knobs", "fbmm_on", "policy", "badger", "mmap_tracker", "load",
   "fault_tracker", "workload", "stop_server", "await_server", "stats",
   "kill_fault", "join_fault", "kill_mmap", "join_mmap", "timings", "Ok"}

\* The values the variables range over.
TypeOK ==
  /\ cfg \in Configs /\ prefix \in Seq(PrefixCommand)
  /\ files \subseteq {"params", "workload", "stats", "time"}
  /\ pc \in BeforeBoot \cup AfterBoot
  /\ grub \in [BootOption -> Nat] /\ tmp \in [BootOption -> Nat]
  /\ menu \in [BootOption -> Nat] /\ boot \in [BootOption -> Nat]
  /\ conn \in BOOLEAN /\ up \in BOOLEAN /\ rebooting \in BOOLEAN
  /\ env \subseteq Options \cup Settings
  /\ mods \subseteq MMFS /\ mount \in MMFS \cup {"none"}
  /\ procs \subseteq Tracker \cup Collectors \cup {"server"}
  /\ signalled \subseteq procs
  /\ crashes \in 0..MaxCrashes

\* From its reconnection on, a run works on a host that was booted with exactly
\* the options its own configuration asks for: nothing is left of what an
\* earlier run wrote to the grub files, even if that run stopped half way.
BootMatchesConfig ==
  conn /\ pc \in AfterBoot =>
    \A o \in BootOption :
      boot[o] = IF \/ o \in {cfg.dram, cfg.pmem}
                   \/ o \in {"do_tpp", "maxcpus"} /\ "tpp" \in cfg.opts
                THEN 1 ELSE 0

\* When the server is loaded and when the workload runs, the settings are those
\* the command line asks for, but for the knobs of what the run does not use, and
\* the loaded module and the mount are this run's: nothing is left from another.
\* One option is without effect in every run: --thp_temporal_zero is for runs
\* without FBMM (it conflicts with --fbmm), and is written only with FBMM.
EnvironmentMatchesConfig ==
  conn /\ pc \in {"load", "workload"} =>
    /\ env = Asked(cfg) \ (Unused(cfg) \cup {"thp_temporal_zero"})
    /\ mount = cfg.fbmm
    /\ mods = {cfg.fbmm} \ {"none", "ext4"}

\* FBMM is never switched on without a file system mounted for it, nor that
\* without its module, wherever a run or the host stops.
FbmmHasMount ==
  /\ "fbmm" \in env => mount # "none"
  /\ mount \notin {"none", "ext4"} => mount \in mods

\* However many runs stop half way, the grub file never carries an option twice,
\* nor a combination of two configurations' regions.
GrubStaysClean ==
  /\ \A o \in BootOption : grub[o] <= 1
  /\ \E c \in Configs : \A r \in Regions : grub[r] = 1 => r \in {c.dram, c.pmem}

\* When a run returns Ok its trackers have ended, so their output is complete, and
\* a server that is still there was told to stop: its poll may have failed while it
\* was shutting down, and 20 s later it may still be.  The periodic collectors
\* are not waited for.
OkLeavesNoTracker ==
  pc = "Ok" /\ conn => /\ procs \cap Tracker = {}
                       /\ procs \cap {"server"} \subseteq signalled

\* Badger trap is the last command of the prefix, and the command fbmm_wrapper
\* hands to execv, which does not search PATH, is one given by its path.
PrefixExecutes ==
  pc \in {"load", "workload"} =>
    LET line == Append(prefix, "workload")
    IN  \A i \in 1..Len(prefix) :
          /\ line[i] = "badger-trap" => line[i + 1] = "workload"
          /\ line[i] = "fbmm_wrapper" => line[i + 1] \in {"badger-trap", "workload"}

\* Every run ends: the driver is never stuck, neither in the reconnection loop
\* nor waiting for a server or a tracker to exit.
RunEnds == pc = "connect" ~> pc \in {"Ok", "Err"}
=============================================================================
