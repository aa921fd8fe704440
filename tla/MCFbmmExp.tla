------------------------------ MODULE MCFbmmExp ------------------------------
(***************************************************************************)
(* Instances of FbmmExp for TLC.                                           *)
(***************************************************************************)
EXTENDS FbmmExp

\* A fast and a slow range, and a range of another size that starts with them.
MCRegions == {"4G!4G", "8G!8G", "16G!4G"}

Plain == [fbmm |-> "none", opts |-> {}, dram |-> NoRegion, pmem |-> NoRegion,
          kind |-> "batch", threads |-> 1]

\* One experiment of each kind the evaluation compares, with most of the options
\* that add a command to the prefix.
MCConfigs ==
  {[Plain EXCEPT !.opts = {"thp_temporal_zero", "pte_fault_size", "hugetlb", "hmsdk_tiered",
                           "perf_stat"},
                 !.threads = 16],
   [Plain EXCEPT !.opts = {"tpp", "numa_scan_size", "disable_aslr", "flame_graph",
                           "numactl", "mm_fault_tracker", "badger_trap"},
                 !.dram = "16G!4G"],
   [Plain EXCEPT !.fbmm = "tiered", !.dram = "4G!4G", !.pmem = "8G!8G",
                 !.opts = {"migrate_task_int", "tmmfs_stats_periodic", "mmap_tracker"},
                 !.kind = "server"],
   [Plain EXCEPT !.fbmm = "ext4", !.dram = "16G!4G",
                 !.opts = {"ext4_metadata", "no_prealloc", "disable_thp", "perf_stat",
                           "hmsdk_tiered", "numactl", "badger_trap"}],
   [Plain EXCEPT !.fbmm = "bandwidth", !.opts = {"node_weight", "numa_scan_delay", "hmsdk_bw",
                                                      "mm_fault_tracker"}]}
=============================================================================
