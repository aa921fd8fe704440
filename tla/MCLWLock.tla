------------------------------ MODULE MCLWLock ------------------------------
EXTENDS LWLock

CONSTANTS p1, p2, p3

\* A writer, which also changes the variable; a process that reads, writes or
\* waits for the lock; a process that reads, tries, or waits for the variable.
MCCalls ==
  [p \in {p1, p2, p3} |->
     CASE p = p1 -> {<<"Acquire", "LW_EXCLUSIVE", 0>>}
       [] p = p2 -> {<<"Acquire", "LW_SHARED", 0>>, <<"Acquire", "LW_EXCLUSIVE", 0>>,
                     <<"AcquireOrWait", "LW_EXCLUSIVE", 0>>}
       [] p = p3 -> {<<"Acquire", "LW_SHARED", 0>>, <<"Conditional", "LW_SHARED", 0>>,
                     <<"WaitForVar", "LW_EXCLUSIVE", 0>>}]
=============================================================================
