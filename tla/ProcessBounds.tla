---------------------------- MODULE ProcessBounds ----------------------------
(***************************************************************************)
(* The constants of the models of the process around the cycle: Instances, *)
(* StoreLock, StreamWatch and SessionLoop.                                 *)
(***************************************************************************)
EXTENDS Naturals

CONSTANTS
    Instances,       \* the processes that are started
    None, Orphan,    \* nobody, or the session of a killed process, has the lock
    MaxFailures,     \* failing cycles in a row that end a process: 10 in the code
    Parts,           \* rows written by one piece of work
    Jobs,            \* bound: pieces of work of each thread
    Options,         \* ENABLE_OPTIONS_TRADING
    MaxDeaths,       \* bound: streams that end
    Extended,        \* EXTENDED_HOURS_ENABLED
    MaxDays,         \* bound: days of the session loop
    MaxCrashes,      \* bound: its crashes
    MaxFaults,       \* bound: sessions dropped, processes killed, cycles that raise
    MaxLockFaults,   \* bound: connections dropped, statements that fail
    MaxWatchFaults,  \* bound: cycles and restarts of the stream that fail
    MaxLoopFaults    \* bound: clock calls and summaries that fail

ASSUME InstancesAssumption ==
    /\ None \notin Instances /\ Orphan \notin Instances /\ None # Orphan
    /\ MaxFailures \in Nat \ {0} /\ MaxFaults \in Nat

ASSUME StoreLockAssumption ==
    /\ {Parts, Jobs} \subseteq Nat \ {0} /\ MaxLockFaults \in Nat /\ Options \in BOOLEAN

ASSUME StreamWatchAssumption == {MaxDeaths, MaxWatchFaults} \subseteq Nat

ASSUME SessionLoopAssumption ==
    /\ Extended \in BOOLEAN /\ MaxFailures \in Nat \ {0}
    /\ {MaxDays, MaxCrashes, MaxLoopFaults} \subseteq Nat
=============================================================================
