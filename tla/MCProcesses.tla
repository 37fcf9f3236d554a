----------------------------- MODULE MCProcesses -----------------------------
(***************************************************************************)
(* The process around the cycle: the instances and their advisory lock,    *)
(* the two threads and their store_lock, the watchdog of the stream        *)
(* thread, and the sessions of the loop. None of the four touches the      *)
(* state of another, so one of them moves in each scene and the others     *)
(* stay where they start.                                                  *)
(***************************************************************************)
EXTENDS Instances, StoreLock, StreamWatch, SessionLoop

VARIABLE scene

vars == <<instanceVars, lockVars, watchVars, loopVars, scene>>

InstancesOnly == scene = "instances" /\ UNCHANGED <<lockVars, watchVars, loopVars, scene>>
ThreadsOnly == scene = "threads" /\ UNCHANGED <<instanceVars, watchVars, loopVars, scene>>
WatchOnly == scene = "watch" /\ UNCHANGED <<instanceVars, lockVars, loopVars, scene>>
LoopOnly == scene = "loop" /\ UNCHANGED <<instanceVars, lockVars, watchVars, scene>>

Init ==
    /\ scene \in {"instances", "threads", "watch", "loop"}
    /\ InstancesInit /\ LockInit /\ WatchInit /\ LoopInit
    /\ scene # "loop" => trading

Next ==
    \/ InstancesOnly /\ InstancesNext
    \/ ThreadsOnly /\ LockNext
    \/ WatchOnly /\ WatchNext
    \/ LoopOnly /\ LoopNext

\* Processes run, are started again when they end, and orphans time out; both
\* threads run, and the main thread ends its cycles; cycles follow each other and a
\* stream thread that has ended reports.
FairSpec ==
    /\ Init /\ [][Next]_vars
    /\ WF_vars(InstancesOnly /\ EndOrphan)
    /\ \A p \in Instances : WF_vars(InstancesOnly /\ Step(p))
    /\ WF_vars(ThreadsOnly /\ MainThread)
    /\ SF_vars(ThreadsOnly /\ RenewConnection)
    /\ SF_vars(ThreadsOnly /\ Report)
    /\ SF_vars(ThreadsOnly /\ Take("stream"))
    /\ \A t \in Threads : WF_vars(ThreadsOnly /\ (Write(t) \/ Commit(t)))
    /\ WF_vars(WatchOnly /\ Watchdog)
    /\ \A t \in StreamThreads : WF_vars(WatchOnly /\ ThreadEnds(t))

-----------------------------------------------------------------------------
\* Once the faults end, some process goes on with cycles for ever.
TradingGoesOn == []<>(scene = "instances" => \E p \in Instances : at[p] = "cycle")

\* Every trade update is recorded or reported in the end, and a lost connection
\* is replaced.
UpdatesAreHandled ==
    /\ <>(scene = "threads" => \A n \in 1 .. Jobs : outcome["stream"][n] # "none")
    /\ (scene = "threads" /\ connection = "down") ~> (connection = "up")

\* A stream that has ended is replaced in the end, whatever failed on the way,
\* and the new thread is the one the supervisor watches.
StreamComesBack == (scene = "watch" /\ ~Watched) ~> Watched

\* After any faults the process works again: some instance trades on, the updates
\* are handled over a connection that works, the stream is received.
ProcessRecovers == TradingGoesOn /\ UpdatesAreHandled /\ StreamComesBack
=============================================================================
