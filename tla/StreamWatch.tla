---------------------------- MODULE StreamWatch ----------------------------
(***************************************************************************)
(* The thread that receives trade updates and the watchdog that restarts   *)
(* it after each cycle that succeeds, with an exponential backoff. A       *)
(* thread that ends takes a while to report (it waits for store_lock)      *)
(* before it clears its name and is gone. Time is counted in cycles of a   *)
(* minute. The watchdog never meets a live thread that it must stop: both  *)
(* its calls come after the thread was found dead or cleared.              *)
(***************************************************************************)
EXTENDS ProcessBounds, Integers

VARIABLES thread,     \* every stream thread ever started
          current,    \* _stream_thread, 0 for None
          attempts,   \* _stream_restart_attempts, counted up to AlertAt
          wait,       \* cycles until _next_stream_restart_at
          watching,   \* the cycle succeeded and the watchdog is due
          alerted,    \* the operator was told
          tries,      \* restarts tried since the thread was last seen alive
          watchFaults

watchVars == <<thread, current, attempts, wait, watching, alerted, tries, watchFaults>>

AlertAt == 5
StreamThreads == 1 .. MaxDeaths + 1
Alive(t) == t # 0 /\ thread[t] \in {"running", "reporting"}

\* 60 s, doubled at each attempt, at most 300 s.
Backoff(n) == IF n > 3 THEN 5 ELSE 2 ^ (n - 1)

-----------------------------------------------------------------------------

\* Mutation: the name is cleared before the report.
StreamEndsCleared(t) ==
    /\ thread[t] = "running"
    /\ t <= MaxDeaths
    /\ thread' = [thread EXCEPT ![t] = "reporting"]
    /\ current' = IF current = t THEN 0 ELSE current
    /\ UNCHANGED <<attempts, wait, watching, alerted, tries, watchFaults>>

(* The stream returns or raises; the thread has yet to say so.              *)
StreamEnds(t) ==
    /\ thread[t] = "running"
    /\ t <= MaxDeaths
    /\ thread' = [thread EXCEPT ![t] = "reporting"]
    /\ UNCHANGED <<current, attempts, wait, watching, alerted, tries, watchFaults>>

(* Its report is written: the thread clears its name, if it is still its.   *)
ThreadEnds(t) ==
    /\ thread[t] = "reporting"
    /\ thread' = [thread EXCEPT ![t] = "ended"]
    /\ current' = IF current = t THEN 0 ELSE current
    /\ UNCHANGED <<attempts, wait, watching, alerted, tries, watchFaults>>

EndOfCycle ==
    /\ ~watching
    /\ wait' = IF wait = 0 THEN 0 ELSE wait - 1
    /\ \/ watching' = TRUE /\ UNCHANGED watchFaults
       \/ watchFaults < MaxWatchFaults /\ watchFaults' = watchFaults + 1 /\ UNCHANGED watching
    /\ UNCHANGED <<thread, current, attempts, alerted, tries>>

(* The thread lives: forget its past.                                       *)
SeenAlive ==
    /\ watching
    /\ Alive(current)
    /\ attempts' = 0 /\ wait' = 0 /\ tries' = 0
    /\ watching' = FALSE
    /\ UNCHANGED <<thread, current, alerted, watchFaults>>

Missing == ~Alive(current)

(* Too early for another restart.                                           *)
HoldOff ==
    /\ watching /\ Missing
    /\ wait > 0
    /\ watching' = FALSE
    /\ UNCHANGED <<thread, current, attempts, wait, alerted, tries, watchFaults>>

(* The new stream cannot be created, or not be attached.                    *)
RestartFails ==
    /\ watching /\ Missing
    /\ wait = 0
    /\ watchFaults < MaxWatchFaults
    /\ watchFaults' = watchFaults + 1
    /\ tries' = tries + 1
    /\ current' \in {0, current}
    /\ watching' = FALSE
    /\ UNCHANGED <<thread, attempts, wait, alerted>>

Restart ==
    /\ watching /\ Missing
    /\ wait = 0
    /\ \E t \in StreamThreads :
        /\ thread[t] = "unborn"
        /\ \A u \in 1 .. t - 1 : thread[u] # "unborn"
        /\ thread' = [thread EXCEPT ![t] = "running"]
        /\ current' = t
    /\ LET n == IF attempts = AlertAt THEN AlertAt ELSE attempts + 1
       IN  /\ attempts' = n
           /\ wait' = Backoff(n)
           /\ alerted' = (alerted \/ n = AlertAt)
    /\ tries' = tries + 1
    /\ watching' = FALSE
    /\ UNCHANGED watchFaults

-----------------------------------------------------------------------------

(* startup has attached the stream and started its thread.                  *)
WatchInit ==
    /\ thread = [t \in StreamThreads |-> IF t = 1 THEN "running" ELSE "unborn"]
    /\ current = 1
    /\ attempts = 0 /\ wait = 0 /\ tries = 0 /\ watchFaults = 0
    /\ watching = FALSE /\ alerted = FALSE

Watchdog == EndOfCycle \/ SeenAlive \/ HoldOff \/ RestartFails \/ Restart

WatchNext == Watchdog \/ \E t \in StreamThreads : StreamEnds(t) \/ ThreadEnds(t)

WatchSpec == WatchInit /\ [][WatchNext]_watchVars

-----------------------------------------------------------------------------
(* Properties.                                                             *)

(* No two threads receive or record trade updates at the same time, however *)
(* a death, its late report and a restart fall together.                    *)
OneThread == \A t, u \in StreamThreads : Alive(t) /\ Alive(u) => t = u

(* The thread the supervisor watches runs.                                  *)
Watched == current # 0 /\ thread[current] = "running"

(* "alert after 5 failures", the watchdog's comment says.                   *)
FiveFailuresAreTold == tries >= AlertAt => alerted
=============================================================================
