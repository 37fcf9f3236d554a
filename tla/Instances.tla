----------------------------- MODULE Instances ------------------------------
(***************************************************************************)
(* Supervisor processes of one trading mode and strategy version, of which *)
(* the container runtime keeps several alive (an old and a new one during  *)
(* a deployment). An advisory lock, held by a database session and not by  *)
(* a process, is to let one of them trade. A session may be dropped at any *)
(* time; the process finds out when it next uses it.                       *)
(***************************************************************************)
EXTENDS ProcessBounds, Integers, FiniteSets

VARIABLES at,        \* where the process is; "submit": a row is saved, the call is next
          session,   \* its database session: "none", "up", "dead", or "bare": a new one
                     \* that works although its query for the lock raised
          failures,  \* cycles that failed in a row
          holder,    \* whose session has the lock
          faults

instanceVars == <<at, session, failures, holder, faults>>

Fault == faults < MaxFaults /\ faults' = faults + 1

\* What the server does when the session of p ends.
Released(p) == IF holder = p THEN None ELSE holder

\* What becomes of the lock while the server keeps a session nobody uses.
Left(p) == IF holder = p THEN Orphan ELSE holder

Usable(p) == session[p] \in {"up", "bare"}

-----------------------------------------------------------------------------

(* bootstrap_runtime, then startup. A process that is refused the lock ends *)
(* and is started again.                                                    *)
StartInstance(p) ==
    /\ at[p] = "down"
    /\ holder = None
    /\ holder' = p
    /\ session' = [session EXCEPT ![p] = "up"]
    /\ failures' = [failures EXCEPT ![p] = 0]
    /\ at' = [at EXCEPT ![p] = "idle"]
    /\ UNCHANGED faults

(* close: the session ends with the process.                               *)
Exit(p) ==
    /\ at' = [at EXCEPT ![p] = "down"]
    /\ session' = [session EXCEPT ![p] = "none"]
    /\ holder' = Released(p)
    /\ UNCHANGED failures

(* A cycle that raises: counted, and the tenth in a row ends the process.  *)
Failed(p) ==
    IF failures[p] + 1 >= MaxFailures THEN Exit(p)
    ELSE /\ failures' = [failures EXCEPT ![p] = @ + 1]
         /\ at' = [at EXCEPT ![p] = "idle"]
         /\ UNCHANGED <<session, holder>>

BeginCycle(p) ==
    /\ at[p] = "idle"
    /\ Usable(p)
    /\ at' = [at EXCEPT ![p] = "cycle"]
    /\ UNCHANGED <<session, failures, holder, faults>>

\* Mutation: the new session does not ask for the lock.
ReconnectUnlocked(p) ==
    /\ at[p] = "idle"
    /\ session[p] = "dead"
    /\ session' = [session EXCEPT ![p] = "up"]
    /\ holder' = IF holder = None THEN p ELSE holder
    /\ at' = [at EXCEPT ![p] = "cycle"]
    /\ UNCHANGED <<failures, faults>>

(* check_connection found the session dead: a new one takes the lock and    *)
(* the cycle goes on, or the process ends.                                 *)
Reconnect(p) ==
    /\ at[p] = "idle"
    /\ session[p] = "dead"
    /\ IF holder = None
       THEN /\ session' = [session EXCEPT ![p] = "up"]
            /\ holder' = p
            /\ at' = [at EXCEPT ![p] = "cycle"]
            /\ UNCHANGED failures
       ELSE Exit(p)
    /\ UNCHANGED faults

(* All attempts to connect fail.                                           *)
ReconnectFails(p) ==
    /\ at[p] = "idle"
    /\ session[p] = "dead"
    /\ Failed(p)
    /\ Fault

(* A new session takes the place of the dead one, and its query for the     *)
(* lock raises: the cycle is counted as failed, saving its audit event      *)
(* rolls the session back, and the next probe finds nothing wrong with it.  *)
ReconnectRaises(p) ==
    /\ at[p] = "idle"
    /\ session[p] = "dead"
    /\ IF failures[p] + 1 >= MaxFailures THEN Exit(p)
       ELSE /\ session' = [session EXCEPT ![p] = "bare"]
            /\ failures' = [failures EXCEPT ![p] = @ + 1]
            /\ UNCHANGED <<at, holder>>
    /\ Fault

(* Rows are saved before anything is sent; on a dead session this raises.  *)
SaveRow(p) ==
    /\ at[p] = "cycle"
    /\ IF Usable(p)
       THEN at' = [at EXCEPT ![p] = "submit"] /\ UNCHANGED <<session, failures, holder>>
       ELSE Failed(p)
    /\ UNCHANGED faults

(* The broker does not know the session: the order goes out all the same.  *)
Submit(p) ==
    /\ at[p] = "submit"
    /\ at' = [at EXCEPT ![p] = "answer"]
    /\ UNCHANGED <<session, failures, holder, faults>>

SaveAnswer(p) ==
    /\ at[p] = "answer"
    /\ IF Usable(p)
       THEN at' = [at EXCEPT ![p] = "cycle"] /\ UNCHANGED <<session, failures, holder>>
       ELSE Failed(p)
    /\ UNCHANGED faults

EndCycle(p) ==
    /\ at[p] = "cycle"
    /\ Usable(p)
    /\ at' = [at EXCEPT ![p] = "idle"]
    /\ failures' = [failures EXCEPT ![p] = 0]
    /\ UNCHANGED <<session, holder, faults>>

(* A broker call outside the orders raises.                                *)
CycleRaises(p) ==
    /\ at[p] = "cycle"
    /\ Failed(p)
    /\ Fault

-----------------------------------------------------------------------------
(* Environment.                                                            *)

\* The server may find out at once, or keep the session for a while.
DropSession(p) ==
    /\ Usable(p)
    /\ session' = [session EXCEPT ![p] = "dead"]
    /\ holder' \in {Released(p), Left(p)}
    /\ Fault
    /\ UNCHANGED <<at, failures>>

(* A kill leaves the session to the server, which ends it some time later. *)
Kill(p) ==
    /\ at[p] # "down"
    /\ at' = [at EXCEPT ![p] = "down"]
    /\ session' = [session EXCEPT ![p] = "none"]
    /\ holder' = Left(p)
    /\ Fault
    /\ UNCHANGED failures

EndOrphan ==
    /\ holder = Orphan
    /\ holder' = None
    /\ UNCHANGED <<at, session, failures, faults>>

-----------------------------------------------------------------------------

InstancesInit ==
    /\ at = [p \in Instances |-> "down"]
    /\ session = [p \in Instances |-> "none"]
    /\ failures = [p \in Instances |-> 0]
    /\ holder = None
    /\ faults = 0

Step(p) ==
    \/ StartInstance(p) \/ BeginCycle(p) \/ Reconnect(p)
    \/ SaveRow(p) \/ Submit(p) \/ SaveAnswer(p) \/ EndCycle(p)

InstancesNext ==
    \/ \E p \in Instances : \/ Step(p) \/ ReconnectFails(p) \/ ReconnectRaises(p)
                            \/ CycleRaises(p) \/ DropSession(p) \/ Kill(p)
    \/ EndOrphan

InstancesSpec == InstancesInit /\ [][InstancesNext]_instanceVars

-----------------------------------------------------------------------------
(* Properties.                                                             *)

InstancesTypeOK ==
    /\ at \in [Instances -> {"down", "idle", "cycle", "submit", "answer"}]
    /\ session \in [Instances -> {"none", "up", "bare", "dead"}]
    /\ failures \in [Instances -> Nat]
    /\ holder \in Instances \cup {None, Orphan}
    /\ faults \in Nat

(* A session that was given the lock still has it while it works: whatever  *)
(* was dropped, killed and connected again, no two such processes write to  *)
(* the ledger.                                                             *)
SessionHoldsLock == \A p \in Instances : session[p] = "up" => holder = p

(* A row is saved, and with it an order released for sending, by the holder *)
(* of the lock, or by a process whose query for the lock raised.            *)
SavesAsHolder ==
    \A p \in Instances :
        at[p] = "cycle" /\ at'[p] = "submit" => holder = p \/ session[p] = "bare"
OnlyHolderSaves == [][SavesAsHolder]_instanceVars

(* The lock keeps a second process from the ledger, in the words of the     *)
(* supervisor and the plans. The code leaves a process at work whose query  *)
(* for the lock raised.                                                    *)
OneProcessWrites == \A p, q \in Instances : Usable(p) /\ Usable(q) => p = q

(* Two instances never send an order at the same time.                      *)
OneAtATime == \A p, q \in Instances : at[p] = "submit" /\ at[q] = "submit" => p = q
=============================================================================
