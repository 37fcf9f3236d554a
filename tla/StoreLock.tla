----------------------------- MODULE StoreLock ------------------------------
(***************************************************************************)
(* The two threads of a supervisor on their one database connection, and   *)
(* so in one transaction: the stream thread records trade updates, the     *)
(* main thread runs cycles. Both write under store_lock and commit at the  *)
(* end or roll back, but for the two places where the main thread uses the *)
(* connection without it. The server may drop the connection.              *)
(***************************************************************************)
EXTENDS ProcessBounds, Integers, FiniteSets

VARIABLES lock,      \* store_lock: "free" or the thread that has it
          pc,        \* where each thread is
          job,       \* the piece of work each thread is at, or did last
          written,   \* rows it has written of that piece
          buffer,    \* rows of the open transaction
          saved,     \* rows committed
          outcome,   \* what the thread takes each piece of work for
          connection, lockFaults

lockVars == <<lock, pc, job, written, buffer, saved, outcome, connection, lockFaults>>

Threads == {"main", "stream"}
Row(t, n, i) == <<t, n, i>>
RowsOf(t, n) == {Row(t, n, i) : i \in 1 .. Parts}
OptionRow == Row("option", 1, 1)

\* Where a thread waits between two pieces of work.
Ready(t) == IF t = "main" THEN "cycle" ELSE "idle"

Goto(t, where) == pc' = [pc EXCEPT ![t] = where]

-----------------------------------------------------------------------------
(* A piece of work under the lock.                                         *)

Take(t) ==
    /\ pc[t] = Ready(t)
    /\ lock = "free"
    /\ job[t] < Jobs
    /\ lock' = t
    /\ job' = [job EXCEPT ![t] = @ + 1]
    /\ written' = [written EXCEPT ![t] = 0]
    /\ Goto(t, "writing")
    /\ UNCHANGED <<buffer, saved, outcome, connection, lockFaults>>

\* Mutation: a failed piece of work keeps the lock.
AbortLocked(t) ==
    /\ buffer' = {}
    /\ outcome' = [outcome EXCEPT ![t][job[t]] = "failed"]
    /\ Goto(t, IF t = "main" THEN "idle" ELSE "report")
    /\ UNCHANGED <<lock, job, written, saved>>

(* Roll back, let go of the lock; the cycle ends, the stream thread reports. *)
Abort(t) ==
    /\ buffer' = {}
    /\ outcome' = [outcome EXCEPT ![t][job[t]] = "failed"]
    /\ lock' = "free"
    /\ Goto(t, IF t = "main" THEN "idle" ELSE "report")
    /\ UNCHANGED <<job, written, saved>>

Write(t) ==
    /\ pc[t] = "writing"
    /\ written[t] < Parts
    /\ IF connection = "down" THEN Abort(t)
       ELSE /\ written' = [written EXCEPT ![t] = @ + 1]
            /\ buffer' = buffer \cup {Row(t, job[t], written[t] + 1)}
            /\ UNCHANGED <<lock, pc, job, saved, outcome>>
    /\ UNCHANGED <<connection, lockFaults>>

StatementFails(t) ==
    /\ pc[t] = "writing"
    /\ lockFaults < MaxLockFaults
    /\ lockFaults' = lockFaults + 1
    /\ Abort(t)
    /\ UNCHANGED connection

Commit(t) ==
    /\ pc[t] = "writing"
    /\ written[t] = Parts
    /\ IF connection = "down" THEN Abort(t)
       ELSE /\ saved' = saved \cup buffer
            /\ buffer' = {}
            /\ outcome' = [outcome EXCEPT ![t][job[t]] = "recorded"]
            /\ lock' = "free"
            /\ Goto(t, Ready(t))
            /\ UNCHANGED <<job, written>>
    /\ UNCHANGED <<connection, lockFaults>>

\* Mutation: the failure is reported without waiting for the lock.
ReportUnlocked ==
    /\ pc["stream"] = "report"
    /\ saved' = IF connection = "up" THEN saved \cup buffer ELSE saved
    /\ buffer' = {}
    /\ Goto("stream", "idle")
    /\ UNCHANGED <<lock, job, written, outcome, connection, lockFaults>>

(* An audit event says that the update failed; written and committed at     *)
(* once, or rolled back.                                                   *)
Report ==
    /\ pc["stream"] = "report"
    /\ lock = "free"
    /\ saved' = IF connection = "up" THEN saved \cup buffer ELSE saved
    /\ buffer' = {}
    /\ Goto("stream", "idle")
    /\ UNCHANGED <<lock, job, written, outcome, connection, lockFaults>>

-----------------------------------------------------------------------------
(* What the main thread does without the lock.                             *)

(* check_connection: a query, then a rollback that ends its transaction.    *)
Probe ==
    /\ pc["main"] = "idle"
    /\ Goto("main", IF connection = "up" THEN "end_probe" ELSE "reconnect")
    /\ UNCHANGED <<lock, job, written, buffer, saved, outcome, connection, lockFaults>>

EndProbe ==
    /\ pc["main"] = "end_probe"
    /\ buffer' = {}
    /\ Goto("main", "cycle")
    /\ UNCHANGED <<lock, job, written, saved, outcome, connection, lockFaults>>

RenewConnection ==
    /\ pc["main"] = "reconnect"
    /\ lock = "free"
    /\ connection' = "up"
    /\ buffer' = {}
    /\ Goto("main", "cycle")
    /\ UNCHANGED <<lock, job, written, saved, outcome, lockFaults>>

(* The option dispatcher saves its rows, each with a commit of its own.     *)
SaveOption ==
    /\ Options
    /\ pc["main"] = "cycle"
    /\ IF connection = "up"
       THEN buffer' = buffer \cup {OptionRow} /\ Goto("main", "option")
       ELSE UNCHANGED buffer /\ Goto("main", "idle")
    /\ UNCHANGED <<lock, job, written, saved, outcome, connection, lockFaults>>

CommitOption ==
    /\ pc["main"] = "option"
    /\ IF connection = "up"
       THEN /\ saved' = saved \cup buffer
            /\ buffer' = {}
            /\ Goto("main", "cycle")
       ELSE UNCHANGED <<saved, buffer>> /\ Goto("main", "idle")
    /\ UNCHANGED <<lock, job, written, outcome, connection, lockFaults>>

EndMainCycle ==
    /\ pc["main"] = "cycle"
    /\ Goto("main", "idle")
    /\ UNCHANGED <<lock, job, written, buffer, saved, outcome, connection, lockFaults>>

DropConnection ==
    /\ connection = "up"
    /\ lockFaults < MaxLockFaults
    /\ lockFaults' = lockFaults + 1
    /\ connection' = "down"
    /\ buffer' = {}
    /\ UNCHANGED <<lock, pc, job, written, saved, outcome>>

-----------------------------------------------------------------------------

LockInit ==
    /\ lock = "free"
    /\ pc = [t \in Threads |-> "idle"]
    /\ job = [t \in Threads |-> 0]
    /\ written = [t \in Threads |-> 0]
    /\ buffer = {} /\ saved = {}
    /\ outcome = [t \in Threads |-> [n \in 1 .. Jobs |-> "none"]]
    /\ connection = "up"
    /\ lockFaults = 0

MainThread == Probe \/ EndProbe \/ RenewConnection \/ CommitOption \/ EndMainCycle

LockNext ==
    \/ MainThread \/ SaveOption \/ Report \/ DropConnection
    \/ \E t \in Threads : Take(t) \/ Write(t) \/ Commit(t) \/ StatementFails(t)

LockSpec == LockInit /\ [][LockNext]_lockVars

-----------------------------------------------------------------------------
(* Properties.                                                             *)

(* What a cycle writes under the lock is saved as a whole or not at all,    *)
(* whatever the stream thread does meanwhile.                               *)
CycleWorkIsWhole ==
    \A n \in 1 .. Jobs :
        saved \cap RowsOf("main", n) = IF outcome["main"][n] = "recorded" THEN RowsOf("main", n) ELSE {}

(* A trade update that was taken for recorded is saved.                     *)
RecordedIsSaved ==
    \A n \in 1 .. Jobs : outcome["stream"][n] = "recorded" => RowsOf("stream", n) \subseteq saved

(* A trade update that failed has left nothing behind.                      *)
FailedLeavesNothing ==
    \A n \in 1 .. Jobs : outcome["stream"][n] = "failed" => RowsOf("stream", n) \cap saved = {}
=============================================================================
