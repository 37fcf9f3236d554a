-------------------------- MODULE ProcessesProofs --------------------------
(***************************************************************************)
(* The process around the cycle, for any number of processes, threads,     *)
(* failures and days: a session that works keeps its advisory lock,        *)
(* what a cycle writes under store_lock is saved as a whole or not at all, *)
(* at most one stream thread lives, a day has one summary, a trading day's *)
(* regular session is worked and a holiday is quiet.                       *)
(***************************************************************************)
EXTENDS Instances, StoreLock, StreamWatch, SessionLoop, TLAPS

(***************************************************************************)
(* The processes and their lock: a session that was given the lock holds    *)
(* it while it works.                                                      *)
(***************************************************************************)
InstancesInv == InstancesTypeOK /\ SessionHoldsLock

(* At the start no process has a session.                                  *)
LEMMA InstancesInitHolds == InstancesInit => InstancesInv
BY InstancesAssumption DEF InstancesInit, InstancesInv, InstancesTypeOK, SessionHoldsLock

(* A process leaves with its session, and lets go only of its own lock.     *)
LEMMA ExitKeepsInv ==
    ASSUME InstancesInv, NEW p \in Instances, Exit(p), faults' \in Nat
    PROVE  InstancesInv'
<1>1. InstancesTypeOK'
  BY DEF InstancesInv, InstancesTypeOK, Exit, Released
<1>2. SessionHoldsLock'
  <2> SUFFICES ASSUME NEW q \in Instances, session'[q] = "up"
               PROVE  holder' = q
    BY DEF SessionHoldsLock
  <2>1. q # p
    BY DEF InstancesInv, InstancesTypeOK, Exit
  <2>2. holder = q
    BY <2>1 DEF InstancesInv, InstancesTypeOK, SessionHoldsLock, Exit
  <2> QED
    BY <2>1, <2>2 DEF Exit, Released
<1> QED
  BY <1>1, <1>2 DEF InstancesInv

LEMMA FailedKeepsInv ==
    ASSUME InstancesInv, NEW p \in Instances, Failed(p), faults' \in Nat
    PROVE  InstancesInv'
<1>1. CASE Exit(p)
  BY <1>1, ExitKeepsInv
<1>2. CASE /\ failures' = [failures EXCEPT ![p] = @ + 1]
           /\ at' = [at EXCEPT ![p] = "idle"]
           /\ UNCHANGED <<session, holder>>
  BY <1>2 DEF InstancesInv, InstancesTypeOK, SessionHoldsLock
<1> QED
  BY <1>1, <1>2 DEF Failed

(* Opening a session while nobody has the lock gives it to this process.    *)
LEMMA LockingKeepsHolder ==
    ASSUME InstancesInv, NEW p \in Instances, holder = None, holder' = p,
           session' = [session EXCEPT ![p] = "up"]
    PROVE  SessionHoldsLock'
<1> SUFFICES ASSUME NEW q \in Instances, session'[q] = "up"
             PROVE  q = p
  BY DEF SessionHoldsLock
<1>1. CASE q # p
  <2>1. session[q] = "up"
    BY <1>1 DEF InstancesInv, InstancesTypeOK
  <2> QED
    BY <2>1, InstancesAssumption DEF InstancesInv, SessionHoldsLock
<1> QED
  BY <1>1

(* Every step keeps the invariant.                                          *)
LEMMA NextKeepsInstances == InstancesInv /\ [InstancesNext]_instanceVars => InstancesInv'
<1> SUFFICES ASSUME InstancesInv, [InstancesNext]_instanceVars
             PROVE  InstancesInv'
  OBVIOUS
<1>1. ASSUME NEW p \in Instances, StartInstance(p)
      PROVE  InstancesInv'
  <2>1. InstancesTypeOK'
    BY <1>1 DEF InstancesInv, InstancesTypeOK, StartInstance
  <2>2. SessionHoldsLock'
    BY <1>1, LockingKeepsHolder DEF StartInstance
  <2> QED
    BY <2>1, <2>2 DEF InstancesInv
<1>2. ASSUME NEW p \in Instances, BeginCycle(p)
      PROVE  InstancesInv'
  BY <1>2 DEF InstancesInv, InstancesTypeOK, SessionHoldsLock, BeginCycle
<1>3. ASSUME NEW p \in Instances, Reconnect(p)
      PROVE  InstancesInv'
  <2>1. CASE holder = None
    <3>1. InstancesTypeOK'
      BY <1>3, <2>1 DEF InstancesInv, InstancesTypeOK, Reconnect
    <3>2. SessionHoldsLock'
      BY <1>3, <2>1, LockingKeepsHolder DEF Reconnect
    <3> QED
      BY <3>1, <3>2 DEF InstancesInv
  <2>2. CASE holder # None
    BY <1>3, <2>2, ExitKeepsInv DEF Reconnect, InstancesInv, InstancesTypeOK
  <2> QED
    BY <2>1, <2>2
<1>4. ASSUME NEW p \in Instances, ReconnectFails(p)
      PROVE  InstancesInv'
  <2>1. faults' \in Nat
    BY <1>4 DEF ReconnectFails, Fault, InstancesInv, InstancesTypeOK
  <2> QED
    BY <1>4, <2>1, FailedKeepsInv DEF ReconnectFails
<1>5. ASSUME NEW p \in Instances, SaveRow(p)
      PROVE  InstancesInv'
  <2>1. CASE Usable(p)
    BY <1>5, <2>1 DEF SaveRow, InstancesInv, InstancesTypeOK, SessionHoldsLock
  <2>2. CASE ~Usable(p)
    BY <1>5, <2>2, FailedKeepsInv DEF SaveRow, InstancesInv, InstancesTypeOK
  <2> QED
    BY <2>1, <2>2
<1>6. ASSUME NEW p \in Instances, Submit(p)
      PROVE  InstancesInv'
  BY <1>6 DEF InstancesInv, InstancesTypeOK, SessionHoldsLock, Submit
<1>7. ASSUME NEW p \in Instances, SaveAnswer(p)
      PROVE  InstancesInv'
  <2>1. CASE Usable(p)
    BY <1>7, <2>1 DEF SaveAnswer, InstancesInv, InstancesTypeOK, SessionHoldsLock
  <2>2. CASE ~Usable(p)
    BY <1>7, <2>2, FailedKeepsInv DEF SaveAnswer, InstancesInv, InstancesTypeOK
  <2> QED
    BY <2>1, <2>2
<1>8. ASSUME NEW p \in Instances, EndCycle(p)
      PROVE  InstancesInv'
  BY <1>8 DEF InstancesInv, InstancesTypeOK, SessionHoldsLock, EndCycle
<1>9. ASSUME NEW p \in Instances, CycleRaises(p)
      PROVE  InstancesInv'
  <2>1. faults' \in Nat
    BY <1>9 DEF CycleRaises, Fault, InstancesInv, InstancesTypeOK
  <2> QED
    BY <1>9, <2>1, FailedKeepsInv DEF CycleRaises
<1>10. ASSUME NEW p \in Instances, DropSession(p)
       PROVE  InstancesInv'
  <2>1. InstancesTypeOK'
    BY <1>10 DEF InstancesInv, InstancesTypeOK, DropSession, Fault, Released, Left
  <2>2. ASSUME NEW q \in Instances, session'[q] = "up"
        PROVE  holder' = q
    <3>1. q # p /\ session[q] = "up"
      BY <1>10, <2>2 DEF InstancesInv, InstancesTypeOK, DropSession
    <3> QED
      BY <1>10, <3>1 DEF InstancesInv, SessionHoldsLock, DropSession, Released, Left
  <2> QED
    BY <2>1, <2>2 DEF InstancesInv, SessionHoldsLock
<1>11. ASSUME NEW p \in Instances, Kill(p)
       PROVE  InstancesInv'
  <2>1. InstancesTypeOK'
    BY <1>11 DEF InstancesInv, InstancesTypeOK, Kill, Fault, Left
  <2>2. ASSUME NEW q \in Instances, session'[q] = "up"
        PROVE  holder' = q
    <3>1. q # p /\ session[q] = "up"
      BY <1>11, <2>2 DEF InstancesInv, InstancesTypeOK, Kill
    <3> QED
      BY <1>11, <3>1 DEF InstancesInv, SessionHoldsLock, Kill, Left
  <2> QED
    BY <2>1, <2>2 DEF InstancesInv, SessionHoldsLock
<1>12. CASE EndOrphan
  BY <1>12, InstancesAssumption DEF InstancesInv, InstancesTypeOK, SessionHoldsLock, EndOrphan
<1>13. ASSUME NEW p \in Instances, ReconnectRaises(p)
       PROVE  InstancesInv'
  <2>1. faults' \in Nat
    BY <1>13 DEF ReconnectRaises, Fault, InstancesInv, InstancesTypeOK
  <2>2. CASE Exit(p)
    BY <2>1, <2>2, ExitKeepsInv
  <2>3. CASE /\ session' = [session EXCEPT ![p] = "bare"]
             /\ failures' = [failures EXCEPT ![p] = @ + 1]
             /\ UNCHANGED <<at, holder>>
    BY <2>1, <2>3 DEF InstancesInv, InstancesTypeOK, SessionHoldsLock
  <2> QED
    BY <1>13, <2>2, <2>3 DEF ReconnectRaises
<1>14. CASE UNCHANGED instanceVars
  BY <1>14 DEF InstancesInv, InstancesTypeOK, SessionHoldsLock, instanceVars
<1> QED
  BY <1>1, <1>2, <1>3, <1>4, <1>5, <1>6, <1>7, <1>8, <1>9, <1>10, <1>11, <1>12, <1>13, <1>14
     DEF InstancesNext, Step

(* No order of drops, kills and reconnects takes the lock from a session    *)
(* that works or gives it to two: bootstrap_runtime and                     *)
(* reconnect_runtime_connection. (A process whose query for the lock raised *)
(* works without it.)                                                      *)
THEOREM WorkingSessionHoldsLock == InstancesSpec => []SessionHoldsLock
<1>1. InstancesInit => InstancesInv
  BY InstancesInitHolds
<1>2. InstancesInv /\ [InstancesNext]_instanceVars => InstancesInv'
  BY NextKeepsInstances
<1>3. InstancesInv => SessionHoldsLock
  BY DEF InstancesInv
<1> QED
  BY <1>1, <1>2, <1>3, PTL DEF InstancesSpec

(* A row is saved, and with it an order released for sending, only by the   *)
(* process whose session has the lock, or by one whose query for the lock   *)
(* raised.                                                                 *)
THEOREM RowsAreSavedByHolder == InstancesSpec => OnlyHolderSaves
<1>1. InstancesInit => InstancesInv
  BY InstancesInitHolds
<1>2. InstancesInv /\ [InstancesNext]_instanceVars => InstancesInv'
  BY NextKeepsInstances
<1>3. InstancesInv /\ [InstancesNext]_instanceVars => [SavesAsHolder]_instanceVars
  <2> SUFFICES ASSUME InstancesInv, InstancesNext, NEW p \in Instances, at[p] = "cycle", at'[p] = "submit"
               PROVE  holder = p \/ session[p] = "bare"
    BY DEF SavesAsHolder
  <2>1. ASSUME NEW q \in Instances, SaveRow(q)
        PROVE  holder = p \/ session[p] = "bare"
    <3>1. CASE Usable(q)
      <4>1. q = p
        BY <2>1, <3>1 DEF SaveRow, InstancesInv, InstancesTypeOK
      <4> QED
        BY <3>1, <4>1 DEF Usable, InstancesInv, SessionHoldsLock
    <3>2. CASE ~Usable(q)
      BY <2>1, <3>2 DEF SaveRow, Failed, Exit, InstancesInv, InstancesTypeOK
    <3> QED
      BY <3>1, <3>2
  <2>2. ASSUME NEW q \in Instances,
               \/ StartInstance(q) \/ BeginCycle(q) \/ Submit(q) \/ EndCycle(q)
               \/ DropSession(q) \/ Kill(q)
        PROVE  holder = p \/ session[p] = "bare"
    BY <2>2 DEF StartInstance, BeginCycle, Submit, EndCycle, DropSession, Kill, InstancesInv, InstancesTypeOK
  <2>3. ASSUME NEW q \in Instances,
               Reconnect(q) \/ ReconnectFails(q) \/ ReconnectRaises(q) \/ SaveAnswer(q) \/ CycleRaises(q)
        PROVE  holder = p \/ session[p] = "bare"
    BY <2>3 DEF Reconnect, ReconnectFails, ReconnectRaises, SaveAnswer, CycleRaises, Failed, Exit, InstancesInv, InstancesTypeOK
  <2>4. CASE EndOrphan
    BY <2>4 DEF EndOrphan
  <2> QED
    BY <2>1, <2>2, <2>3, <2>4 DEF InstancesNext, Step
<1> QED
  BY <1>1, <1>2, <1>3, PTL DEF InstancesSpec, OnlyHolderSaves

-----------------------------------------------------------------------------
(***************************************************************************)
(* The two threads and store_lock, although the probe and the option       *)
(* dispatcher use the connection without it. The invariant follows the     *)
(* main thread's rows: in the buffer they are those of the piece of work   *)
(* under way, all that were written as long as the connection lives; among *)
(* the saved rows they are those of recorded pieces.                       *)
(***************************************************************************)
LockTypeOK ==
    /\ lock \in {"free"} \cup Threads
    /\ pc \in [Threads -> {"idle", "cycle", "writing", "report", "end_probe", "reconnect", "option"}]
    /\ job \in [Threads -> 0 .. Jobs]
    /\ written \in [Threads -> 0 .. Parts]
    /\ outcome \in [Threads -> [1 .. Jobs -> {"none", "recorded", "failed"}]]
    /\ connection \in {"up", "down"}

Exclusive == \A t \in Threads : pc[t] = "writing" => lock = t /\ job[t] >= 1

Writing == pc["main"] = "writing"

BufferIsCurrent ==
    \A n \in 1 .. Jobs, i \in 1 .. Parts :
        Row("main", n, i) \in buffer => Writing /\ n = job["main"]

BufferIsFull ==
    Writing /\ connection = "up" =>
        \A i \in 1 .. Parts : i <= written["main"] => Row("main", job["main"], i) \in buffer

AheadIsUndecided ==
    \A n \in 1 .. Jobs :
        n > job["main"] \/ (Writing /\ n = job["main"]) => outcome["main"][n] = "none"

SavedIsRecorded ==
    \A n \in 1 .. Jobs, i \in 1 .. Parts :
        Row("main", n, i) \in saved <=> outcome["main"][n] = "recorded"

LockInv == LockTypeOK /\ Exclusive /\ BufferIsCurrent /\ BufferIsFull /\ AheadIsUndecided /\ SavedIsRecorded

-----------------------------------------------------------------------------

(* Rows of different threads, pieces and places are different.              *)
LEMMA RowsDiffer ==
    /\ \A t, u, n, k, i, j : Row(t, n, i) = Row(u, k, j) <=> t = u /\ n = k /\ i = j
    /\ \A n, i : Row("main", n, i) # OptionRow
    /\ \A n, k, i, j : Row("main", n, i) # Row("stream", k, j)
  BY DEF Row, OptionRow

(* A rollback loses nothing that was recorded.                              *)
LEMMA AbortKeepsInv ==
    ASSUME LockInv, NEW t \in Threads, pc[t] = "writing", Abort(t), UNCHANGED connection
    PROVE  LockInv'
<1> USE StoreLockAssumption DEF Threads
<1>1. LockTypeOK'
  BY DEF LockInv, LockTypeOK, Exclusive, Abort, Goto
<1>2. Exclusive' /\ ~Writing'
  BY DEF LockInv, LockTypeOK, Exclusive, Writing, Abort, Goto
<1>3. BufferIsCurrent' /\ BufferIsFull'
  BY <1>2 DEF BufferIsCurrent, BufferIsFull, Abort
<1>4. AheadIsUndecided'
  BY <1>2 DEF LockInv, LockTypeOK, AheadIsUndecided, Writing, Abort
<1>5. SavedIsRecorded'
  BY DEF LockInv, LockTypeOK, Exclusive, AheadIsUndecided, SavedIsRecorded, Writing, Abort
<1> QED
  BY <1>1, <1>2, <1>3, <1>4, <1>5 DEF LockInv

(* A step outside of any piece of work that rolls back, commits what is not *)
(* the main thread's, or writes an option.                                 *)
LEMMA QuietKeepsInv ==
    ASSUME LockInv, ~Writing, ~Writing', LockTypeOK', Exclusive',
           UNCHANGED <<job, outcome>>,
           buffer' \subseteq buffer \cup {OptionRow},
           saved \subseteq saved', saved' \subseteq saved \cup buffer
    PROVE  LockInv'
<1>1. BufferIsCurrent' /\ BufferIsFull'
  BY RowsDiffer DEF LockInv, BufferIsCurrent, BufferIsFull
<1>2. AheadIsUndecided'
  BY DEF LockInv, AheadIsUndecided
<1>3. SavedIsRecorded'
  BY DEF LockInv, BufferIsCurrent, SavedIsRecorded
<1> QED
  BY <1>1, <1>2, <1>3 DEF LockInv

(* A step of the stream thread under the lock leaves the main thread's rows *)
(* alone.                                                                  *)
LEMMA StreamKeepsInv ==
    ASSUME LockInv, pc["stream"] = "writing", Write("stream") \/ Commit("stream") \/ StatementFails("stream")
    PROVE  LockInv'
<1> USE StoreLockAssumption DEF Threads
<1>1. ~Writing
  BY DEF LockInv, Exclusive, Writing
<1>2. CASE Abort("stream") /\ UNCHANGED connection
  BY <1>2, AbortKeepsInv
<1>3. CASE Write("stream") /\ connection # "down"
  <2>1. LockTypeOK' /\ Exclusive' /\ ~Writing'
    BY <1>1, <1>3 DEF LockInv, LockTypeOK, Exclusive, Writing, Write
  <2>2. BufferIsCurrent' /\ BufferIsFull'
    BY <1>1, <1>3, <2>1, RowsDiffer DEF LockInv, BufferIsCurrent, BufferIsFull, Write
  <2>3. AheadIsUndecided' /\ SavedIsRecorded'
    BY <1>1, <1>3, <2>1 DEF LockInv, AheadIsUndecided, SavedIsRecorded, Write
  <2> QED
    BY <2>1, <2>2, <2>3 DEF LockInv
<1>4. CASE Commit("stream") /\ connection # "down"
  <2>1. LockTypeOK' /\ Exclusive' /\ ~Writing'
    BY <1>1, <1>4 DEF LockInv, LockTypeOK, Exclusive, Writing, Commit, Goto, Ready
  <2>2. BufferIsCurrent' /\ BufferIsFull'
    BY <1>1, <1>4, <2>1 DEF BufferIsCurrent, BufferIsFull, Commit
  <2>3. outcome'["main"] = outcome["main"] /\ job' = job
    BY <1>4 DEF LockInv, LockTypeOK, Commit
  <2>4. AheadIsUndecided'
    BY <1>1, <2>1, <2>3 DEF LockInv, AheadIsUndecided
  <2>5. SavedIsRecorded'
    BY <1>1, <1>4, <2>3 DEF LockInv, BufferIsCurrent, SavedIsRecorded, Commit
  <2> QED
    BY <2>1, <2>2, <2>4, <2>5 DEF LockInv
<1> QED
  BY <1>2, <1>3, <1>4 DEF Write, Commit, StatementFails

(* The main thread writes and commits its piece of work.                    *)
LEMMA MainKeepsInv ==
    ASSUME LockInv, Writing, Write("main") \/ Commit("main") \/ StatementFails("main")
    PROVE  LockInv'
<1> USE StoreLockAssumption DEF Threads
<1>1. pc["main"] = "writing" /\ lock = "main" /\ job["main"] \in 1 .. Jobs
  BY DEF LockInv, LockTypeOK, Exclusive, Writing
<1>2. CASE Abort("main") /\ UNCHANGED connection
  BY <1>1, <1>2, AbortKeepsInv
<1>3. CASE Write("main") /\ connection # "down"
  <2>1. LockTypeOK' /\ Exclusive'
    BY <1>1, <1>3 DEF LockInv, LockTypeOK, Exclusive, Write
  <2>2. Writing' /\ UNCHANGED <<pc, job, saved, outcome, connection>>
    BY <1>3 DEF Writing, Write
  <2>3. BufferIsCurrent'
    BY <1>1, <1>3, <2>2, RowsDiffer DEF LockInv, BufferIsCurrent, Writing, Write
  <2>4. ASSUME NEW i \in 1 .. Parts, i <= written'["main"]
        PROVE  Row("main", job["main"], i) \in buffer'
    <3>1. i <= written["main"] \/ i = written["main"] + 1
      BY <1>3, <2>4 DEF LockInv, LockTypeOK, Write
    <3> QED
      BY <1>3, <2>4, <3>1 DEF LockInv, LockTypeOK, BufferIsFull, Writing, Write
  <2>5. BufferIsFull'
    BY <2>2, <2>4 DEF BufferIsFull
  <2>6. AheadIsUndecided' /\ SavedIsRecorded'
    BY <2>2 DEF LockInv, AheadIsUndecided, SavedIsRecorded, Writing
  <2> QED
    BY <2>1, <2>3, <2>5, <2>6 DEF LockInv
<1>4. CASE Commit("main") /\ connection # "down"
  <2>1. LockTypeOK' /\ Exclusive' /\ ~Writing'
    BY <1>1, <1>4 DEF LockInv, LockTypeOK, Exclusive, Writing, Commit, Goto, Ready
  <2>2. BufferIsCurrent' /\ BufferIsFull'
    BY <1>4, <2>1 DEF BufferIsCurrent, BufferIsFull, Commit
  <2>3. job' = job /\ \A n \in 1 .. Jobs :
          outcome'["main"][n] = IF n = job["main"] THEN "recorded" ELSE outcome["main"][n]
    BY <1>1, <1>4 DEF LockInv, LockTypeOK, Commit
  <2>4. AheadIsUndecided'
    BY <1>1, <2>1, <2>3 DEF LockInv, LockTypeOK, AheadIsUndecided
  <2>5. ASSUME NEW n \in 1 .. Jobs, NEW i \in 1 .. Parts
        PROVE  Row("main", n, i) \in saved' <=> outcome'["main"][n] = "recorded"
    <3>1. Row("main", n, i) \in buffer <=> n = job["main"]
      BY <1>1, <1>4 DEF LockInv, LockTypeOK, BufferIsCurrent, BufferIsFull, Writing, Commit
    <3> QED
      BY <1>4, <2>3, <3>1 DEF LockInv, SavedIsRecorded, Commit
  <2> QED
    BY <2>1, <2>2, <2>4, <2>5 DEF LockInv, SavedIsRecorded
<1> QED
  BY <1>2, <1>3, <1>4 DEF Write, Commit, StatementFails

-----------------------------------------------------------------------------

(* Initially nothing is written.                                            *)
LEMMA LockInitHolds == LockInit => LockInv
  BY StoreLockAssumption DEF LockInit, LockInv, LockTypeOK, Exclusive, BufferIsCurrent, BufferIsFull, AheadIsUndecided,
     SavedIsRecorded, Writing, Threads

(* Every step keeps the invariant.                                          *)
LEMMA NextKeepsLock == LockInv /\ [LockNext]_lockVars => LockInv'
<1> SUFFICES ASSUME LockInv, [LockNext]_lockVars PROVE LockInv'
  OBVIOUS
<1> USE StoreLockAssumption DEF Threads
<1>1. ASSUME NEW t \in Threads, Take(t) PROVE LockInv'
  <2>1. ~Writing /\ \A u \in Threads : pc[u] # "writing"
    BY <1>1 DEF LockInv, LockTypeOK, Exclusive, Writing, Take
  <2>2. LockTypeOK' /\ Exclusive'
    BY <1>1, <2>1 DEF LockInv, LockTypeOK, Exclusive, Take, Goto
  <2>3. BufferIsCurrent'
    BY <1>1, <2>1 DEF LockInv, BufferIsCurrent, Take
  <2>4. BufferIsFull'
    BY <1>1, <2>1 DEF LockInv, LockTypeOK, BufferIsFull, Writing, Take, Goto
  <2>5. AheadIsUndecided' /\ SavedIsRecorded'
    BY <1>1, <2>1 DEF LockInv, LockTypeOK, AheadIsUndecided, SavedIsRecorded, Writing, Take, Goto
  <2> QED
    BY <2>2, <2>3, <2>4, <2>5 DEF LockInv
<1>2. ASSUME NEW t \in Threads, Write(t) \/ Commit(t) \/ StatementFails(t) PROVE LockInv'
  <2>1. pc[t] = "writing"
    BY <1>2 DEF Write, Commit, StatementFails
  <2>2. CASE t = "main"
    BY <1>2, <2>1, <2>2, MainKeepsInv DEF Writing
  <2>3. CASE t = "stream"
    BY <1>2, <2>1, <2>3, StreamKeepsInv
  <2> QED
    BY <2>2, <2>3
<1>3. CASE Report
  <2>1. ~Writing /\ ~Writing'
    BY <1>3 DEF LockInv, LockTypeOK, Exclusive, Writing, Report, Goto
  <2>2. LockTypeOK' /\ Exclusive'
    BY <1>3 DEF LockInv, LockTypeOK, Exclusive, Report, Goto
  <2> QED
    BY <1>3, <2>1, <2>2, QuietKeepsInv DEF Report
<1>4. CASE MainThread \/ SaveOption
  <2>1. ~Writing /\ ~Writing'
    BY <1>4 DEF LockInv, LockTypeOK, Writing, MainThread, SaveOption, Probe, EndProbe, RenewConnection, CommitOption, EndMainCycle, Goto
  <2>2. LockTypeOK' /\ Exclusive'
    BY <1>4 DEF LockInv, LockTypeOK, Exclusive, MainThread, SaveOption, Probe, EndProbe, RenewConnection, CommitOption, EndMainCycle, Goto
  <2>3. /\ UNCHANGED <<job, outcome>>
        /\ buffer' \subseteq buffer \cup {OptionRow}
        /\ saved \subseteq saved' /\ saved' \subseteq saved \cup buffer
    BY <1>4 DEF MainThread, SaveOption, Probe, EndProbe, RenewConnection, CommitOption, EndMainCycle
  <2> QED
    BY <2>1, <2>2, <2>3, QuietKeepsInv
<1>5. CASE DropConnection
  BY <1>5 DEF LockInv, LockTypeOK, Exclusive, BufferIsCurrent, BufferIsFull, AheadIsUndecided, SavedIsRecorded, Writing,
     DropConnection
<1>6. CASE UNCHANGED lockVars
  BY <1>6 DEF LockInv, LockTypeOK, Exclusive, BufferIsCurrent, BufferIsFull, AheadIsUndecided, SavedIsRecorded, Writing,
     lockVars
<1> QED
  BY <1>1, <1>2, <1>3, <1>4, <1>5, <1>6 DEF LockNext

(* What a cycle writes under the lock is saved as a whole or not at all.    *)
THEOREM CycleWorkStaysWhole == LockSpec => []CycleWorkIsWhole
<1>1. LockInv => CycleWorkIsWhole
  <2> SUFFICES ASSUME LockInv, NEW n \in 1 .. Jobs
               PROVE  saved \cap RowsOf("main", n)
                        = IF outcome["main"][n] = "recorded" THEN RowsOf("main", n) ELSE {}
    BY DEF CycleWorkIsWhole
  <2>1. CASE outcome["main"][n] = "recorded"
    BY <2>1 DEF LockInv, SavedIsRecorded, RowsOf
  <2>2. CASE outcome["main"][n] # "recorded"
    BY <2>2 DEF LockInv, SavedIsRecorded, RowsOf
  <2> QED
    BY <2>1, <2>2
<1> QED
  BY <1>1, LockInitHolds, NextKeepsLock, PTL DEF LockSpec

-----------------------------------------------------------------------------
(***************************************************************************)
(* The stream thread: one that lives is the one the supervisor has the     *)
(* name of; so a watchdog that finds the name missing or dead finds no     *)
(* thread alive, not even one that has ended and still reports.            *)
(***************************************************************************)
NameIsKept == \A t \in StreamThreads : Alive(t) => current = t

WatchInv ==
    /\ thread \in [StreamThreads -> {"unborn", "running", "reporting", "ended"}]
    /\ current \in StreamThreads \cup {0}
    /\ NameIsKept

(* startup has named the one thread it started.                             *)
LEMMA WatchInitHolds == WatchInit => WatchInv
  BY StreamWatchAssumption DEF WatchInit, WatchInv, NameIsKept, Alive, StreamThreads

(* Every step keeps the invariant.                                          *)
LEMMA NextKeepsWatch == WatchInv /\ [WatchNext]_watchVars => WatchInv'
<1> SUFFICES ASSUME WatchInv, [WatchNext]_watchVars PROVE WatchInv'
  OBVIOUS
<1> USE DEF WatchInv, NameIsKept
<1>1. ASSUME NEW t \in StreamThreads, StreamEnds(t) PROVE WatchInv'
  BY <1>1 DEF StreamEnds, Alive
<1>2. ASSUME NEW t \in StreamThreads, ThreadEnds(t) PROVE WatchInv'
  <2>1. current = t
    BY <1>2, StreamWatchAssumption DEF ThreadEnds, Alive, StreamThreads
  <2>2. \A u \in StreamThreads : ~Alive(u)'
    BY <1>2, <2>1 DEF ThreadEnds, Alive
  <2> QED
    BY <1>2, <2>1, <2>2 DEF ThreadEnds
<1>3. CASE EndOfCycle \/ SeenAlive \/ HoldOff
  BY <1>3 DEF EndOfCycle, SeenAlive, HoldOff, Alive
<1>4. CASE RestartFails
  <2>1. \A u \in StreamThreads : ~Alive(u)
    BY <1>4 DEF RestartFails, Missing
  <2> QED
    BY <1>4, <2>1 DEF RestartFails, Alive
<1>5. CASE Restart
  <2>1. \A u \in StreamThreads : ~Alive(u)
    BY <1>5 DEF Restart, Missing
  <2>2. PICK t \in StreamThreads : thread' = [thread EXCEPT ![t] = "running"] /\ current' = t
    BY <1>5 DEF Restart
  <2> QED
    BY <2>1, <2>2 DEF Alive
<1>6. CASE UNCHANGED watchVars
  BY <1>6 DEF watchVars, Alive
<1> QED
  BY <1>1, <1>2, <1>3, <1>4, <1>5, <1>6 DEF WatchNext, Watchdog

(* No two threads receive or record trade updates at the same time.         *)
THEOREM OneThreadAlways == WatchSpec => []OneThread
<1>1. WatchInv => OneThread
  BY DEF WatchInv, NameIsKept, OneThread
<1> QED
  BY <1>1, WatchInitHolds, NextKeepsWatch, PTL DEF WatchSpec

-----------------------------------------------------------------------------
(***************************************************************************)
(* The sessions of run_forever.                                            *)
(***************************************************************************)
Clocks ==
    /\ hour \in {"early", "pre_market", "regular", "after_hours", "late"}
    /\ trading \in BOOLEAN

\* What was sent is remembered, and only days with cycles are summed up.
SentIsRemembered ==
    /\ summarised => active
    /\ whole => sent = IF summarised THEN 1 ELSE 0

\* The last iterations of a day are idle, and have seen to its summary.
LateIsSummedUp == Up /\ hour = "late" /\ looked /\ active => summarised

RegularIsWorked == Up /\ hour = "regular" /\ looked /\ trading => active

LoopInv == Clocks /\ SentIsRemembered /\ LateIsSummedUp /\ RegularIsWorked /\ HolidaysAreQuiet

(* The five parts of a day.                                                 *)
LEMMA HoursAre ==
    /\ Hours[1] = "early" /\ Hours[2] = "pre_market" /\ Hours[3] = "regular"
    /\ Hours[4] = "after_hours" /\ Hours[5] = "late"
  BY DEF Hours

(* What an iteration finds late, in a regular session, and on a holiday.    *)
LEMMA SessionsAre ==
    ASSUME LoopInv, NEW answered \in BOOLEAN
    PROVE  /\ hour = "late" => CurrentSession(answered) = "closed"
           /\ hour = "regular" /\ trading => CurrentSession(answered) # "closed"
           /\ answered /\ ~trading => CurrentSession(answered) = "closed"
  BY DEF LoopInv, Clocks, CurrentSession, IsOpen, NextOpenIsToday

(* A process begins its first day with nothing done.                        *)
LEMMA LoopInitHolds == LoopInit => LoopInv
  BY DEF LoopInit, LoopInv, Clocks, SentIsRemembered, LateIsSummedUp, RegularIsWorked, HolidaysAreQuiet, Up

(* Every step keeps the invariant.                                          *)
LEMMA NextKeepsLoop == LoopInv /\ [LoopNext]_loopVars => LoopInv'
<1> SUFFICES ASSUME LoopInv, [LoopNext]_loopVars PROVE LoopInv'
  OBVIOUS
<1> USE DEF LoopInv, Clocks, SentIsRemembered, LateIsSummedUp, RegularIsWorked, HolidaysAreQuiet, Up, Look, LookWith
<1>1. ASSUME NEW answered \in BOOLEAN, NEW succeeds \in BOOLEAN, WorkCycle(answered, succeeds) PROVE LoopInv'
  BY <1>1, SessionsAre DEF WorkCycle
<1>2. ASSUME NEW answered \in BOOLEAN, Idle(answered) PROVE LoopInv'
  BY <1>2, SessionsAre DEF Idle
<1>3. ASSUME NEW answered \in BOOLEAN, Summarize(answered) PROVE LoopInv'
  BY <1>3, SessionsAre DEF Summarize
<1>4. ASSUME NEW answered \in BOOLEAN, SummaryRaises(answered) PROVE LoopInv'
  BY <1>4, SessionsAre DEF SummaryRaises
<1>5. CASE Crash \/ StartAgain
  BY <1>5 DEF Crash, StartAgain
<1>6. CASE HourPasses
  <2>1. hour' \in {"pre_market", "regular", "after_hours", "late"}
    BY <1>6, HoursAre DEF HourPasses
  <2> QED
    BY <1>6, <2>1 DEF HourPasses
<1>7. CASE DayPasses
  BY <1>7 DEF DayPasses
<1>8. CASE UNCHANGED loopVars
  BY <1>8 DEF loopVars
<1> QED
  BY <1>1, <1>2, <1>3, <1>4, <1>5, <1>6, <1>7, <1>8 DEF LoopNext

(* A day that had cycles has its summary, once, if the process was not      *)
(* restarted.                                                              *)
THEOREM EveryDayHasOneSummary == LoopSpec => []OneSummaryADay
<1>1. LoopInv => OneSummaryADay
  BY DEF LoopInv, OneSummaryADay, SentIsRemembered, LateIsSummedUp
<1> QED
  BY <1>1, LoopInitHolds, NextKeepsLoop, PTL DEF LoopSpec

(* On a day without trading no cycle runs, as long as the clock answers.    *)
THEOREM HolidaysStayQuiet == LoopSpec => []HolidaysAreQuiet
<1>1. LoopInv => HolidaysAreQuiet
  BY DEF LoopInv
<1> QED
  BY <1>1, LoopInitHolds, NextKeepsLoop, PTL DEF LoopSpec

(* The regular session of a trading day is worked while the process is up.  *)
THEOREM RegularSessionsAreWorked == LoopSpec => NoSessionMissed
<1>1. LoopInv /\ [LoopNext]_loopVars => [WorksSession]_loopVars
  <2> SUFFICES ASSUME LoopInv, LoopNext, hour = "regular", hour' # hour, trading, Up PROVE active
    BY DEF WorksSession
  <2>1. HourPasses \/ DayPasses
    BY DEF LoopNext, WorkCycle, Idle, Summarize, SummaryRaises, Look, LookWith, Crash, StartAgain
  <2> QED
    BY <2>1 DEF LoopInv, RegularIsWorked, HourPasses, DayPasses
<1> QED
  BY <1>1, LoopInitHolds, NextKeepsLoop, PTL DEF LoopSpec, NoSessionMissed
=============================================================================
