---------------------------- MODULE SessionLoop ----------------------------
(***************************************************************************)
(* run_forever through the hours of a day: which session an iteration      *)
(* finds from the wall clock and the broker's clock, whether it runs a     *)
(* cycle or idles, the failures that end the process, and the summary sent *)
(* at the first idle iteration after a day's cycles. What a cycle does is  *)
(* left to the other modules.                                              *)
(***************************************************************************)
EXTENDS ProcessBounds, Integers

VARIABLES hour,        \* part of the day, New York time
          trading,     \* the exchange opens today
          day,
          process,     \* "up", or how it ended
          found,     \* what the last iteration found
          failing,    \* _consecutive_cycle_failures
          active,      \* today is in _session_had_active_cycle
          summarised,  \* today is in _summary_sent
          sent,        \* summaries attempted today
          looked,      \* the process has iterated within this hour
          whole,       \* the process has been up all day
          asked,       \* every clock call of today was answered
          crashes, loopFaults

loopVars == <<hour, trading, day, process, found, failing, active, summarised, sent, looked, whole,
          asked, crashes, loopFaults>>

Hours == <<"early", "pre_market", "regular", "after_hours", "late">>
Up == process = "up"

\* The broker's clock, a fact of the exchange.
IsOpen == trading /\ hour = "regular"
NextOpenIsToday == trading /\ hour \in {"early", "pre_market"}

\* Mutation: without an answer the session counts as closed.
SessionIfAnswered(answered) ==
    CASE hour = "regular" -> IF answered /\ IsOpen THEN hour ELSE "closed"
      [] hour \in {"pre_market", "after_hours"} ->
            IF Extended /\ answered /\ NextOpenIsToday THEN hour ELSE "closed"
      [] OTHER -> "closed"

(* detect_session_type, then what the broker's clock makes of it.           *)
CurrentSession(answered) ==
    CASE hour = "regular" -> IF answered => IsOpen THEN hour ELSE "closed"
      [] hour \in {"pre_market", "after_hours"} ->
            IF Extended /\ (answered => IsOpen \/ NextOpenIsToday) THEN hour ELSE "closed"
      [] OTHER -> "closed"

\* What an iteration finds, with so many other faults.
LookWith(answered, others) ==
    /\ Up
    /\ found' = CurrentSession(answered)
    /\ loopFaults' = loopFaults + others + (IF answered THEN 0 ELSE 1)
    /\ loopFaults' <= MaxLoopFaults
    /\ asked' = (asked /\ answered)
    /\ looked' = TRUE
    /\ UNCHANGED <<hour, trading, day, whole, crashes>>

Look(answered) == LookWith(answered, 0)

-----------------------------------------------------------------------------

(* An iteration with a cycle; too many failures in a row end the process.   *)
WorkCycle(answered, succeeds) ==
    /\ Look(answered)
    /\ found' # "closed"
    /\ active' = TRUE
    /\ failing' = IF succeeds THEN 0 ELSE failing + 1
    /\ process' = IF failing' = MaxFailures THEN "failed" ELSE "up"
    /\ UNCHANGED <<summarised, sent>>

(* An idle iteration with nothing to sum up, or after the summary.          *)
Idle(answered) ==
    /\ Look(answered)
    /\ found' = "closed"
    /\ ~active \/ summarised
    /\ UNCHANGED <<process, failing, active, summarised, sent>>

\* Mutation: the summary is not remembered.
SummarizeAgain(answered) ==
    /\ Look(answered)
    /\ found' = "closed"
    /\ active /\ ~summarised
    /\ sent' = sent + 1
    /\ UNCHANGED <<process, failing, active, summarised>>

(* The summary goes out; a notifier that fails is not asked again.          *)
Summarize(answered) ==
    /\ Look(answered)
    /\ found' = "closed"
    /\ active /\ ~summarised
    /\ summarised' = TRUE
    /\ sent' = sent + 1
    /\ UNCHANGED <<process, failing, active>>

(* Its reads from the database fail, outside of any handler.                *)
SummaryRaises(answered) ==
    /\ LookWith(answered, 1)
    /\ found' = "closed"
    /\ active /\ ~summarised
    /\ process' = "raised"
    /\ UNCHANGED <<failing, active, summarised, sent>>

(* The process is killed or asked to stop.                                  *)
Crash ==
    /\ Up
    /\ crashes < MaxCrashes
    /\ crashes' = crashes + 1
    /\ process' = "crashed"
    /\ UNCHANGED <<hour, trading, day, found, failing, active, summarised, sent, looked, whole, asked, loopFaults>>

(* Docker starts it again, with nothing remembered.                         *)
StartAgain ==
    /\ ~Up
    /\ process' = "up"
    /\ failing' = 0
    /\ active' = FALSE /\ summarised' = FALSE /\ looked' = FALSE /\ whole' = FALSE
    /\ UNCHANGED <<hour, trading, day, found, sent, asked, crashes, loopFaults>>

(* A process that is up iterates in every part of the day.                  *)
HourPasses ==
    /\ Up => looked
    /\ \E i \in 1 .. 4 : hour = Hours[i] /\ hour' = Hours[i + 1]
    /\ looked' = FALSE
    /\ UNCHANGED <<trading, day, process, found, failing, active, summarised, sent, whole, asked, crashes,
                   loopFaults>>

DayPasses ==
    /\ Up => looked
    /\ hour = "late"
    /\ day < MaxDays
    /\ day' = day + 1
    /\ hour' = "early"
    /\ trading' \in BOOLEAN
    /\ active' = FALSE /\ summarised' = FALSE /\ looked' = FALSE
    /\ sent' = 0
    /\ whole' = Up
    /\ asked' = TRUE
    /\ UNCHANGED <<process, found, failing, crashes, loopFaults>>

-----------------------------------------------------------------------------

LoopInit ==
    /\ hour = "early" /\ trading \in BOOLEAN /\ day = 1
    /\ process = "up" /\ found = "closed" /\ failing = 0
    /\ active = FALSE /\ summarised = FALSE /\ looked = FALSE
    /\ sent = 0 /\ whole = TRUE /\ asked = TRUE
    /\ crashes = 0 /\ loopFaults = 0

LoopNext ==
    \/ \E answered \in BOOLEAN :
        \/ \E succeeds \in BOOLEAN : WorkCycle(answered, succeeds)
        \/ Idle(answered)
        \/ Summarize(answered)
        \/ SummaryRaises(answered)
    \/ Crash \/ StartAgain \/ HourPasses \/ DayPasses

LoopSpec == LoopInit /\ [][LoopNext]_loopVars

-----------------------------------------------------------------------------
(* Properties.                                                             *)

(* At the end of a day that had cycles, its summary has gone out, once, if  *)
(* the process was not restarted.                                           *)
OneSummaryADay ==
    whole /\ Up /\ hour = "late" /\ looked => sent = IF active THEN 1 ELSE 0

(* The regular session of a trading day is worked whenever the process is   *)
(* up, also when the broker's clock cannot be read.                         *)
WorksSession == hour = "regular" /\ hour' # hour /\ trading /\ Up => active
NoSessionMissed == [][WorksSession]_loopVars

(* On a day without trading no cycle runs, as long as the clock answers.    *)
HolidaysAreQuiet == ~trading /\ asked => ~active

(* "Failures are logged, never raised", the docstring of the summary says.  *)
SummaryNeverEndsIt == process # "raised"

(* "AFTER_HOURS, 16:00-20:00, cycles run if enabled", the design says.      *)
AfterHoursAreWorked ==
    [][Extended /\ trading /\ hour = "after_hours" /\ hour' # hour /\ Up => found = "after_hours"]_loopVars
=============================================================================
