---------------------------- MODULE SessionGates ----------------------------
(***************************************************************************)
(* What closes a trading day to entries, and what flattens it: the loss    *)
(* limit against the equity of the day's first cycle, the gate on          *)
(* consecutive losses, the trading status and the session rows that the    *)
(* operator and a starting process write, and the readiness audit.         *)
(*                                                                         *)
(* One strategy, one position.  Money is counted in units of the loss      *)
(* limit's resolution; the market moves equity and the external short      *)
(* positions in it at will, also between two reads of one cycle.           *)
(***************************************************************************)
EXTENDS Integers

CONSTANTS
    Limit,         \* daily_loss_limit_pct of the baseline
    Worst,         \* the market takes at most this much of the account
    ExternalLoss,  \* what external shorts may have lost
    Gate,          \* intraday_consecutive_loss_gate, 0 for none
    FirstAudits,   \* "none" for a paper proof, whose audit must pass, else "not_needed"
    MaxFailures,   \* failing cycles in a row that end the process: 10 in the code
    None,          \* no amount: no baseline
    MaxLostSaves, MaxCrashes, MaxCommands   \* bounds of a behaviour

ASSUME SessionGatesAssumption ==
    /\ {Limit, Worst, ExternalLoss, Gate, MaxLostSaves, MaxCrashes, MaxCommands} \subseteq Nat
    /\ MaxFailures \in Nat \ {0}
    /\ FirstAudits \subseteq {"not_needed", "none"}
    /\ None \notin Int

Sessions == {"regular", "flatten", "extended"}

VARIABLES
    own, external, \* the account's own P&L of the day, that of external shorts
    losses,        \* losing trades since the day's last winning one
    position,      \* whether the strategy holds a position
    session,       \* regular hours, past the flatten time, extended hours
    status,        \* the trading status
    global, equityRow, strategyRow,  \* the daily_session_state rows
    audit,         \* the readiness audit: not needed, none, passed before this start, passed
    mem,           \* what the process remembers of the day
    pc, read,      \* where the cycle or the startup is, and what it has read
    left,          \* failures, crashes and commands left
    said           \* what has been announced, and what the operator asked for

market == <<own, external, losses, session>>
rows == <<status, global, equityRow, strategyRow, audit>>
vars == <<market, position, rows, mem, pc, read, left, said>>

Forgotten == [baseline |-> None, external |-> None, fired |-> FALSE,
              alerted |-> FALSE, gate |-> FALSE, failures |-> 0]
NothingRead == [session |-> "regular", external |-> 0, equity |-> 0, own |-> 0, global |-> FALSE,
                breached |-> FALSE, status |-> "enabled"]
NoRow == [baseline |-> None, external |-> None, disabled |-> FALSE]

Init ==
    /\ own = 0 /\ external = 0 /\ losses = 0 /\ position = FALSE /\ session = "regular"
    /\ status = "enabled" /\ global = FALSE /\ equityRow = NoRow
    /\ strategyRow = FALSE /\ audit \in FirstAudits
    /\ mem = Forgotten /\ pc = "down" /\ read = NothingRead
    /\ left = [saves |-> MaxLostSaves, crashes |-> MaxCrashes, commands |-> MaxCommands]
    /\ said = [loss |-> FALSE, gate |-> FALSE, breach |-> FALSE, flattened |-> FALSE,
               resumed |-> FALSE, shorts |-> FALSE]

Extended(s) == s = "extended"

-----------------------------------------------------------------------------
(***************************************************************************)
(* The market and the operator.                                            *)
(***************************************************************************)
Moves ==
    /\ \/ /\ position /\ own > -Worst /\ own' = own - 1 /\ UNCHANGED external
       \/ /\ position /\ own < 0 /\ own' = own + 1 /\ UNCHANGED external
       \/ /\ external' \in {0, -ExternalLoss} \ {external} /\ UNCHANGED own
    /\ UNCHANGED <<losses, session, position, rows, mem, pc, read, left, said>>

\* A stop or a target ends the trade.
TradeEnds ==
    /\ position /\ position' = FALSE
    /\ losses' \in {0, IF losses < Gate THEN losses + 1 ELSE losses}
    /\ UNCHANGED <<own, external, session, rows, mem, pc, read, left, said>>

DayGoesOn ==
    /\ \/ session = "regular" /\ session' = "flatten"
       \/ session = "flatten" /\ session' = "extended"
    /\ UNCHANGED <<own, external, losses, position, rows, mem, pc, read, left, said>>

\* Halt, close-only and resume, by command line or dashboard; a resume clears
\* the global row in the same transaction.
Command(new) ==
    /\ left.commands > 0 /\ left' = [left EXCEPT !.commands = @ - 1]
    /\ status' = new
    /\ global' = IF new = "enabled" THEN FALSE ELSE global
    /\ said' = [said EXCEPT !.resumed = new = "enabled"]
    /\ UNCHANGED <<market, position, equityRow, strategyRow, audit, mem, pc, read>>

\* toggle-entries of the dashboard.
ToggleEntries ==
    /\ left.commands > 0 /\ left' = [left EXCEPT !.commands = @ - 1]
    /\ strategyRow' = ~strategyRow
    /\ UNCHANGED <<market, position, status, global, equityRow, audit, mem, pc, read, said>>

\* The scheduled readiness check passes, or its pass grows too old.
AuditChanges ==
    /\ audit # "not_needed" /\ audit' \in {"none", "passed"} \ {audit}
    /\ UNCHANGED <<market, position, status, global, equityRow, strategyRow, mem, pc, read, left, said>>

CommandLine == \E new \in {"enabled", "close_only", "halted"} : Command(new)

Dashboard == (\E new \in {"enabled", "close_only", "halted"} : Command(new)) \/ ToggleEntries

Operator == CommandLine \/ Dashboard

-----------------------------------------------------------------------------
(***************************************************************************)
(* The process starts: the status is loaded, then the global row written.  *)
(***************************************************************************)
LoadStatusAtStart ==
    /\ pc = "down" /\ pc' = "starting"
    /\ read' = [NothingRead EXCEPT !.status = status]
    /\ mem' = Forgotten
    /\ said' = [said EXCEPT !.resumed = FALSE]
    /\ UNCHANGED <<market, position, rows, left>>

\* A mismatch between broker and ledger closes the day as a status would.
WriteGlobalRow ==
    /\ pc = "starting" /\ pc' = "idle"
    /\ \E mismatch \in BOOLEAN :
         /\ global' = (mismatch \/ read.status # "enabled")
         /\ said' = [said EXCEPT !.resumed = @ /\ ~mismatch]
    /\ audit' = IF audit = "passed" THEN "old" ELSE audit
    /\ UNCHANGED <<market, position, status, equityRow, strategyRow, mem, read, left>>

\* What a process that ends leaves behind.
Crash ==
    /\ pc # "down" /\ left.crashes > 0
    /\ left' = [left EXCEPT !.crashes = @ - 1]
    /\ pc' = "down" /\ mem' = Forgotten /\ read' = NothingRead
    /\ UNCHANGED <<market, position, rows, said>>

\* A cycle raises, here because a save fails; too many in a row end the process.
CycleFails(remembered) ==
    /\ left.saves > 0 /\ left' = [left EXCEPT !.saves = @ - 1]
    /\ read' = NothingRead
    /\ IF mem.failures + 1 = MaxFailures
       THEN pc' = "down" /\ mem' = Forgotten
       ELSE pc' = "idle" /\ mem' = [remembered EXCEPT !.failures = @ + 1]
    /\ UNCHANGED rows

-----------------------------------------------------------------------------
(***************************************************************************)
(* A cycle.                                                                *)
(***************************************************************************)
ReadPositions ==
    /\ pc = "idle" /\ pc' = "account"
    /\ read' = [NothingRead EXCEPT !.session = session, !.external = external]
    /\ UNCHANGED <<market, position, rows, mem, left, said>>

ReadAccount ==
    /\ pc = "account" /\ pc' = "baseline"
    /\ read' = [read EXCEPT !.equity = own + external, !.own = own, !.global = global]
    /\ UNCHANGED <<market, position, rows, mem, left, said>>

\* Mutation: a restart takes the equity it finds.
RestorableIfDisabled == equityRow.baseline # None /\ equityRow.disabled

Restorable == equityRow.baseline # None

\* Mutation: the marker of the day is not looked at.
RestoredBlind == [mem EXCEPT !.baseline = equityRow.baseline, !.external = equityRow.external]

Restored == [mem EXCEPT !.baseline = equityRow.baseline, !.external = equityRow.external,
                        !.fired = @ \/ equityRow.disabled]

KnowBaseline ==
    /\ pc = "baseline" /\ (mem.baseline # None \/ Restorable)
    /\ pc' = "loss"
    /\ mem' = IF mem.baseline # None THEN mem ELSE Restored
    /\ UNCHANGED <<market, position, rows, read, left, said>>

\* The day's first cycle: remembered first, then saved.
TakeBaseline ==
    LET taken == [mem EXCEPT !.baseline = read.equity, !.external = read.external] IN
    /\ pc = "baseline" /\ mem.baseline = None /\ ~Restorable
    /\ \/ /\ pc' = "loss" /\ mem' = taken
          /\ equityRow' = [baseline |-> read.equity, external |-> read.external, disabled |-> FALSE]
          /\ UNCHANGED <<status, global, strategyRow, audit, read, left>>
       \/ CycleFails(taken)
    /\ UNCHANGED <<market, position, said>>

\* The row's own external baseline survives a save without one.
Blocked == [baseline |-> mem.baseline, external |-> equityRow.external, disabled |-> TRUE]

\* Equity beyond the external shorts' part of it.
Adjusted == read.equity - mem.baseline
              - (IF mem.external = None THEN 0 ELSE read.external - mem.external)

\* Mutation: the limit is judged anew in every cycle.
BreachedLive == Adjusted < -Limit

\* In extended hours only the live P&L counts, else whatever the day has seen.
Breached == IF Extended(read.session) THEN Adjusted < -Limit ELSE Adjusted < -Limit \/ mem.fired

CheckLoss ==
    /\ pc = "loss"
    /\ pc' = IF Breached /\ ~mem.alerted THEN "alert" ELSE "gate"
    /\ read' = [read EXCEPT !.breached = Breached]
    /\ mem' = [mem EXCEPT !.fired = @ \/ Adjusted < -Limit, !.alerted = @ \/ Breached]
    /\ said' = [said EXCEPT !.breach = @ \/ (Adjusted < -Limit /\ ~Extended(read.session)),
                            !.shorts = @ \/ (Adjusted < -Limit /\ read.own >= -Limit)]
    /\ UNCHANGED <<market, position, rows, left>>

\* Once a day: the breach is saved, then announced.
SaveBreach ==
    /\ pc = "alert"
    /\ \/ /\ pc' = "gate" /\ equityRow' = Blocked
          /\ said' = [said EXCEPT !.loss = TRUE]
          /\ UNCHANGED <<status, global, strategyRow, audit, mem, read, left>>
       \/ CycleFails(mem) /\ UNCHANGED said
    /\ UNCHANGED <<market, position>>

GateFires == Gate > 0 /\ ~read.breached /\ ~mem.gate /\ losses >= Gate

\* Remembered first; a save that fails is passed over.
FireGate ==
    /\ mem' = [mem EXCEPT !.gate = TRUE]
    /\ \/ equityRow' = Blocked /\ UNCHANGED left
          /\ said' = [said EXCEPT !.gate = TRUE, !.resumed = FALSE]
       \/ /\ left.saves > 0 /\ left' = [left EXCEPT !.saves = @ - 1]
          /\ UNCHANGED <<equityRow, said>>

\* Regular hours only.
CheckLosses ==
    /\ pc = "gate" /\ pc' = "status"
    /\ IF ~Extended(read.session) /\ GateFires
       THEN FireGate
       ELSE UNCHANGED <<mem, equityRow, left, said>>
    /\ UNCHANGED <<market, position, status, global, strategyRow, audit, read>>

LoadStatus ==
    /\ pc = "status" /\ pc' = "decide"
    /\ read' = [read EXCEPT !.status = IF status # "enabled" THEN status
                                       ELSE IF read.global /\ ~Extended(read.session) THEN "close_only"
                                       ELSE "enabled"]
    /\ UNCHANGED <<market, position, rows, mem, left, said>>

Audited == audit \in {"not_needed", "passed"} \/ Extended(read.session)

\* entries_disabled_reasons, and the strategy's own.
EntriesOpen ==
    /\ read.status = "enabled" /\ ~read.breached /\ ~mem.gate /\ Audited
    /\ ~(strategyRow /\ ~Extended(read.session))

Flattens == read.breached \/ read.session = "flatten"

CycleEnds ==
    /\ pc = "decide" /\ pc' = "idle" /\ read' = NothingRead
    /\ mem' = [mem EXCEPT !.failures = 0]

Enter ==
    /\ CycleEnds
    /\ EntriesOpen /\ ~Flattens /\ ~position /\ position' = TRUE
    /\ UNCHANGED <<market, rows, left, said>>

\* Every position exits, or an exit fails; only a success marks the strategy.
Flatten ==
    /\ CycleEnds
    /\ Flattens /\ position /\ read.status # "halted"
    /\ \/ position' = FALSE /\ strategyRow' = TRUE
          /\ said' = [said EXCEPT !.flattened = @ \/ (read.breached /\ read.session = "regular")]
       \/ UNCHANGED <<position, strategyRow, said>>
    /\ UNCHANGED <<market, status, global, equityRow, audit, left>>

\* No signal, nothing to flatten, or no orders while halted.
NothingToDo ==
    /\ CycleEnds
    /\ ~(Flattens /\ position /\ read.status # "halted")
    /\ UNCHANGED <<market, position, rows, left, said>>

Cycle ==
    \/ ReadPositions \/ ReadAccount \/ KnowBaseline \/ TakeBaseline
    \/ CheckLoss \/ SaveBreach \/ CheckLosses \/ LoadStatus
    \/ Enter \/ Flatten \/ NothingToDo

Start == LoadStatusAtStart \/ WriteGlobalRow

Next == Cycle \/ Start \/ Crash \/ Operator \/ AuditChanges \/ Moves \/ TradeEnds \/ DayGoesOn

Spec == Init /\ [][Next]_vars

\* The process runs its cycles, Docker restarts it, and the broker does not
\* refuse an exit for ever.
Fairness ==
    /\ WF_vars(Cycle \/ Start)
    /\ SF_vars(Flatten /\ ~position')

FairSpec == Spec /\ Fairness

-----------------------------------------------------------------------------
\* Enters: the step that opens a position.
Enters == ~position /\ position'

\* Once a breach was announced, or the gate saved, no restart, lost save, lucky
\* market or command opens another position in regular hours.
EntersUnblocked == Enters => ~(said.loss \/ said.gate) \/ Extended(read.session)

\* A start forgets the audits before it: no entry before the next one passes.
EntersAudited == Enters => audit \in {"not_needed", "passed"} \/ Extended(read.session)

\* What has closed the day to entries keeps it closed.
BlockedForTheDay == [][EntersUnblocked /\ EntersAudited]_vars

\* The loss of a day is measured from one equity, whenever the process starts.
OneBaseline ==
    equityRow.baseline # None /\ mem.baseline # None => mem.baseline = equityRow.baseline

-----------------------------------------------------------------------------
\* What the documents and comments say.

\* A limit once fired stays fired for the day.
LossLimitSticks == [][Enters => ~said.breach \/ Extended(read.session)]_vars

\* The consecutive-loss gate pauses entries; only the loss limit flattens.
OnlyBreachFlattens == said.flattened => said.breach

\* "Resume manually to re-enable": nothing but the gate left, after a resume.
ResumeEndsGate ==
    pc = "decide" /\ said.resumed /\ read.status = "enabled" /\ ~read.breached
      => ~mem.gate

\* A resume given to a running or starting process clears the global entry block.
ResumeClearsBlock ==
    pc = "idle" /\ said.resumed /\ ~said.gate => ~global

\* External shorts do not consume the loss budget.
ShortsSpareTheLimit == ~said.shorts
=============================================================================
