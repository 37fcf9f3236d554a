------------------------- MODULE SessionGatesProofs -------------------------
(***************************************************************************)
(* One baseline a day, and no entry after the loss limit was announced,    *)
(* the loss gate saved or the audits forgotten: for every limit, gate and  *)
(* market, and for any number of lost saves, restarts and commands.        *)
(*                                                                         *)
(* What was announced survives in the equity row (AnnouncedIsSaved); what  *)
(* a process that knows its baseline has found disabled it remembers       *)
(* (SavedIsRemembered); what it remembers closes the cycle (FiredIsSeen).  *)
(*                                                                         *)
(* Beside the gates, the floor of the confidence: its drawdown is counted  *)
(* from the peak, and it is lowered for a reason only.                     *)
(***************************************************************************)
EXTENDS SessionGates, TLAPS

CONSTANTS Default, ManualFloors, Step, Cap, Equities, RaisePct, MaxAge, MaxSets  \* ConfidenceFloor
VARIABLES equity, volatility, row, raised, check, command, sets, floorSaid       \* ConfidenceFloor

Floor == INSTANCE ConfidenceFloor WITH said <- floorSaid

Steps == {"down", "starting", "idle", "account", "baseline", "loss", "alert", "gate", "status",
          "decide"}
Amounts == Int \cup {None}
Memories == [baseline : Amounts, external : Amounts, fired : BOOLEAN, alerted : BOOLEAN,
             gate : BOOLEAN, failures : Int]
EquityRows == [baseline : Amounts, external : Amounts, disabled : BOOLEAN]
Readings == [session : Sessions, external : Int, equity : Int, own : Int, global : BOOLEAN,
             breached : BOOLEAN, status : {"enabled", "close_only", "halted"}]
Announcements == [loss : BOOLEAN, gate : BOOLEAN, breach : BOOLEAN, flattened : BOOLEAN,
                  resumed : BOOLEAN, shorts : BOOLEAN]

\* What the invariant speaks of has its type.
GatesTypeOK ==
    /\ own \in Int /\ external \in Int /\ session \in Sessions
    /\ position \in BOOLEAN /\ global \in BOOLEAN /\ strategyRow \in BOOLEAN
    /\ status \in {"enabled", "close_only", "halted"}
    /\ audit \in {"not_needed", "none", "old", "passed"}
    /\ mem \in Memories /\ equityRow \in EquityRows /\ read \in Readings
    /\ pc \in Steps /\ said \in Announcements

\* Past the baseline a cycle knows it.
BaselineIsKnown ==
    pc \in {"loss", "alert", "gate", "status", "decide"} => mem.baseline # None

\* Only a row with a baseline is disabled, and a cycle takes a baseline only for a
\* row without one: what disables the day is not overwritten.
AnnouncedIsSaved ==
    /\ equityRow.disabled => equityRow.baseline # None
    /\ said.loss \/ said.gate => equityRow.disabled

\* A process that knows the baseline has seen the flag, or is the one that set it.
SavedIsRemembered ==
    equityRow.disabled /\ mem.baseline # None => mem.fired \/ mem.gate

\* An alert is about a breach that is remembered.
AlertIsFired == (pc = "alert" \/ mem.alerted) => mem.fired

\* A remembered breach is a breach of every later cycle in regular hours.
FiredIsSeen ==
    pc \in {"alert", "gate", "status", "decide"} /\ mem.fired /\ ~Extended(read.session)
      => read.breached

IInv ==
    /\ GatesTypeOK /\ BaselineIsKnown /\ AnnouncedIsSaved /\ SavedIsRemembered
    /\ AlertIsFired /\ FiredIsSeen /\ OneBaseline

-----------------------------------------------------------------------------
LEMMA InitInv == Init => IInv
<1> USE SessionGatesAssumption
<1> SUFFICES ASSUME Init PROVE IInv
  OBVIOUS
<1>1. mem = Forgotten /\ equityRow = NoRow /\ read = NothingRead /\ pc = "down"
  BY DEF Init
<1>2. Forgotten \in Memories /\ NoRow \in EquityRows /\ NothingRead \in Readings
  BY DEF Forgotten, NoRow, NothingRead, Memories, EquityRows, Readings, Amounts, Sessions
<1>3. said = [loss |-> FALSE, gate |-> FALSE, breach |-> FALSE, flattened |-> FALSE,
              resumed |-> FALSE, shorts |-> FALSE]
  BY DEF Init
<1>4. said \in Announcements
  BY <1>3 DEF Announcements
<1>5. GatesTypeOK
  <2>1. mem \in Memories /\ equityRow \in EquityRows /\ read \in Readings /\ pc \in Steps
    BY <1>1, <1>2 DEF Steps
  <2>2. audit \in {"not_needed", "none", "old", "passed"}
    BY DEF Init
  <2>3. own \in Int /\ external \in Int /\ session \in Sessions
    BY DEF Init, Sessions
  <2>4. /\ position \in BOOLEAN /\ global \in BOOLEAN /\ strategyRow \in BOOLEAN
        /\ status \in {"enabled", "close_only", "halted"}
    BY DEF Init
  <2>5. QED
    BY <1>4, <2>1, <2>2, <2>3, <2>4 DEF GatesTypeOK
<1>6. BaselineIsKnown /\ AnnouncedIsSaved /\ SavedIsRemembered /\ AlertIsFired /\ FiredIsSeen
      /\ OneBaseline
  BY <1>1, <1>3 DEF Forgotten, NoRow, BaselineIsKnown, AnnouncedIsSaved, SavedIsRemembered,
     AlertIsFired, FiredIsSeen, OneBaseline
<1>7. QED
  BY <1>5, <1>6 DEF IInv
-----------------------------------------------------------------------------
\* What the invariant says of memory, row and announcements.
Remembers ==
    /\ BaselineIsKnown /\ AnnouncedIsSaved /\ SavedIsRemembered
    /\ AlertIsFired /\ FiredIsSeen /\ OneBaseline

\* The market and the operator write neither of them.
LEMMA OutsideKeeps ==
    ASSUME Remembers, UNCHANGED <<mem, pc, read, equityRow>>,
           said'.loss = said.loss, said'.gate = said.gate
    PROVE  Remembers'
BY DEF Remembers, BaselineIsKnown, AnnouncedIsSaved, SavedIsRemembered, AlertIsFired,
   FiredIsSeen, OneBaseline

LEMMA MarketStep ==
    ASSUME IInv, Moves \/ TradeEnds \/ DayGoesOn \/ AuditChanges
    PROVE  IInv'
<1> USE SessionGatesAssumption
<1>0. GatesTypeOK /\ Remembers
  BY DEF IInv, Remembers
<1>1. UNCHANGED <<mem, pc, read, equityRow, said, status, global, strategyRow>>
  BY DEF Moves, TradeEnds, DayGoesOn, AuditChanges, rows, market
<1>2. own' \in Int /\ external' \in Int
  <2>1. CASE Moves
    BY <1>0, <2>1 DEF Moves, GatesTypeOK
  <2>2. CASE TradeEnds \/ DayGoesOn \/ AuditChanges
    BY <1>0, <2>2 DEF TradeEnds, DayGoesOn, AuditChanges, GatesTypeOK, market
  <2>3. QED
    BY <2>1, <2>2
<1>3. session' \in Sessions /\ position' \in BOOLEAN
  BY <1>0 DEF Moves, TradeEnds, DayGoesOn, AuditChanges, GatesTypeOK, Sessions, market
<1>4. audit' \in {"not_needed", "none", "old", "passed"}
  BY <1>0 DEF Moves, TradeEnds, DayGoesOn, AuditChanges, GatesTypeOK, rows
<1>5. GatesTypeOK'
  BY <1>0, <1>1, <1>2, <1>3, <1>4 DEF GatesTypeOK
<1>6. Remembers'
  BY <1>0, <1>1, OutsideKeeps
<1>7. QED
  BY <1>5, <1>6 DEF IInv, Remembers

LEMMA OperatorStep ==
    ASSUME IInv, Operator
    PROVE  IInv'
<1>0. GatesTypeOK /\ Remembers
  BY DEF IInv, Remembers
<1>1. CASE ToggleEntries
  <2>1. UNCHANGED <<market, position, status, global, equityRow, audit, mem, pc, read, said>>
        /\ strategyRow' = ~strategyRow
    BY <1>1 DEF ToggleEntries
  <2>2. GatesTypeOK'
    BY <1>0, <2>1 DEF GatesTypeOK, market
  <2>3. Remembers'
    BY <1>0, <2>1, OutsideKeeps
  <2>4. QED
    BY <2>2, <2>3 DEF IInv, Remembers
<1>2. ASSUME NEW new \in {"enabled", "close_only", "halted"}, Command(new)
      PROVE  IInv'
  <2>1. /\ UNCHANGED <<market, position, equityRow, strategyRow, audit, mem, pc, read>>
        /\ status' = new
        /\ global' = IF new = "enabled" THEN FALSE ELSE global
        /\ said' = [said EXCEPT !.resumed = new = "enabled"]
    BY <1>2 DEF Command
  <2>2. said' \in Announcements /\ said'.loss = said.loss /\ said'.gate = said.gate
    BY <1>0, <2>1 DEF GatesTypeOK, Announcements
  <2>3. GatesTypeOK'
    BY <1>0, <2>1, <2>2 DEF GatesTypeOK, market
  <2>4. Remembers'
    BY <1>0, <2>1, <2>2, OutsideKeeps
  <2>5. QED
    BY <2>3, <2>4 DEF IInv, Remembers
<1>3. QED
  BY <1>1, <1>2 DEF Operator, CommandLine, Dashboard

\* A process that starts or ends remembers nothing.
LEMMA ProcessStep ==
    ASSUME IInv, Start \/ Crash
    PROVE  IInv'
<1> USE SessionGatesAssumption
<1>0. GatesTypeOK /\ Remembers
  BY DEF IInv, Remembers
<1>1. Forgotten \in Memories /\ NothingRead \in Readings
  BY DEF Forgotten, NothingRead, Memories, Readings, Amounts, Sessions
<1>2. CASE LoadStatusAtStart
  <2>1. /\ pc' = "starting" /\ read' = [NothingRead EXCEPT !.status = status]
        /\ mem' = Forgotten /\ said' = [said EXCEPT !.resumed = FALSE]
        /\ UNCHANGED <<market, position, rows, left>>
    BY <1>2 DEF LoadStatusAtStart
  <2>2. said' \in Announcements /\ said'.loss = said.loss /\ said'.gate = said.gate
    BY <1>0, <2>1 DEF GatesTypeOK, Announcements
  <2>3. read' \in Readings
    BY <1>0, <1>1, <2>1 DEF GatesTypeOK, Readings
  <2>4. GatesTypeOK'
    BY <1>0, <1>1, <2>1, <2>2, <2>3 DEF GatesTypeOK, Steps, market, rows
  <2>5. Remembers'
    BY <1>0, <2>1, <2>2 DEF Remembers, BaselineIsKnown, AnnouncedIsSaved, SavedIsRemembered,
       AlertIsFired, FiredIsSeen, OneBaseline, Forgotten, rows
  <2>6. QED
    BY <2>4, <2>5 DEF IInv, Remembers
<1>3. CASE WriteGlobalRow
  <2>1. /\ pc' = "idle" /\ UNCHANGED <<market, position, status, equityRow, strategyRow, mem, read>>
        /\ audit' = IF audit = "passed" THEN "old" ELSE audit
    BY <1>3 DEF WriteGlobalRow
  <2>2. PICK mismatch \in BOOLEAN : /\ global' = (mismatch \/ read.status # "enabled")
                                    /\ said' = [said EXCEPT !.resumed = @ /\ ~mismatch]
    BY <1>3 DEF WriteGlobalRow
  <2>3. said' \in Announcements /\ said'.loss = said.loss /\ said'.gate = said.gate
    BY <1>0, <2>2 DEF GatesTypeOK, Announcements
  <2>4. global' \in BOOLEAN /\ audit' \in {"not_needed", "none", "old", "passed"}
    BY <1>0, <2>1, <2>2 DEF GatesTypeOK
  <2>5. GatesTypeOK'
    BY <1>0, <2>1, <2>3, <2>4 DEF GatesTypeOK, Steps, market
  <2>6. Remembers'
    BY <1>0, <2>1, <2>3 DEF Remembers, BaselineIsKnown, AnnouncedIsSaved, SavedIsRemembered,
       AlertIsFired, FiredIsSeen, OneBaseline
  <2>7. QED
    BY <2>5, <2>6 DEF IInv, Remembers
<1>4. CASE Crash
  <2>1. /\ pc' = "down" /\ mem' = Forgotten /\ read' = NothingRead
        /\ UNCHANGED <<market, position, rows, said>>
    BY <1>4 DEF Crash
  <2>2. GatesTypeOK'
    BY <1>0, <1>1, <2>1 DEF GatesTypeOK, Steps, market, rows
  <2>3. Remembers'
    BY <1>0, <2>1 DEF Remembers, BaselineIsKnown, AnnouncedIsSaved, SavedIsRemembered,
       AlertIsFired, FiredIsSeen, OneBaseline, Forgotten, rows
  <2>4. QED
    BY <2>2, <2>3 DEF IInv, Remembers
<1>5. QED
  BY <1>2, <1>3, <1>4 DEF Start

-----------------------------------------------------------------------------
\* A cycle reads, and knows the baseline or takes the day's first.
LEMMA ReadingStep ==
    ASSUME IInv, ReadPositions \/ ReadAccount
    PROVE  IInv'
<1>0. GatesTypeOK /\ Remembers
  BY DEF IInv, Remembers
<1>1. CASE ReadPositions
  <2>1. /\ pc' = "account" /\ UNCHANGED <<market, position, rows, mem, left, said>>
        /\ read' = [NothingRead EXCEPT !.session = session, !.external = external]
    BY <1>1 DEF ReadPositions
  <2>2. read' \in Readings
    <3>1. NothingRead \in Readings
      BY DEF NothingRead, Readings, Sessions
    <3>2. QED
      BY <1>0, <2>1, <3>1 DEF GatesTypeOK, Readings
  <2>3. GatesTypeOK'
    BY <1>0, <2>1, <2>2 DEF GatesTypeOK, Steps, market, rows
  <2>4. Remembers'
    BY <1>0, <2>1 DEF Remembers, BaselineIsKnown, AnnouncedIsSaved, SavedIsRemembered,
       AlertIsFired, FiredIsSeen, OneBaseline, rows
  <2>5. QED
    BY <2>3, <2>4 DEF IInv, Remembers
<1>2. CASE ReadAccount
  <2>1. /\ pc' = "baseline" /\ UNCHANGED <<market, position, rows, mem, left, said>>
        /\ read' = [read EXCEPT !.equity = own + external, !.own = own, !.global = global]
    BY <1>2 DEF ReadAccount
  <2>2. own + external \in Int
    BY <1>0 DEF GatesTypeOK
  <2>3. read' \in Readings
    BY <1>0, <2>1, <2>2 DEF GatesTypeOK, Readings
  <2>4. GatesTypeOK'
    BY <1>0, <2>1, <2>3 DEF GatesTypeOK, Steps, market, rows
  <2>5. Remembers'
    BY <1>0, <2>1 DEF Remembers, BaselineIsKnown, AnnouncedIsSaved, SavedIsRemembered,
       AlertIsFired, FiredIsSeen, OneBaseline, rows
  <2>6. QED
    BY <2>4, <2>5 DEF IInv, Remembers
<1>3. QED
  BY <1>1, <1>2

LEMMA KnowBaselineStep ==
    ASSUME IInv, KnowBaseline
    PROVE  IInv'
<1>0. GatesTypeOK /\ Remembers
  BY DEF IInv, Remembers
<1>1. /\ pc' = "loss" /\ UNCHANGED <<market, position, rows, read, left, said>>
      /\ mem' = IF mem.baseline # None THEN mem ELSE Restored
      /\ mem.baseline # None \/ equityRow.baseline # None
  BY DEF KnowBaseline, Restorable
<1>2. Restored \in Memories /\ Restored.baseline = equityRow.baseline
      /\ Restored.fired = (mem.fired \/ equityRow.disabled) /\ Restored.alerted = mem.alerted
  BY <1>0 DEF Restored, GatesTypeOK, Memories, EquityRows
<1>3. GatesTypeOK'
  BY <1>0, <1>1, <1>2 DEF GatesTypeOK, Steps, market, rows
<1>4. Remembers'
  BY <1>0, <1>1, <1>2 DEF Remembers, BaselineIsKnown, AnnouncedIsSaved, SavedIsRemembered,
     AlertIsFired, FiredIsSeen, OneBaseline, rows
<1>5. QED
  BY <1>3, <1>4 DEF IInv, Remembers

\* A failing cycle forgets what it has read; with the process it forgets all.
LEMMA FailureStep ==
    ASSUME IInv, NEW remembered \in Memories, CycleFails(remembered),
           UNCHANGED <<market, position, said>>,
           remembered = mem \/ (/\ equityRow.baseline = None
                                /\ remembered.fired = mem.fired
                                /\ remembered.alerted = mem.alerted)
    PROVE  IInv'
<1> USE SessionGatesAssumption
<1>0. GatesTypeOK /\ Remembers
  BY DEF IInv, Remembers
<1>1. read' = NothingRead /\ UNCHANGED rows
  BY DEF CycleFails
<1>2. \/ pc' = "down" /\ mem' = Forgotten
      \/ pc' = "idle" /\ mem' = [remembered EXCEPT !.failures = @ + 1]
  BY DEF CycleFails
<1>3. Forgotten \in Memories /\ NothingRead \in Readings
  BY DEF Forgotten, NothingRead, Memories, Readings, Amounts, Sessions
<1>4. GatesTypeOK'
  <2>1. remembered.failures + 1 \in Int
    BY DEF Memories
  <2>2. mem' \in Memories
    BY <1>2, <1>3, <2>1 DEF Memories
  <2>3. QED
    BY <1>0, <1>1, <1>2, <1>3, <2>2 DEF GatesTypeOK, Steps, market, rows
<1>5. CASE pc' = "down" /\ mem' = Forgotten
  <2>1. Remembers'
    BY <1>0, <1>1, <1>5 DEF Remembers, BaselineIsKnown, AnnouncedIsSaved, SavedIsRemembered,
       AlertIsFired, FiredIsSeen, OneBaseline, Forgotten, rows
  <2>2. QED
    BY <1>4, <2>1 DEF IInv, Remembers
<1>6. CASE pc' = "idle" /\ mem' = [remembered EXCEPT !.failures = @ + 1]
  <2>1. /\ mem'.baseline = remembered.baseline /\ mem'.fired = remembered.fired
        /\ mem'.alerted = remembered.alerted /\ mem'.gate = remembered.gate
    BY <1>6 DEF Memories
  <2>2. Remembers'
    BY <1>0, <1>1, <1>6, <2>1 DEF Remembers, BaselineIsKnown, AnnouncedIsSaved,
       SavedIsRemembered, AlertIsFired, FiredIsSeen, OneBaseline, rows
  <2>3. QED
    BY <1>4, <2>2 DEF IInv, Remembers
<1>7. QED
  BY <1>2, <1>5, <1>6

LEMMA TakeBaselineStep ==
    ASSUME IInv, TakeBaseline
    PROVE  IInv'
<1>0. GatesTypeOK /\ Remembers
  BY DEF IInv, Remembers
<1> DEFINE taken == [mem EXCEPT !.baseline = read.equity, !.external = read.external]
<1>1. /\ UNCHANGED <<market, position, said>> /\ mem.baseline = None /\ equityRow.baseline = None
      /\ \/ /\ pc' = "loss" /\ mem' = taken
            /\ equityRow' = [baseline |-> read.equity, external |-> read.external,
                             disabled |-> FALSE]
            /\ UNCHANGED <<status, global, strategyRow, audit, read, left>>
         \/ CycleFails(taken)
  BY DEF TakeBaseline, Restorable
<1>2. /\ taken \in Memories /\ taken.baseline = read.equity /\ taken.fired = mem.fired
      /\ taken.alerted = mem.alerted /\ read.equity \in Int /\ read.external \in Int
  BY <1>0 DEF GatesTypeOK, Memories, Readings, Amounts
<1> HIDE DEF taken
<1>3. CASE CycleFails(taken)
  BY <1>1, <1>2, <1>3, FailureStep
<1>4. ASSUME pc' = "loss", mem' = taken,
             equityRow' = [baseline |-> read.equity, external |-> read.external, disabled |-> FALSE],
             UNCHANGED <<status, global, strategyRow, audit, read, left>>
      PROVE  IInv'
  <2>1. equityRow' \in EquityRows /\ equityRow'.baseline = read.equity /\ ~equityRow'.disabled
    BY <1>2, <1>4 DEF EquityRows, Amounts
  <2>2. ~equityRow.disabled /\ ~said.loss /\ ~said.gate
    BY <1>0, <1>1 DEF Remembers, AnnouncedIsSaved
  <2>3. GatesTypeOK'
    BY <1>0, <1>1, <1>2, <1>4, <2>1 DEF GatesTypeOK, Steps, market
  <2>4. Remembers'
    BY <1>0, <1>1, <1>2, <1>4, <2>1, <2>2, SessionGatesAssumption DEF Remembers, BaselineIsKnown,
       AnnouncedIsSaved, SavedIsRemembered, AlertIsFired, FiredIsSeen, OneBaseline
  <2>5. QED
    BY <2>3, <2>4 DEF IInv, Remembers
<1>5. QED
  BY <1>1, <1>3, <1>4

-----------------------------------------------------------------------------
\* The loss is judged, saved once, and the losing trades counted.
LEMMA CheckLossStep ==
    ASSUME IInv, CheckLoss
    PROVE  IInv'
<1>0. GatesTypeOK /\ Remembers
  BY DEF IInv, Remembers
<1> DEFINE below == Adjusted < -Limit
           breached == Breached
<1>1. /\ breached \in BOOLEAN /\ below \in BOOLEAN
      /\ breached => below \/ mem.fired
      /\ ~Extended(read.session) => (breached <=> below \/ mem.fired)
  <2>1. mem.baseline \in Int /\ mem.external \in Int \cup {None} /\ mem.fired \in BOOLEAN
        /\ read.equity \in Int /\ read.external \in Int /\ Limit \in Int
    BY <1>0, SessionGatesAssumption DEF CheckLoss, Remembers, BaselineIsKnown, GatesTypeOK,
       Memories, Amounts, Readings
  <2>2. Adjusted \in Int
    BY <2>1 DEF Adjusted
  <2>3. below \in BOOLEAN
    BY <2>1, <2>2
  <2>4. breached = IF Extended(read.session) THEN below ELSE below \/ mem.fired
    BY DEF Breached
  <2> HIDE DEF below, breached
  <2>5. QED
    BY <2>1, <2>3, <2>4
<1>2. /\ pc = "loss" /\ pc' \in {"alert", "gate"} /\ (pc' = "alert" => breached)
      /\ read' = [read EXCEPT !.breached = breached]
      /\ mem' = [mem EXCEPT !.fired = @ \/ below, !.alerted = @ \/ breached]
      /\ said' = [said EXCEPT !.breach = @ \/ (below /\ ~Extended(read.session)),
                              !.shorts = @ \/ (below /\ read.own >= -Limit)]
      /\ UNCHANGED <<market, position, rows, left>>
  BY DEF CheckLoss
<1> HIDE DEF below, breached
<1>3. /\ mem' \in Memories /\ mem'.baseline = mem.baseline /\ mem'.gate = mem.gate
      /\ mem'.fired = (mem.fired \/ below) /\ mem'.alerted = (mem.alerted \/ breached)
  BY <1>0, <1>1, <1>2 DEF GatesTypeOK, Memories
<1>4. read' \in Readings /\ read'.breached = breached /\ read'.session = read.session
  BY <1>0, <1>1, <1>2 DEF GatesTypeOK, Readings
<1>5. said' \in Announcements /\ said'.loss = said.loss /\ said'.gate = said.gate
  BY <1>0, <1>1, <1>2 DEF GatesTypeOK, Announcements
<1>6. GatesTypeOK'
  BY <1>0, <1>2, <1>3, <1>4, <1>5 DEF GatesTypeOK, Steps, market, rows
<1>7. Remembers'
  <2>1. BaselineIsKnown' /\ AnnouncedIsSaved' /\ SavedIsRemembered' /\ OneBaseline'
    BY <1>0, <1>2, <1>3, <1>5 DEF Remembers, BaselineIsKnown, AnnouncedIsSaved,
       SavedIsRemembered, OneBaseline, rows
  <2>2. AlertIsFired'
    BY <1>0, <1>1, <1>2, <1>3 DEF Remembers, AlertIsFired
  <2>3. FiredIsSeen'
    BY <1>1, <1>3, <1>4 DEF FiredIsSeen, Extended
  <2>4. QED
    BY <2>1, <2>2, <2>3 DEF Remembers
<1>8. QED
  BY <1>6, <1>7 DEF IInv, Remembers

LEMMA SaveBreachStep ==
    ASSUME IInv, SaveBreach
    PROVE  IInv'
<1>0. GatesTypeOK /\ Remembers
  BY DEF IInv, Remembers
<1>1. CASE CycleFails(mem) /\ UNCHANGED said
  <2>1. mem \in Memories /\ UNCHANGED <<market, position, said>>
    BY <1>0, <1>1 DEF SaveBreach, GatesTypeOK
  <2>2. QED
    BY <1>1, <2>1, FailureStep
<1>2. CASE /\ pc' = "gate" /\ equityRow' = Blocked /\ said' = [said EXCEPT !.loss = TRUE]
           /\ UNCHANGED <<status, global, strategyRow, audit, mem, read, left>>
  <2>1. pc = "alert" /\ UNCHANGED <<market, position>>
    BY DEF SaveBreach
  <2>2. equityRow' \in EquityRows /\ equityRow'.baseline = mem.baseline /\ equityRow'.disabled
    BY <1>0, <1>2 DEF Blocked, GatesTypeOK, EquityRows, Memories
  <2>3. said' \in Announcements
    BY <1>0, <1>2 DEF GatesTypeOK, Announcements
  <2>4. GatesTypeOK'
    BY <1>0, <1>2, <2>1, <2>2, <2>3 DEF GatesTypeOK, Steps, market
  <2>5. Remembers'
    BY <1>0, <1>2, <2>1, <2>2 DEF Remembers, BaselineIsKnown, AnnouncedIsSaved,
       SavedIsRemembered, AlertIsFired, FiredIsSeen, OneBaseline
  <2>6. QED
    BY <2>4, <2>5 DEF IInv, Remembers
<1>3. QED
  BY <1>1, <1>2 DEF SaveBreach

LEMMA CheckLossesStep ==
    ASSUME IInv, CheckLosses
    PROVE  IInv'
<1>0. GatesTypeOK /\ Remembers
  BY DEF IInv, Remembers
<1>1. /\ pc = "gate" /\ pc' = "status"
      /\ UNCHANGED <<market, position, status, global, strategyRow, audit, read>>
      /\ FireGate \/ UNCHANGED <<mem, equityRow, left, said>>
  BY DEF CheckLosses
<1>2. CASE UNCHANGED <<mem, equityRow, left, said>>
  <2>1. GatesTypeOK'
    BY <1>0, <1>1, <1>2 DEF GatesTypeOK, Steps, market
  <2>2. Remembers'
    BY <1>0, <1>1, <1>2 DEF Remembers, BaselineIsKnown, AnnouncedIsSaved,
       SavedIsRemembered, AlertIsFired, FiredIsSeen, OneBaseline
  <2>3. QED
    BY <2>1, <2>2 DEF IInv, Remembers
<1>3. CASE FireGate
  <2>1. /\ mem' = [mem EXCEPT !.gate = TRUE]
        /\ \/ /\ equityRow' = Blocked
              /\ said' = [said EXCEPT !.gate = TRUE, !.resumed = FALSE]
           \/ UNCHANGED <<equityRow, said>>
    BY <1>3 DEF FireGate
  <2>2. /\ mem' \in Memories /\ mem'.gate /\ mem'.baseline = mem.baseline
        /\ mem'.fired = mem.fired /\ mem'.alerted = mem.alerted
    BY <1>0, <2>1 DEF GatesTypeOK, Memories
  <2>3. Blocked \in EquityRows /\ Blocked.baseline = mem.baseline /\ Blocked.disabled
    BY <1>0 DEF Blocked, GatesTypeOK, EquityRows, Memories
  <2>4. said' \in Announcements /\ equityRow' \in EquityRows
    BY <1>0, <2>1, <2>3 DEF GatesTypeOK, Announcements
  <2>5. GatesTypeOK'
    BY <1>0, <1>1, <2>2, <2>4 DEF GatesTypeOK, Steps, market
  <2>6. Remembers'
    BY <1>0, <1>1, <2>1, <2>2, <2>3 DEF Remembers, BaselineIsKnown, AnnouncedIsSaved,
       SavedIsRemembered, AlertIsFired, FiredIsSeen, OneBaseline
  <2>7. QED
    BY <2>5, <2>6 DEF IInv, Remembers
<1>4. QED
  BY <1>1, <1>2, <1>3

\* The decision reads once more and ends the cycle.
LEMMA DecisionStep ==
    ASSUME IInv, LoadStatus \/ Enter \/ Flatten \/ NothingToDo
    PROVE  IInv'
<1>0. GatesTypeOK /\ Remembers
  BY DEF IInv, Remembers
<1>1. CASE LoadStatus
  <2>1. /\ pc = "status" /\ pc' = "decide" /\ UNCHANGED <<market, position, rows, mem, left, said>>
        /\ \E new \in {"enabled", "close_only", "halted"} : read' = [read EXCEPT !.status = new]
    BY <1>0, <1>1 DEF LoadStatus, GatesTypeOK
  <2>2. read' \in Readings /\ read'.session = read.session /\ read'.breached = read.breached
    BY <1>0, <2>1 DEF GatesTypeOK, Readings
  <2>3. GatesTypeOK'
    BY <1>0, <2>1, <2>2 DEF GatesTypeOK, Steps, market, rows
  <2>4. Remembers'
    BY <1>0, <2>1, <2>2 DEF Remembers, BaselineIsKnown, AnnouncedIsSaved,
       SavedIsRemembered, AlertIsFired, FiredIsSeen, OneBaseline, rows
  <2>5. QED
    BY <2>3, <2>4 DEF IInv, Remembers
<1>2. CASE Enter \/ Flatten \/ NothingToDo
  <2>1. /\ pc' = "idle" /\ read' = NothingRead /\ mem' = [mem EXCEPT !.failures = 0]
        /\ UNCHANGED <<market, status, global, equityRow, audit>>
    BY <1>2 DEF Enter, Flatten, NothingToDo, CycleEnds, rows
  <2>2. /\ mem' \in Memories /\ mem'.baseline = mem.baseline /\ mem'.fired = mem.fired
        /\ mem'.alerted = mem.alerted /\ mem'.gate = mem.gate
    BY <1>0, <2>1 DEF GatesTypeOK, Memories
  <2>3. read' \in Readings
    BY <2>1 DEF NothingRead, Readings, Sessions
  <2>4. position' \in BOOLEAN /\ strategyRow' \in BOOLEAN
    BY <1>0, <1>2 DEF Enter, Flatten, NothingToDo, rows, GatesTypeOK
  <2>5. said' \in Announcements /\ said'.loss = said.loss /\ said'.gate = said.gate
    <3>1. CASE UNCHANGED said
      BY <1>0, <3>1 DEF GatesTypeOK
    <3>2. CASE said' = [said EXCEPT !.flattened = @ \/ (read.breached /\ read.session = "regular")]
      BY <1>0, <3>2 DEF GatesTypeOK, Announcements
    <3>3. QED
      BY <1>2, <3>1, <3>2 DEF Enter, Flatten, NothingToDo
  <2>6. GatesTypeOK'
    BY <1>0, <2>1, <2>2, <2>3, <2>4, <2>5 DEF GatesTypeOK, Steps, market
  <2>7. Remembers'
    BY <1>0, <2>1, <2>2, <2>5 DEF Remembers, BaselineIsKnown, AnnouncedIsSaved,
       SavedIsRemembered, AlertIsFired, FiredIsSeen, OneBaseline
  <2>8. QED
    BY <2>6, <2>7 DEF IInv, Remembers
<1>3. QED
  BY <1>1, <1>2

LEMMA StepInv == IInv /\ [Next]_vars => IInv'
<1> SUFFICES ASSUME IInv, [Next]_vars PROVE IInv'
  OBVIOUS
<1>1. CASE Cycle
  BY <1>1, ReadingStep, KnowBaselineStep, TakeBaselineStep, CheckLossStep, SaveBreachStep,
     CheckLossesStep, DecisionStep DEF Cycle
<1>2. CASE Start \/ Crash
  BY <1>2, ProcessStep
<1>3. CASE Operator
  BY <1>3, OperatorStep
<1>4. CASE AuditChanges \/ Moves \/ TradeEnds \/ DayGoesOn
  BY <1>4, MarketStep
<1>5. CASE UNCHANGED vars
  BY <1>5 DEF vars, market, rows, IInv, GatesTypeOK, BaselineIsKnown, AnnouncedIsSaved,
     SavedIsRemembered, AlertIsFired, FiredIsSeen, OneBaseline
<1>6. QED
  BY <1>1, <1>2, <1>3, <1>4, <1>5 DEF Next

-----------------------------------------------------------------------------
\* Whatever the market does and whenever the process starts or a save is lost,
\* the equity that run_cycle_once measures the day's loss from is the saved one.
THEOREM DayHasOneBaseline == Spec => []OneBaseline
<1>1. IInv => OneBaseline
  BY DEF IInv
<1>2. QED
  BY InitInv, StepInv, <1>1, PTL DEF Spec

\* Only the entry of a cycle opens a position.
LEMMA OnlyEnterEnters ==
    ASSUME IInv, [Next]_vars, Enters
    PROVE  Enter
<1>1. ~position /\ position'
  BY DEF Enters
<1>2. ~(UNCHANGED position)
  BY <1>1
<1>3. ~Flatten
  BY <1>1 DEF Flatten
<1>4. ~TradeEnds
  BY <1>1 DEF TradeEnds
<1>5. QED
  BY <1>2, <1>3, <1>4 DEF Next, Cycle, Start, Operator, CommandLine, Dashboard, vars,
     ReadPositions, ReadAccount, KnowBaseline, TakeBaseline, CheckLoss, SaveBreach, CheckLosses,
     LoadStatus, NothingToDo, LoadStatusAtStart, WriteGlobalRow, Crash, Command, ToggleEntries,
     AuditChanges, Moves, DayGoesOn

LEMMA EntryIsOpen ==
    ASSUME IInv, Enter
    PROVE  EntersUnblocked /\ EntersAudited
<1>1. pc = "decide" /\ EntriesOpen
  BY DEF Enter, CycleEnds
<1>2. ~read.breached /\ ~mem.gate /\ Audited
  BY <1>1 DEF EntriesOpen
<1>3. CASE ~Extended(read.session)
  <2>1. ~mem.fired
    BY <1>1, <1>2, <1>3 DEF IInv, FiredIsSeen
  <2>2. ~equityRow.disabled
    BY <1>1, <1>2, <2>1 DEF IInv, BaselineIsKnown, SavedIsRemembered
  <2>3. ~(said.loss \/ said.gate)
    BY <2>2 DEF IInv, AnnouncedIsSaved
  <2>4. QED
    BY <1>2, <2>3 DEF EntersUnblocked, EntersAudited, Audited
<1>4. CASE Extended(read.session)
  BY <1>4 DEF EntersUnblocked, EntersAudited
<1>5. QED
  BY <1>3, <1>4

\* After the loss limit was announced or the loss gate saved the supervisor opens
\* no position in regular hours, whatever restarts, lost saves, commands and
\* markets follow; and none before the readiness audit has passed after a start.
THEOREM NoEntryOnceBlocked == Spec => BlockedForTheDay
<1>1. IInv /\ [Next]_vars => [EntersUnblocked /\ EntersAudited]_vars
  <2> SUFFICES ASSUME IInv, [Next]_vars PROVE EntersUnblocked /\ EntersAudited
    OBVIOUS
  <2>1. CASE Enters
    BY <2>1, OnlyEnterEnters, EntryIsOpen
  <2>2. CASE ~Enters
    BY <2>2 DEF EntersUnblocked, EntersAudited
  <2>3. QED
    BY <2>1, <2>2
<1>2. QED
  BY InitInv, StepInv, <1>1, PTL DEF Spec, BlockedForTheDay

-----------------------------------------------------------------------------
(***************************************************************************)
(* The confidence floor: what a check has loaded is still the row when it  *)
(* stores, as long as no command was begun.                                *)
(***************************************************************************)
FloorRows ==
    [floor : Nat, baseline : Nat, watermark : Nat, by : {"system", "operator", "nobody"}]
Stamps == Nat \cup {Floor!Never}
Loaded == [at : {"idle", "loaded"}, row : FloorRows, raised : Stamps]

FloorTypeOK ==
    /\ equity \in Nat /\ volatility \in {"calm", "band", "high"}
    /\ row \in FloorRows /\ raised \in Stamps
    /\ check \in Loaded /\ command \in Loaded /\ sets \in Nat
    /\ floorSaid \in [manual : Nat, seen : Nat, peak : Nat]
    /\ Floor!Missing(row) => row.watermark = 0

\* Neither the row nor what a check has loaded of it lies above the ceiling.
BelowCap == row.floor <= Cap /\ check.row.floor <= Cap

\* Before the first command the row is the check's alone.
RowIsOwn ==
    sets = MaxSets =>
        /\ command = Floor!Idle
        /\ check # Floor!Idle => check.row = row /\ check.raised = raised
        /\ row.watermark >= floorSaid.peak

FloorInv == FloorTypeOK /\ sets <= MaxSets /\ RowIsOwn

FloorValues ==
    /\ Default \in Nat /\ Step \in Nat /\ Cap \in Nat /\ RaisePct \in Nat
    /\ MaxAge \in Nat /\ MaxSets \in Nat
    /\ ManualFloors \in SUBSET Nat /\ Equities \in SUBSET Nat

LEMMA FloorAssumed == Floor!ConfidenceFloorAssumption => FloorValues
  BY DEF Floor!ConfidenceFloorAssumption, FloorValues

LEMMA IdleType ==
    /\ Floor!Idle \in Loaded /\ Floor!Idle.at = "idle" /\ Floor!Idle.row.floor = 0
    /\ Floor!Never \in Stamps
  BY DEF Floor!Idle, Floor!Never, Loaded, FloorRows, Stamps

LEMMA FloorStarts ==
    ASSUME FloorValues, Floor!Init
    PROVE  FloorInv
<1>1. row \in FloorRows /\ row.watermark \in Nat /\ (Floor!Missing(row) => row.watermark = 0)
  BY DEF Floor!Init, Floor!NoRow, Floor!FirstRow, Floor!Missing, FloorValues, FloorRows
<1>2. floorSaid = [manual |-> Default, seen |-> row.watermark, peak |-> row.watermark]
  BY DEF Floor!Init
<1>3. FloorTypeOK
  BY <1>1, <1>2, IdleType DEF Floor!Init, FloorValues, FloorTypeOK
<1>4. RowIsOwn
  BY <1>1, <1>2 DEF Floor!Init, FloorValues, RowIsOwn
<1> QED
  BY <1>3, <1>4 DEF Floor!Init, FloorValues, FloorInv

(* What a check takes for its row: the watermark alone may be another one.  *)
LEMMA TakenSays ==
    ASSUME FloorTypeOK
    PROVE  /\ Floor!WithTaken(check) \in Loaded
           /\ Floor!WithTaken(check).raised = check.raised
           /\ Floor!WithTaken(check).row.floor = check.row.floor
           /\ Floor!WithTaken(check).row.baseline = check.row.baseline
           /\ Floor!WithTaken(check).row.watermark =
                IF Floor!Missing(check.row) THEN equity ELSE check.row.watermark
<1>1. check \in Loaded /\ check.row \in FloorRows /\ equity \in Nat
  BY DEF FloorTypeOK, Loaded
<1>2. CASE Floor!Missing(check.row)
  <2>1. PICK r : r = [check.row EXCEPT !.watermark = equity]
    OBVIOUS
  <2>2. /\ r \in FloorRows /\ r.watermark = equity
        /\ r.floor = check.row.floor /\ r.baseline = check.row.baseline
    BY <1>1, <2>1 DEF FloorRows
  <2>3. Floor!WithTaken(check) = [check EXCEPT !.row = r]
    BY <1>2, <2>1 DEF Floor!WithTaken
  <2> QED
    BY <1>1, <1>2, <2>2, <2>3 DEF Loaded
<1>3. CASE ~ Floor!Missing(check.row)
  BY <1>1, <1>3 DEF Floor!WithTaken
<1> QED
  BY <1>2, <1>3

(* What a check stores.                                                     *)
LEMMA StoreSays ==
    ASSUME FloorValues, FloorTypeOK, Floor!Store, NEW c, c = Floor!WithTaken(check)
    PROVE  /\ \/ /\ row' = row /\ raised' = raised
                 /\ Floor!Watermark(c.row) = c.row.watermark
              \/ /\ row'.watermark = Floor!Watermark(c.row)
                 /\ row'.baseline = c.row.baseline /\ row'.by = "system"
                 /\ row'.floor = IF Floor!Clears(c) THEN Floor!Cleared(c.row)
                                 ELSE Floor!RaisedFloor(c.row)
           /\ row' \in FloorRows /\ raised' \in Stamps
           /\ Floor!Watermark(c.row) \in Nat
<1>1. c \in Loaded /\ c.row \in FloorRows /\ c.raised \in Stamps
  BY TakenSays DEF Loaded
<1>2. Floor!RaisedFloor(c.row) \in Nat /\ Floor!Cleared(c.row) \in Nat
  BY <1>1 DEF FloorValues, FloorRows, Floor!RaisedFloor, Floor!Lower, Floor!Cleared
<1>3. Floor!Watermark(c.row) \in Nat
  BY <1>1 DEF FloorTypeOK, FloorRows, Floor!Watermark, Floor!Higher
<1>4. Floor!Restamped(c) \in Stamps
  BY <1>1 DEF Floor!Restamped, Stamps
<1>5. c.row.baseline \in Nat
  BY <1>1 DEF FloorRows
<1> DEFINE floor == IF Floor!Clears(c) THEN Floor!Cleared(c.row) ELSE Floor!RaisedFloor(c.row)
           stamp == IF Floor!Clears(c) THEN Floor!Never ELSE Floor!Restamped(c)
<1>6. floor \in Nat /\ stamp \in Stamps
  BY <1>2, <1>4, IdleType
<1>7. \/ row' = row /\ raised' = raised /\ Floor!Watermark(c.row) = c.row.watermark
      \/ /\ row' = [floor |-> floor, baseline |-> c.row.baseline,
                    watermark |-> Floor!Watermark(c.row), by |-> "system"]
         /\ raised' = stamp
  BY DEF Floor!Store, Floor!Upserted
<1>8. floor = IF Floor!Clears(c) THEN Floor!Cleared(c.row) ELSE Floor!RaisedFloor(c.row)
  OBVIOUS
<1> HIDE DEF floor, stamp
<1>9. row' \in FloorRows /\ raised' \in Stamps
  BY <1>3, <1>5, <1>6, <1>7 DEF FloorTypeOK, FloorRows
<1> QED
  BY <1>3, <1>7, <1>8, <1>9

(* What a check makes of the history.                                       *)
LEMMA StoreSeen ==
    ASSUME FloorTypeOK, Floor!Store
    PROVE  /\ floorSaid' \in [manual : Nat, seen : Nat, peak : Nat]
           /\ floorSaid'.peak = IF Floor!Missing(row') THEN floorSaid.peak
                                ELSE Floor!Higher(floorSaid.peak, equity)
<1>1. floorSaid \in [manual : Nat, seen : Nat, peak : Nat] /\ equity \in Nat
  BY DEF FloorTypeOK
<1>2. PICK x \in Nat, y \in Nat :
        x = Floor!Higher(floorSaid.peak, equity) /\ y = Floor!Higher(floorSaid.seen, equity)
  BY <1>1 DEF Floor!Higher
<1>3. PICK z \in Nat : z = IF row'.by = "nobody" THEN floorSaid.peak ELSE x
  BY <1>1, <1>2
<1>4. floorSaid' = [floorSaid EXCEPT !.seen = y, !.peak = z]
  BY <1>2, <1>3 DEF Floor!Store, Floor!Missing
<1> QED
  BY <1>1, <1>2, <1>3, <1>4 DEF Floor!Missing

LEMMA FloorStays ==
    ASSUME FloorValues, FloorInv, [Floor!Next]_(Floor!vars)
    PROVE  FloorInv'
<1> USE DEF FloorInv
<1>1. CASE Floor!MarketMoves
  <2>1. equity' \in Nat /\ volatility' \in {"calm", "band", "high"}
    BY <1>1 DEF Floor!MarketMoves, FloorValues
  <2> QED
    BY <1>1, <2>1 DEF Floor!MarketMoves, FloorTypeOK, Floor!Missing, RowIsOwn
<1>2. CASE Floor!DayPasses
  <2>1. raised' \in Stamps
    BY <1>2 DEF Floor!DayPasses, FloorTypeOK, Stamps
  <2> QED
    BY <1>2, <2>1 DEF Floor!DayPasses, FloorTypeOK, Floor!Missing, RowIsOwn
<1>3. CASE Floor!Load
  <2>1. check' = [at |-> "loaded", row |-> row, raised |-> raised]
    BY <1>3 DEF Floor!Load
  <2>2. check' \in Loaded /\ check'.row = row /\ check'.raised = raised
    BY <2>1 DEF FloorTypeOK, Loaded
  <2> QED
    BY <1>3, <2>2 DEF Floor!Load, FloorTypeOK, Floor!Missing, RowIsOwn
<1>4. CASE Floor!Store
  <2>1. PICK c : c = Floor!WithTaken(check)
    OBVIOUS
  <2>2. /\ row' \in FloorRows /\ raised' \in Stamps /\ Floor!Watermark(c.row) \in Nat
        /\ \/ row' = row /\ Floor!Watermark(c.row) = c.row.watermark
           \/ row'.watermark = Floor!Watermark(c.row) /\ row'.by = "system"
    BY <1>4, <2>1, StoreSays
  <2>3. /\ floorSaid' \in [manual : Nat, seen : Nat, peak : Nat]
        /\ floorSaid'.peak = IF Floor!Missing(row') THEN floorSaid.peak
                             ELSE Floor!Higher(floorSaid.peak, equity)
    BY <1>4, StoreSeen
  <2>4. /\ check # Floor!Idle /\ check' = Floor!Idle /\ sets' = sets /\ command' = command
        /\ equity' = equity /\ volatility' = volatility
    BY <1>4 DEF Floor!Store
  <2>5. FloorTypeOK'
    BY <2>2, <2>3, <2>4, IdleType DEF FloorTypeOK, Floor!Missing
  <2>6. ASSUME sets = MaxSets PROVE row'.watermark >= floorSaid'.peak
    <3>1. check.row = row /\ row.watermark >= floorSaid.peak
      BY <2>4, <2>6 DEF RowIsOwn
    <3>2. PICK w \in Nat, p \in Nat, e \in Nat :
               w = row.watermark /\ p = floorSaid.peak /\ e = equity
      BY DEF FloorTypeOK, FloorRows
    <3>3. c.row.watermark = IF Floor!Missing(row) THEN e ELSE w
      BY <2>1, <3>1, <3>2, TakenSays
    <3>4. PICK v \in Nat : v = c.row.watermark /\ v = IF Floor!Missing(row) THEN e ELSE w
      BY <3>2, <3>3
    <3>5. Floor!Watermark(c.row) = Floor!Higher(v, e)
      BY <3>2, <3>4 DEF Floor!Watermark
    <3>6. CASE Floor!Missing(row')
      <4>1. row' = row
        BY <2>2, <3>6 DEF Floor!Missing
      <4> QED
        BY <2>3, <3>1, <3>6, <4>1
    <3>7. CASE ~ Floor!Missing(row') /\ row' = row
      <4>1. w = Floor!Higher(w, e) \/ row'.watermark = Floor!Higher(w, e)
        BY <2>2, <3>2, <3>4, <3>5, <3>7 DEF Floor!Missing
      <4>2. w >= Floor!Higher(p, e)
        BY <3>1, <3>2, <3>7, <4>1 DEF Floor!Higher
      <4> QED
        BY <2>3, <3>2, <3>7, <4>2
    <3>8. CASE ~ Floor!Missing(row') /\ row' # row
      <4>1. row'.watermark = Floor!Higher(v, e)
        BY <2>2, <3>5, <3>8
      <4>2. Floor!Missing(row) => w = 0
        BY <3>2 DEF FloorTypeOK
      <4>3. Floor!Higher(v, e) >= Floor!Higher(p, e)
        BY <3>1, <3>2, <3>4, <4>2 DEF Floor!Higher
      <4> QED
        BY <2>3, <3>2, <3>8, <4>1, <4>3
    <3> QED
      BY <3>6, <3>7, <3>8
  <2>7. RowIsOwn'
    BY <2>4, <2>6 DEF RowIsOwn
  <2> QED
    BY <2>4, <2>5, <2>7
<1>5. CASE Floor!CommandLoads
  <2>1. sets > 0 /\ sets' = sets - 1 /\ sets' # MaxSets /\ sets' <= MaxSets /\ sets' \in Nat
    BY <1>5 DEF Floor!CommandLoads, FloorTypeOK, FloorValues
  <2>2. command' \in Loaded
    BY <1>5 DEF Floor!CommandLoads, FloorTypeOK, Loaded
  <2> QED
    BY <1>5, <2>1, <2>2 DEF Floor!CommandLoads, FloorTypeOK, Floor!Missing, RowIsOwn
<1>6. CASE Floor!CommandStores
  <2>1. PICK value \in ManualFloors :
           /\ command # Floor!Idle /\ command' = Floor!Idle
           /\ row' = [floor |-> value, baseline |-> value,
                      watermark |-> command.row.watermark, by |-> "operator"]
           /\ raised' = Floor!Never
           /\ floorSaid' = [floorSaid EXCEPT !.manual = value]
           /\ UNCHANGED <<equity, volatility, check, sets>>
    BY <1>6 DEF Floor!CommandStores, Floor!Upserted
  <2>2. value \in Nat /\ command.row.watermark \in Nat
    BY DEF FloorValues, FloorTypeOK, Loaded, FloorRows
  <2>3. row' \in FloorRows /\ floorSaid' \in [manual : Nat, seen : Nat, peak : Nat]
        /\ ~ Floor!Missing(row')
    BY <2>1, <2>2 DEF FloorTypeOK, FloorRows, Floor!Missing
  <2>4. FloorTypeOK'
    BY <2>1, <2>3, IdleType DEF FloorTypeOK, Floor!Missing
  <2>5. sets # MaxSets
    BY <2>1 DEF RowIsOwn
  <2> QED
    BY <2>1, <2>4, <2>5 DEF RowIsOwn
<1>7. CASE UNCHANGED Floor!vars
  BY <1>7 DEF Floor!vars, FloorTypeOK, Floor!Missing, RowIsOwn
<1> QED
  BY <1>1, <1>2, <1>3, <1>4, <1>5, <1>6, <1>7 DEF Floor!Next

(* Once a row is stored, the drawdown is measured from the highest equity   *)
(* a check has seen since: as long as no command has begun, which may write *)
(* an older watermark back, or zero.                                        *)
THEOREM DrawdownIsFromPeak ==
    ASSUME Floor!ConfidenceFloorAssumption
    PROVE  Floor!Spec => []Floor!WatermarkIsPeak
<1>1. FloorValues
  BY FloorAssumed
<1>2. FloorInv => Floor!WatermarkIsPeak
  BY DEF FloorInv, RowIsOwn, Floor!WatermarkIsPeak
<1>3. Floor!Init => FloorInv
  BY <1>1, FloorStarts
<1>4. FloorInv /\ [Floor!Next]_(Floor!vars) => FloorInv'
  BY <1>1, FloorStays
<1> QED
  BY <1>2, <1>3, <1>4, PTL DEF Floor!Spec

(* A row a step writes is a check's or a command's, and below the ceiling.  *)
LEMMA CapStays ==
    ASSUME FloorValues, FloorInv, BelowCap, \A value \in ManualFloors : value <= Cap,
           [Floor!Next]_(Floor!vars)
    PROVE  BelowCap'
<1> USE DEF BelowCap
<1>1. CASE Floor!Store
  <2>1. PICK c : c = Floor!WithTaken(check)
    OBVIOUS
  <2>2. c.row \in FloorRows /\ c.row.floor = check.row.floor /\ Cap \in Nat /\ Step \in Nat
    BY <2>1, TakenSays DEF FloorInv, Loaded, FloorValues
  <2>3. PICK f \in Nat : f = c.row.floor /\ f <= Cap
    BY <2>2 DEF FloorRows
  <2>4. Floor!RaisedFloor(c.row) <= Cap /\ Floor!RaisedFloor(c.row) \in Nat
    BY <2>2, <2>3 DEF Floor!RaisedFloor, Floor!Lower
  <2>5. Floor!Clears(c) => Floor!Cleared(c.row) <= Cap
    <3>1. PICK b \in Nat, u \in Nat : b = c.row.baseline /\ u = Floor!RaisedFloor(c.row)
      BY <2>2, <2>4 DEF FloorRows
    <3> QED
      BY <2>2, <2>4, <3>1 DEF Floor!Clears, Floor!Cleared
  <2>6. row' = row \/ row'.floor = IF Floor!Clears(c) THEN Floor!Cleared(c.row)
                                   ELSE Floor!RaisedFloor(c.row)
    BY <1>1, <2>1, StoreSays DEF FloorInv
  <2>7. row' = row \/ row'.floor <= Cap
    BY <2>4, <2>5, <2>6
  <2>8. check' = Floor!Idle
    BY <1>1 DEF Floor!Store
  <2> QED
    BY <2>2, <2>7, <2>8, IdleType
<1>2. CASE Floor!Load
  <2>1. check'.row = row /\ row' = row
    BY <1>2 DEF Floor!Load
  <2> QED
    BY <2>1
<1>3. CASE Floor!CommandStores
  BY <1>3 DEF Floor!CommandStores, Floor!Upserted
<1>4. CASE Floor!MarketMoves \/ Floor!DayPasses \/ Floor!CommandLoads \/ UNCHANGED Floor!vars
  BY <1>4 DEF Floor!MarketMoves, Floor!DayPasses, Floor!CommandLoads, Floor!vars
<1> QED
  BY <1>1, <1>2, <1>3, <1>4 DEF Floor!Next

(* A check that lowers the floor has seen a calm market, or a raise that    *)
(* has outlived its age without a fresh trigger, and lowers to the baseline.*)
LEMMA StoreLowers ==
    ASSUME FloorValues, FloorInv, BelowCap, [Floor!Next]_(Floor!vars)
    PROVE  Floor!LowersWithReason
<1>1. PICK c : c = Floor!WithTaken(check)
  OBVIOUS
<1>2. PICK r : r = c.row
  OBVIOUS
<1> SUFFICES ASSUME check # Floor!Idle, check' = Floor!Idle, row' # row,
                    row'.floor < check.row.floor
             PROVE  /\ row'.floor = row'.baseline
                    /\ \/ ~ Floor!DrawdownKeeps(r) /\ volatility = "calm"
                       \/ ~ Floor!Raises(r) /\ check.raised > MaxAge
  BY <1>1, <1>2 DEF Floor!LowersWithReason
<1>3. Floor!Store
  BY DEF Floor!Next, Floor!MarketMoves, Floor!DayPasses, Floor!Load, Floor!CommandLoads,
         Floor!CommandStores, Floor!vars
<1>4. /\ r \in FloorRows /\ r.floor = check.row.floor
      /\ c.raised = check.raised /\ c.raised \in Stamps
  BY <1>1, <1>2, TakenSays DEF FloorInv, Loaded
<1>5. Cap \in Nat /\ Step \in Nat /\ MaxAge \in Nat
  BY DEF FloorValues
<1>6. PICK f \in Nat, b \in Nat : f = r.floor /\ b = r.baseline /\ f <= Cap
  BY <1>4 DEF FloorRows, BelowCap
<1>7. row'.baseline = r.baseline
      /\ row'.floor = IF Floor!Clears(c) THEN Floor!Cleared(r) ELSE Floor!RaisedFloor(r)
  BY <1>1, <1>2, <1>3, StoreSays DEF FloorInv
<1>8. Floor!Clears(c)
  <2>1. ASSUME ~ Floor!Clears(c) PROVE FALSE
    <3>1. row'.floor = Floor!RaisedFloor(r)
      BY <1>7, <2>1
    <3>2. Floor!RaisedFloor(r) >= f
      BY <1>5, <1>6 DEF Floor!RaisedFloor, Floor!Lower
    <3>3. Floor!RaisedFloor(r) \in Nat
      BY <1>5, <1>6 DEF Floor!RaisedFloor, Floor!Lower
    <3> QED
      BY <1>4, <1>6, <3>1, <3>2, <3>3
  <2> QED
    BY <2>1
<1>9. row'.floor = row'.baseline
  BY <1>7, <1>8 DEF Floor!Cleared
<1>10. Floor!RaisedFloor(r) > r.baseline
       /\ (~ Floor!Keeps(r) \/ (~ Floor!Raises(r) /\ Floor!Restamped(c) > MaxAge))
  BY <1>2, <1>8 DEF Floor!Clears
<1>11. CASE ~ Floor!Keeps(r)
  <2>1. ~ Floor!Raises(r) /\ ~ Floor!DrawdownKeeps(r)
        /\ ~ (Floor!IsRaised(r) /\ volatility # "calm")
    BY <1>11 DEF Floor!Keeps
  <2>2. Floor!IsRaised(r)
    BY <1>10, <2>1 DEF Floor!RaisedFloor, Floor!IsRaised
  <2> QED
    BY <1>9, <2>1, <2>2
<1>12. CASE ~ Floor!Raises(r) /\ Floor!Restamped(c) > MaxAge
  <2>1. check.raised > MaxAge
    BY <1>2, <1>4, <1>5, <1>12 DEF Floor!Restamped
  <2> QED
    BY <1>9, <1>12, <2>1
<1> QED
  BY <1>10, <1>11, <1>12

(* The floor never flaps: a step that lowers it has one of those reasons.   *)
(* No manual floor lies above the ceiling: a raise would lower that one.    *)
THEOREM FloorFallsWithReason ==
    ASSUME Floor!ConfidenceFloorAssumption,
           Default <= Cap, \A value \in ManualFloors : value <= Cap
    PROVE  Floor!Spec => [][Floor!LowersWithReason]_(Floor!vars)
<1>1. FloorValues
  BY FloorAssumed
<1>2. Floor!Init => FloorInv /\ BelowCap
  <2> SUFFICES ASSUME Floor!Init PROVE FloorInv /\ BelowCap
    OBVIOUS
  <2>1. FloorInv
    BY <1>1, FloorStarts
  <2>2. row.floor = Default /\ check.row.floor = 0
    BY IdleType DEF Floor!Init, Floor!NoRow, Floor!FirstRow
  <2> QED
    BY <1>1, <2>1, <2>2 DEF BelowCap, FloorValues
<1>3. FloorInv /\ BelowCap /\ [Floor!Next]_(Floor!vars) => (FloorInv /\ BelowCap)'
  BY <1>1, FloorStays, CapStays
<1>4. FloorInv /\ BelowCap /\ [Floor!Next]_(Floor!vars) => [Floor!LowersWithReason]_(Floor!vars)
  BY <1>1, StoreLowers
<1> QED
  BY <1>2, <1>3, <1>4, PTL DEF Floor!Spec
=============================================================================
