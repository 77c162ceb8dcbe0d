--------------------------- MODULE TelemetryHourly ---------------------------
(***************************************************************************)
(* The hourly aggregates of telemetry.service.ts.  Requests rebuild the    *)
(* aggregates of a window of hours from the raw events, replacing its rows *)
(* in one locked transaction, and then report on them; the admin page asks *)
(* for several reports at once.  Time is in half hours, so that a cutoff   *)
(* can fall inside an hour, and a row of the table is the multiset of the  *)
(* events it counts.                                                       *)
(***************************************************************************)
EXTENDS Integers, FiniteSets

CONSTANTS
  Events,         \* telemetry events devices may send
  Reports,        \* requests handled at once
  Hours,          \* windows that are asked for
  DefaultHours,   \* 72: the least a report rebuilds
  LongestHours,   \* 24 * 30
  LastHalfHour    \* bound: how long the model runs

ASSUME TelemetryAssumption ==
  /\ Hours \subseteq Int
  /\ DefaultHours \in Nat \ {0} /\ LongestHours \in Nat \ {0}
  /\ LastHalfHour \in Nat

VARIABLES
  clock,      \* the time, in half hours
  observed,   \* raw events: when each was observed, or NotSent
  copies,     \* hourly rows: how often each event is counted
  report,     \* what each request is doing
  due         \* history: events a rebuild that nothing overlapped has read

telemetryVars == <<clock, observed, copies, report, due>>

NotSent == -1
Times == 0 .. LastHalfHour
RawEvents == [Events -> Times \cup {NotSent}]
HourlyRows == [Events -> 0 .. 2]
ReportState == [pc : {"reading", "writing", "totals"},
                kind : {"aggregate", "report"}, hours : Hours, cutoff : Int, read : SUBSET Events,
                stale : BOOLEAN, recorded : SUBSET Events]
NoReport == [pc |-> "idle"]
Answer == [pc : {"answered"}, cutoff : Int, recorded : SUBSET Events,
           counts : HourlyRows, stale : BOOLEAN]

TelemetryTypeOK ==
  /\ clock \in Times
  /\ observed \in RawEvents
  /\ copies \in HourlyRows
  /\ report \in [Reports -> ReportState \cup {NoReport} \cup Answer]
  /\ due \subseteq Events

TelemetryInit ==
  /\ clock = 0
  /\ observed = [e \in Events |-> NotSent]
  /\ copies = [e \in Events |-> 0]
  /\ report = [r \in Reports |-> NoReport]
  /\ due = {}
-----------------------------------------------------------------------------
HourOf(t) == (t \div 2) * 2

(* A faulty variant of HourCutoff, for mutation of the runs.               *)
CutoffInsideHour(hours) == clock - 2 * hours

Least(a, b) == IF a < b THEN a ELSE b
Most(a, b) == IF a < b THEN b ELSE a

BoundHours(hours) == Least(Most(hours, 1), LongestHours)
HourCutoff(hours) == HourOf(clock - 2 * hours)
RefreshHours(hours, kind) ==
  IF kind = "aggregate" THEN BoundHours(hours)
  ELSE Most(BoundHours(hours), DefaultHours)

Sent(e) == observed[e] # NotSent
Recorded == {e \in Events : Sent(e)}

(* record: the device says when it observed the event, or it is now.       *)
Record(e, t) ==
  /\ ~Sent(e)
  /\ t <= clock
  /\ observed' = [observed EXCEPT ![e] = t]
  /\ UNCHANGED <<clock, copies, report, due>>

(* aggregate rebuilds a window; overview, matrix and decisions rebuild at  *)
(* least the default one, unless they are asked not to.                    *)
StartRefresh(r, hours, kind) ==
  /\ report[r] = NoReport
  /\ report' = [report EXCEPT ![r] =
       [pc |-> "reading", kind |-> kind, hours |-> hours,
        cutoff |-> HourCutoff(RefreshHours(hours, kind)), read |-> {},
        stale |-> FALSE, recorded |-> Recorded]]
  /\ UNCHANGED <<clock, observed, copies, due>>

StartStored(r, hours) ==
  /\ report[r] = NoReport
  /\ report' = [report EXCEPT ![r] =
       [pc |-> "totals", kind |-> "report", hours |-> hours, cutoff |-> 0, read |-> {},
        stale |-> TRUE, recorded |-> {}]]
  /\ UNCHANGED <<clock, observed, copies, due>>

(* The aggregating query, which runs before the lock is taken.             *)
ReadEvents(r) ==
  /\ report[r].pc = "reading"
  /\ report' = [report EXCEPT ![r] = [report[r] EXCEPT
       !.pc = "writing",
       !.read = {e \in Recorded : observed[e] >= report[r].cutoff}]]
  /\ UNCHANGED <<clock, observed, copies, due>>

(* The transaction under the advisory lock: the window's rows are deleted  *)
(* and those read before are inserted.  Other requests that have read but  *)
(* not written will put older counts back; those that wait to report will  *)
(* not report their own.                                                   *)
WriteHourly(r) ==
  LET this == report[r] IN
  /\ this.pc = "writing"
  /\ copies' = [e \in Events |->
       (IF Sent(e) /\ HourOf(observed[e]) >= this.cutoff THEN 0 ELSE copies[e])
         + (IF e \in this.read THEN 1 ELSE 0)]
  /\ due' = IF this.stale
            THEN {e \in due : observed[e] < this.cutoff} \cup this.read
            ELSE due \cup this.read
  /\ report' = [o \in Reports |->
       IF o = r THEN IF this.kind = "aggregate" THEN NoReport
                     ELSE [this EXCEPT !.pc = "totals"]
       ELSE IF report[o].pc \in {"writing", "totals"}
       THEN [report[o] EXCEPT !.stale = TRUE] ELSE report[o]]
  /\ UNCHANGED <<clock, observed>>

(* The totals of the report's own window, whose cutoff is taken now.       *)
ReadTotals(r) ==
  LET cutoff == HourCutoff(BoundHours(report[r].hours)) IN
  /\ report[r].pc = "totals"
  /\ report' = [report EXCEPT ![r] =
       [pc |-> "answered", cutoff |-> cutoff, recorded |-> report[r].recorded,
        stale |-> report[r].stale,
        counts |-> [e \in Events |->
          IF Sent(e) /\ HourOf(observed[e]) >= cutoff THEN copies[e] ELSE 0]]]
  /\ UNCHANGED <<clock, observed, copies, due>>

Answered(r) ==
  /\ report[r].pc = "answered"
  /\ report' = [report EXCEPT ![r] = NoReport]
  /\ UNCHANGED <<clock, observed, copies, due>>

Tick ==
  /\ clock < LastHalfHour
  /\ clock' = clock + 1
  /\ UNCHANGED <<observed, copies, report, due>>

TelemetryNext ==
  \/ \E e \in Events, t \in Times : Record(e, t)
  \/ \E r \in Reports :
       \/ \E hours \in Hours :
            \/ \E kind \in {"aggregate", "report"} : StartRefresh(r, hours, kind)
            \/ StartStored(r, hours)
       \/ ReadEvents(r) \/ WriteHourly(r) \/ ReadTotals(r) \/ Answered(r)
  \/ Tick

TelemetrySpec == TelemetryInit /\ [][TelemetryNext]_telemetryVars
-----------------------------------------------------------------------------
(* No report counts an event twice, however rebuilds of different windows  *)
(* overlap and hours pass between their steps; and an event that a rebuild *)
(* read with nothing overlapping it stays counted, once, so that a report  *)
(* counts every event recorded before it was asked for                     *)
(* (refreshHourlyAggregates, overview).                                    *)
HourlyCountsOnce ==
  /\ \A e \in Events : copies[e] <= 1 /\ (e \in due => copies[e] = 1)
  /\ \A r \in Reports :
       report[r].pc = "answered" /\ ~report[r].stale =>
         \A e \in report[r].recorded :
           HourOf(observed[e]) >= report[r].cutoff => report[r].counts[e] = 1
=============================================================================
