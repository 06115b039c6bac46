----------------------------- MODULE NodeHealth -----------------------------
(***************************************************************************)
(* How a communication node answers node.get_health: its io thread marks   *)
(* stale modules, derives diagnostics from the registry and from the       *)
(* recent events, and adds a summary and details, while other threads go   *)
(* on recording in the StatsCollector.                                     *)
(*                                                                         *)
(* The statistics are taken up to three times for one answer.  The         *)
(* registry is changed by the node's io thread only, between two commands. *)
(* Of a diagnostic only its code is kept; repeated events with one key     *)
(* (module and target, module and error, ...) are one diagnostic.          *)
(***************************************************************************)
EXTENDS Naturals, Sequences, FiniteSets

CONSTANTS
  Modules,          (* names of modules                                      *)
  Keys,             (* what tells groups of events of one type apart         *)
  None,             (* no key, no report                                     *)
  MaxEvents,        (* max_recent_events                                     *)
  MaxDiagnostics,   (* max_diagnostics                                       *)
  MaxRecords,       (* bound on the calls that record something              *)
  MaxResets         (* bound on resets of the statistics                     *)

ASSUME HealthAssumption ==
  /\ IsFiniteSet(Modules) /\ IsFiniteSet(Keys)
  /\ {MaxEvents, MaxRecords, MaxResets} \subseteq Nat
  /\ MaxDiagnostics \in Nat \ {0}

VARIABLES
  status,       (* registry: "unknown", "online" or "offline"                *)
  silent,       (* modules not seen for longer than any timeout              *)
  events,       (* recent_events                                             *)
  totals,       (* total_timeouts, total_errors, total_delivery_failures     *)
  records,      (* how many calls have recorded something                    *)
  resets,       (* how often the statistics were reset                       *)
  diagnostics,  (* the deque of the DiagnosticsManager, codes only           *)
  pc,           (* the node's io thread, in _get_node_health or not          *)
  report,       (* the answer it is building                                 *)
  taken,        (* history: the events the diagnostics were derived from     *)
  reset,        (* history: whether a reset came after that                  *)
  quiet         (* history: events since the last error, cut at MaxEvents    *)

registryVars == <<status, silent>>
statsVars    == <<events, totals, records, resets, quiet>>
reportVars   == <<diagnostics, pc, report, taken>>
vars == <<registryVars, statsVars, reportVars, reset>>

Problems == {"timeout", "error", "failure"}
Plain == <<"message", None>>    (* a message recorded, a latency             *)
Event == (Problems \X Keys) \cup {Plain}
Codes == {"MODULE_OFFLINE", "REQUEST_TIMEOUT", "HANDLER_ERROR", "DELIVERY_FAILURE"}

IsError(event) == event[1] \in {"error", "failure"}

Init ==
  /\ status = [m \in Modules |-> "unknown"] /\ silent = {}
  /\ events = << >> /\ totals = [p \in Problems |-> 0]
  /\ records = 0 /\ resets = 0 /\ quiet = MaxEvents
  /\ diagnostics = << >> /\ pc = "idle" /\ report = None /\ taken = << >>
  /\ reset = FALSE

-----------------------------------------------------------------------------
(* Mutant: a deque without a bound.                                         *)
KeepAll(list, max) == list

(* deque(maxlen): what is appended pushes the oldest out.                   *)
KeepLast(list, max) ==
  IF Len(list) > max THEN SubSeq(list, Len(list) - max + 1, Len(list)) ELSE list

Appended(list, event) == KeepLast(Append(list, event), MaxEvents)

Since(count, event) ==
  IF IsError(event) THEN 0 ELSE IF count < MaxEvents THEN count + 1 ELSE MaxEvents

(* Mutant: a timeout is recorded as an event and not counted in the total.  *)
RecordUncounted(event) ==
  /\ records < MaxRecords
  /\ records' = records + 1
  /\ events' = Appended(events, event)
  /\ totals' = [p \in Problems |->
                  IF p # "timeout" /\ (p = event[1] \/ (p = "error" /\ event[1] = "failure"))
                  THEN totals[p] + 1 ELSE totals[p]]
  /\ quiet' = Since(quiet, event)
  /\ UNCHANGED <<registryVars, reportVars, resets, reset>>

(* record_message, record_timeout, record_latency, record_error and         *)
(* record_delivery_failure, each under the lock of the collector and with   *)
(* one event; a failure counts as an error too.                             *)
Record(event) ==
  /\ records < MaxRecords
  /\ records' = records + 1
  /\ events' = Appended(events, event)
  /\ totals' = [p \in Problems |->
                  IF p = event[1] \/ (p = "error" /\ event[1] = "failure")
                  THEN totals[p] + 1 ELSE totals[p]]
  /\ quiet' = Since(quiet, event)
  /\ UNCHANGED <<registryVars, reportVars, resets, reset>>

(* record_message of a reply whose request is pending: the latency and the  *)
(* message are two events, under one lock.                                  *)
RecordSampledReply ==
  /\ records < MaxRecords
  /\ records' = records + 1
  /\ events' = Appended(Appended(events, Plain), Plain)
  /\ quiet' = Since(Since(quiet, Plain), Plain)
  /\ UNCHANGED <<registryVars, reportVars, totals, resets, reset>>

(* Mutant: recent_events survives a reset.                                  *)
ResetKeepsEvents ==
  /\ resets < MaxResets
  /\ resets' = resets + 1
  /\ totals' = [p \in Problems |-> 0]
  /\ quiet' = MaxEvents
  /\ reset' = TRUE
  /\ UNCHANGED <<registryVars, reportVars, events, records>>

(* StatsCollector.reset, by a command or by any other thread.               *)
Reset ==
  /\ resets < MaxResets
  /\ resets' = resets + 1
  /\ events' = << >>
  /\ totals' = [p \in Problems |-> 0]
  /\ quiet' = MaxEvents
  /\ reset' = TRUE
  /\ UNCHANGED <<registryVars, reportVars, records>>

-----------------------------------------------------------------------------
(* The registry between two commands of the io thread.                      *)

Seen(m) ==
  /\ pc = "idle"
  /\ status' = [status EXCEPT ![m] = "online"]
  /\ silent' = silent \ {m}
  /\ UNCHANGED <<statsVars, reportVars, reset>>

Unregistered(m) ==
  /\ pc = "idle" /\ status[m] # "unknown"
  /\ status' = [status EXCEPT ![m] = "offline"]
  /\ UNCHANGED <<silent, statsVars, reportVars, reset>>

FallsSilent(m) ==
  /\ status[m] = "online" /\ m \notin silent
  /\ silent' = silent \cup {m}
  /\ UNCHANGED <<status, statsVars, reportVars, reset>>

-----------------------------------------------------------------------------
(* _collect_module_offline and _collect_stats_diagnostics: a diagnostic for *)
(* each offline module, then for each group of timeouts, handler errors and *)
(* delivery failures, into a deque that has been cleared.                   *)

Repeat(code, n) == [i \in 1..n |-> code]

Groups(list, problem) ==
  Cardinality({list[n][2] : n \in {i \in 1..Len(list) : list[i][1] = problem}})

(* Mutant: the errors are collected first.                                  *)
DerivedErrorsFirst(offline, list) ==
  Repeat("HANDLER_ERROR", Groups(list, "error"))
    \o Repeat("DELIVERY_FAILURE", Groups(list, "failure"))
    \o Repeat("MODULE_OFFLINE", Cardinality(offline))
    \o Repeat("REQUEST_TIMEOUT", Groups(list, "timeout"))

Derived(offline, list) ==
  Repeat("MODULE_OFFLINE", Cardinality(offline))
    \o Repeat("REQUEST_TIMEOUT", Groups(list, "timeout"))
    \o Repeat("HANDLER_ERROR", Groups(list, "error"))
    \o Repeat("DELIVERY_FAILURE", Groups(list, "failure"))

Diagnosed(offline, list) == KeepLast(Derived(offline, list), MaxDiagnostics)

Severity(code) ==
  IF code \in {"HANDLER_ERROR", "DELIVERY_FAILURE"} THEN "error" ELSE "warning"

Verdict(codes) ==
  LET severities == {Severity(codes[n]) : n \in 1..Len(codes)}
  IN  IF "error" \in severities THEN "unhealthy"
      ELSE IF "warning" \in severities THEN "degraded" ELSE "healthy"

Stale == {m \in silent : status[m] = "online"}
Offline(registry) == {m \in Modules : registry[m] = "offline"}

(* _get_node_health up to the status.  The statistics are taken at one      *)
(* instant; all else belongs to the io thread.                              *)
GetHealth ==
  /\ pc = "idle"
  /\ pc' = "diagnosed"
  /\ status' = [m \in Modules |-> IF m \in Stale THEN "offline" ELSE status[m]]
  /\ diagnostics' = Diagnosed(Offline(status'), events)
  /\ report' = [status |-> Verdict(diagnostics'), stale |-> Stale, codes |-> diagnostics',
                offline |-> {}, summary |-> None, details |-> None]
  /\ taken' = events
  /\ reset' = FALSE
  /\ UNCHANGED <<silent, statsVars>>

(* _get_health_summary, with statistics taken anew.                         *)
Summarise ==
  /\ pc = "diagnosed"
  /\ pc' = "summarised"
  /\ report' = [report EXCEPT !.offline = Offline(status), !.summary = totals]
  /\ UNCHANGED <<registryVars, statsVars, diagnostics, taken, reset>>

(* With includeDetails the statistics are taken a third time.               *)
AddDetails ==
  /\ pc = "summarised"
  /\ pc' = "detailed"
  /\ report' = [report EXCEPT !.details = totals]
  /\ UNCHANGED <<registryVars, statsVars, diagnostics, taken, reset>>

Respond ==
  /\ pc \in {"summarised", "detailed"}
  /\ pc' = "idle" /\ report' = None /\ taken' = << >>
  /\ UNCHANGED <<registryVars, statsVars, diagnostics, reset>>

(* The two other commands on diagnostics.                                   *)
GetDiagnostics ==
  /\ pc = "idle"
  /\ diagnostics' = Diagnosed(Offline(status), events)
  /\ UNCHANGED <<registryVars, statsVars, pc, report, taken, reset>>

ClearDiagnostics ==
  /\ pc = "idle"
  /\ diagnostics' = << >>
  /\ UNCHANGED <<registryVars, statsVars, pc, report, taken, reset>>

-----------------------------------------------------------------------------
Next ==
  \/ \E event \in Event : Record(event)
  \/ RecordSampledReply
  \/ Reset
  \/ \E m \in Modules : Seen(m) \/ Unregistered(m) \/ FallsSilent(m)
  \/ GetHealth \/ Summarise \/ AddDetails \/ Respond
  \/ GetDiagnostics \/ ClearDiagnostics

Spec == Init /\ [][Next]_vars

-----------------------------------------------------------------------------
Counts == [Problems -> Nat]
Report ==
  [status : {"healthy", "degraded", "unhealthy"}, stale : SUBSET Modules, codes : Seq(Codes),
   offline : SUBSET Modules, summary : Counts \cup {None}, details : Counts \cup {None}]

TypeOK ==
  /\ status \in [Modules -> {"unknown", "online", "offline"}]
  /\ silent \subseteq Modules
  /\ events \in Seq(Event) /\ Len(events) <= MaxEvents
  /\ totals \in Counts
  /\ records \in 0..MaxRecords /\ resets \in 0..MaxResets
  /\ diagnostics \in Seq(Codes) /\ Len(diagnostics) <= MaxDiagnostics
  /\ pc \in {"idle", "diagnosed", "summarised", "detailed"}
  /\ report \in Report \cup {None} /\ (pc # "idle" => report \in Report)
  /\ taken \in Seq(Event)
  /\ reset \in BOOLEAN
  /\ quiet \in 0..MaxEvents

Has(list, problems) == \E n \in 1..Len(list) : list[n][1] \in problems

(* The status of the answer is decided by the events and the registry it    *)
(* was derived from, however many diagnostics there are: the deque is       *)
(* bounded, but an error is never pushed out by warnings.                   *)
VerdictFollowsEvents ==
  pc # "idle" =>
    /\ report.status = "unhealthy" <=> Has(taken, {"error", "failure"})
    /\ report.status = "healthy" <=> ~Has(taken, Problems) /\ Offline(status) = {}

(* The recent events still hold an error exactly if fewer than MaxEvents    *)
(* events were appended after the last one, and no reset came: nothing else *)
(* hides it.  Half as many calls may do: a sampled reply appends two.       *)
ErrorsOnlyEvicted ==
  Has(events, {"error", "failure"}) <=> quiet < MaxEvents

(* Statistics taken later agree with those taken before: unless a reset     *)
(* came between, the summary counts every event behind a diagnostic, and    *)
(* the details count what the summary does.                                 *)
SummaryCovers ==
  pc \in {"summarised", "detailed"} /\ ~reset =>
    /\ \A p \in Problems :
         Cardinality({n \in 1..Len(taken) : taken[n][1] = p}) <= report.summary[p]
    /\ report.details # None =>
         \A p \in Problems : report.summary[p] <= report.details[p]
=============================================================================
