---------------------------- MODULE CollectorRun ----------------------------
(***************************************************************************)
(* A run of the collector (Collector.run in src/checks/collector.py) over  *)
(* its checks, each of which runs its instances (AgentCheck.run in         *)
(* src/checks/__init__.py) and keeps what they submit until the collector  *)
(* asks for it.  Everything runs in one thread; SIGTERM may come between   *)
(* any two steps and only sets continue_running.                           *)
(*                                                                         *)
(* What an instance submits is known by its origin <<run, check, instance>>*)
(* so that the properties can tell whose data, warnings and metadata a     *)
(* payload carries.                                                        *)
(***************************************************************************)
EXTENDS Integers, Sequences, FiniteSets, SequencesExt

CONSTANTS
  Checks,        \* initialized_checks_d: the names of the checks, in order
  FailedChecks,  \* init_failed_checks_d
  NbInstances,   \* the number of instances of a check
  Interval,      \* min_collection_interval of an instance, in runs
  MaxRuns        \* bound: runs of the collector

Names == {Checks[k] : k \in DOMAIN Checks}
Instances(c) == 1..NbInstances[c]

ASSUME CollectorRunAssumption ==
  /\ Checks \in Seq(Names)
  /\ \A m, n \in DOMAIN Checks : Checks[m] = Checks[n] => m = n
  /\ NbInstances \in [Names -> Nat]
  /\ \A c \in Names : Interval[c] \in [Instances(c) -> Nat]
  /\ MaxRuns \in Nat

VARIABLES
  \* what a check keeps
  metrics,          \* in its aggregator
  events,           \* events
  serviceChecks,    \* service_checks
  warnings,         \* warnings
  svcMetadata,      \* svc_metadata: one set of metadata per instance
  lastCollection,   \* last_collection_time: the run, 0 for never
  \* the run
  pc,               \* the step the run is at
  run,              \* run_count
  k, i,             \* the check and the instance
  instanceStatuses, \* instance_statuses
  metadata,         \* current_check_metadata, a local that is unbound at first
  checkStatuses,    \* check_statuses
  failed,           \* the checks of init_failed_checks_d passed so far
  payload,          \* metrics, events and service checks of the payload
  agentChecks,      \* payload['agent_checks'], as a set
  continueRunning,  \* continue_running
  \* history
  sent,             \* what was posted
  raised,           \* the origins of what raised afterwards
  uncollected,      \* the runs and checks for which run() or get_metrics() raised
  aborted           \* those of them for which run() raised

storeVars == <<metrics, events, serviceChecks, warnings, svcMetadata, lastCollection>>
localVars == <<k, i, instanceStatuses, metadata, checkStatuses, failed>>
history == <<sent, raised, uncollected, aborted>>
vars == <<storeVars, localVars, pc, run, payload, agentChecks, continueRunning, history>>

\* The origins of what the instances of a check submit, and its kinds.
Origin == Nat \X Names \X Nat
Kinds == {"metric", "event", "service_check"}
Tagged(kind, origins) == {<<kind, o>> : o \in origins}

Unbound == [bound |-> FALSE, of |-> <<>>]
Bound(m) == [bound |-> TRUE, of |-> m]
Check == Checks[k]

Init ==
  /\ metrics = [c \in Names |-> {}] /\ events = [c \in Names |-> {}]
  /\ serviceChecks = [c \in Names |-> {}] /\ warnings = [c \in Names |-> {}]
  /\ svcMetadata = [c \in Names |-> <<>>]
  /\ lastCollection = [c \in Names |-> [n \in Instances(c) |-> 0]]
  /\ pc = "idle" /\ run = 0 /\ k = 1 /\ i = 1
  /\ instanceStatuses = <<>> /\ metadata = Unbound /\ checkStatuses = <<>> /\ failed = {}
  /\ payload = {} /\ agentChecks = {} /\ continueRunning = TRUE
  /\ sent = {} /\ raised = {} /\ uncollected = {} /\ aborted = {}

-----------------------------------------------------------------------------
(* Collector.run *)

\* A new payload and new locals.  The system checks and the old-style ones come first;
\* those of the system catch what they raise.
Run ==
  /\ pc = "idle" /\ run < MaxRuns /\ continueRunning
  /\ run' = run + 1
  /\ k' = 1 /\ i' = 1 /\ instanceStatuses' = <<>> /\ metadata' = Unbound
  /\ checkStatuses' = <<>> /\ failed' = {}
  /\ payload' = {} /\ agentChecks' = {}
  /\ pc' = "old_checks"
  /\ UNCHANGED <<storeVars, continueRunning, history>>

OldChecks ==
  /\ pc = "old_checks"
  /\ pc' = "check"
  /\ UNCHANGED <<storeVars, localVars, run, payload, agentChecks, continueRunning, history>>

\* Ganglia, dogstreams and custom checks are called without a handler; the exception
\* leaves run() and ends the agent.
OldCheckRaises ==
  /\ pc = "old_checks"
  /\ pc' = "raised"
  /\ UNCHANGED <<storeVars, localVars, run, payload, agentChecks, continueRunning, history>>

\* run() returns without a payload.
Return ==
  /\ \/ pc = "check" /\ k <= Len(Checks)
     \/ pc = "failed" /\ failed # FailedChecks
  /\ ~continueRunning
  /\ pc' = "idle"
  /\ UNCHANGED <<storeVars, localVars, run, payload, agentChecks, continueRunning, history>>

BeginCheck ==
  /\ pc = "check" /\ k <= Len(Checks) /\ continueRunning
  /\ pc' = "instance" /\ i' = 1 /\ instanceStatuses' = <<>>
  /\ UNCHANGED <<storeVars, k, metadata, checkStatuses, failed, run, payload, agentChecks,
                 continueRunning, history>>

EndChecks ==
  /\ pc = "check" /\ k > Len(Checks)
  /\ pc' = "failed"
  /\ UNCHANGED <<storeVars, localVars, run, payload, agentChecks, continueRunning, history>>

-----------------------------------------------------------------------------
(* AgentCheck.run *)

\* An instance that never ran is due: its last time is the epoch.
Due(last, interval) == last = 0 \/ run - last >= interval

InstanceDue == Due(lastCollection[Check][i], Interval[Check][i])

\* The `continue` of an instance that is not due still runs the finally clause, which
\* rolls up its (empty) metadata; there is no status for it.
SkipInstance ==
  /\ pc = "instance" /\ i \in Instances(Check)
  /\ ~InstanceDue
  /\ svcMetadata' = [svcMetadata EXCEPT ![Check] = Append(@, {})]
  /\ i' = i + 1
  /\ UNCHANGED <<metrics, events, serviceChecks, warnings, lastCollection, pc, run, k,
                 instanceStatuses, metadata, checkStatuses, failed, payload, agentChecks,
                 continueRunning, history>>

\* get_warnings() empties the list; it is called only for an instance that returned.
\* Mutant: the list is not emptied.
WarningsKept(ok, all) == all
WarningsLeft(ok, all) == IF ok THEN {} ELSE all

\* _roll_up_instance_metadata() is called in the finally clause.
\* Mutant: it is called at the end of the try block.
RollUpIfReturned(ok, collected) == IF ok THEN Append(svcMetadata[Check], collected) ELSE svcMetadata[Check]
RollUp(ok, collected) == Append(svcMetadata[Check], collected)

\* What an instance raises is caught, and the loop goes on.
\* Mutant: it leaves AgentCheck.run, for the handler of Collector.run.
LeaveOnError(ok) == IF ok THEN "instance" ELSE "collect"
AfterInstance(ok) == "instance"

Current == <<run, Check, i>>
Given(warn) == warnings[Check] \cup (IF warn THEN {Current} ELSE {})

\* The check method of an instance that is due.  It submits data, may warn and may save
\* metadata, and returns or raises after that.
CheckInstance(ok, warn, meta) ==
  /\ pc = "instance" /\ i \in Instances(Check)
  /\ InstanceDue
  /\ lastCollection' = [lastCollection EXCEPT ![Check][i] = run]
  /\ metrics' = [metrics EXCEPT ![Check] = @ \cup {Current}]
  /\ events' = [events EXCEPT ![Check] = @ \cup {Current}]
  /\ serviceChecks' = [serviceChecks EXCEPT ![Check] = @ \cup {Current}]
  /\ warnings' = [warnings EXCEPT ![Check] = WarningsLeft(ok, Given(warn))]
  /\ svcMetadata' = [svcMetadata EXCEPT ![Check] = RollUp(ok, IF meta THEN {Current} ELSE {})]

\* The status of the instance; the warnings are taken only if it returned.
InstanceStatus(ok, all) ==
  [id |-> i,
   status |-> IF ~ok THEN "ERROR" ELSE IF all # {} THEN "WARNING" ELSE "OK",
   warnings |-> IF ok THEN all ELSE {}]

RunInstance(ok, warn, meta) ==
  /\ CheckInstance(ok, warn, meta)
  /\ instanceStatuses' = Append(instanceStatuses, InstanceStatus(ok, Given(warn)))
  /\ raised' = IF ok THEN raised ELSE raised \cup {Current}
  /\ i' = i + 1 /\ pc' = AfterInstance(ok)
  /\ UNCHANGED <<run, k, metadata, checkStatuses, failed, payload, agentChecks,
                 continueRunning, sent, uncollected, aborted>>

\* str(e) raises in the handler, for a message that is not ASCII: the exception leaves
\* AgentCheck.run for the handler of Collector.run, where instance_statuses is empty and
\* nothing is collected.
InstanceEscapes(warn, meta) ==
  /\ CheckInstance(FALSE, warn, meta)
  /\ instanceStatuses' = <<>>
  /\ raised' = raised \cup {Current}
  /\ uncollected' = uncollected \cup {<<run, Check>>}
  /\ aborted' = aborted \cup {<<run, Check>>}
  /\ pc' = "status"
  /\ UNCHANGED <<run, k, i, metadata, checkStatuses, failed, payload, agentChecks,
                 continueRunning, sent>>

EndInstances ==
  /\ pc = "instance" /\ i > NbInstances[Check]
  /\ pc' = "collect"
  /\ UNCHANGED <<storeVars, localVars, run, payload, agentChecks, continueRunning, history>>
-----------------------------------------------------------------------------
(* Collector.run, after check.run() *)

\* get_events() and get_service_metadata() leave empty lists.
\* Mutants: they return the list and keep it.
EventsKept(c) == events[c]
EventsLeft(c) == {}
MetadataKept(c) == svcMetadata[c]
MetadataLeft(c) == <<>>

\* get_metrics, get_events and get_service_metadata empty what the check keeps.
Collect ==
  /\ pc = "collect"
  /\ payload' = payload \cup Tagged("metric", metrics[Check]) \cup Tagged("event", events[Check])
  /\ metrics' = [metrics EXCEPT ![Check] = {}]
  /\ events' = [events EXCEPT ![Check] = EventsLeft(Check)]
  /\ metadata' = Bound(svcMetadata[Check])
  /\ svcMetadata' = [svcMetadata EXCEPT ![Check] = MetadataLeft(Check)]
  /\ pc' = "status"
  /\ UNCHANGED <<serviceChecks, warnings, lastCollection, run, k, i, instanceStatuses,
                 checkStatuses, failed, agentChecks, continueRunning, history>>

\* get_metrics raises in the middle of the aggregator's flush: what was flushed is lost,
\* and current_check_metadata is still that of the check before.
CollectRaises ==
  /\ pc = "collect"
  /\ \E kept \in SUBSET metrics[Check] : metrics' = [metrics EXCEPT ![Check] = kept]
  /\ uncollected' = uncollected \cup {<<run, Check>>}
  /\ pc' = "status"
  /\ UNCHANGED <<events, serviceChecks, warnings, svcMetadata, lastCollection, localVars, run,
                 payload, agentChecks, continueRunning, sent, raised, aborted>>

\* Mutant: the status of the last instance.
StatusOfLast(statuses) ==
  IF statuses # <<>> /\ Last(statuses).status = "ERROR" THEN "CRITICAL" ELSE "OK"

StatusOf(statuses) ==
  IF \E n \in DOMAIN statuses : statuses[n].status = "ERROR" THEN "CRITICAL" ELSE "OK"

\* The status of the check, and its service checks with one for that status.
SaveStatus ==
  /\ pc = "status" /\ metadata.bound
  /\ checkStatuses' = Append(checkStatuses,
       [check |-> Check, statuses |-> instanceStatuses, metadata |-> metadata.of])
  /\ payload' = payload \cup Tagged("service_check", serviceChecks[Check])
                       \cup {<<StatusOf(instanceStatuses), <<run, Check>>>>}
  /\ serviceChecks' = [serviceChecks EXCEPT ![Check] = {}]
  /\ k' = k + 1
  /\ pc' = "check"
  /\ UNCHANGED <<metrics, events, warnings, svcMetadata, lastCollection, run, i,
                 instanceStatuses, metadata, failed, agentChecks, continueRunning, history>>

\* The name current_check_metadata is not bound.
NameError ==
  /\ pc = "status" /\ ~metadata.bound
  /\ pc' = "metadata_error"
  /\ UNCHANGED <<storeVars, localVars, run, payload, agentChecks, continueRunning, history>>

\* get_library_info() raises what is not NotImplementedError, and ends the run.
LibraryInfoRaises ==
  /\ pc = "status" /\ metadata.bound
  /\ pc' = "raised"
  /\ UNCHANGED <<storeVars, localVars, run, payload, agentChecks, continueRunning, history>>

\* The status of a check that could not be initialized: one entry, of no instance.
Initialization(c) ==
  [check |-> c, statuses |-> <<[id |-> 0, status |-> "ERROR", warnings |-> {}]>>,
   metadata |-> <<{}>>]

FailedCheck(c) ==
  /\ pc = "failed" /\ c \notin failed /\ continueRunning
  /\ failed' = failed \cup {c}
  /\ checkStatuses' = Append(checkStatuses, Initialization(c))
  /\ UNCHANGED <<storeVars, k, i, instanceStatuses, metadata, pc, run, payload, agentChecks,
                 continueRunning, history>>

EndFailed ==
  /\ pc = "failed" /\ failed = FailedChecks
  /\ pc' = "metadata"
  /\ UNCHANGED <<storeVars, localVars, run, payload, agentChecks, continueRunning, history>>

\* _populate_payload_metadata: the statuses of a check's instances, each with the entry of
\* the same number in the check's metadata.
Entries(s) ==
  {[check |-> s.check, status |-> s.statuses[n], metadata |-> s.metadata[n]] :
     n \in DOMAIN s.statuses}

LongEnough(s) == Len(s.statuses) <= Len(s.metadata)

\* agent_checks is sent at the first run and from time to time.
Populate(send) ==
  /\ pc = "metadata"
  /\ run = 1 => send
  /\ IF send /\ ~\A n \in DOMAIN checkStatuses : LongEnough(checkStatuses[n])
     THEN pc' = "metadata_error" /\ UNCHANGED agentChecks   \* IndexError
     ELSE /\ pc' = "emit"
          /\ agentChecks' = IF send THEN UNION {Entries(checkStatuses[n]) : n \in DOMAIN checkStatuses}
                                    ELSE {}
  /\ UNCHANGED <<storeVars, localVars, run, payload, continueRunning, history>>

\* get_external_host_tags() of a check raises what is not AttributeError: that of vsphere
\* iterates over objects its threads add and remove.
HostTagsRaise ==
  /\ pc = "metadata"
  /\ pc' = "raised"
  /\ UNCHANGED <<storeVars, localVars, run, payload, agentChecks, continueRunning, history>>

\* AgentPayload.emit gets the value continue_running has when it is called.
Emit ==
  /\ pc = "emit"
  /\ pc' = IF continueRunning THEN "post" ELSE "idle"
  /\ UNCHANGED <<storeVars, localVars, run, payload, agentChecks, continueRunning, history>>

\* http_emitter, whose failures are logged.
Post ==
  /\ pc = "post"
  /\ sent' = sent \cup payload
  /\ pc' = "idle"
  /\ UNCHANGED <<storeVars, localVars, run, payload, agentChecks, continueRunning, raised,
                 uncollected, aborted>>

\* Collector.stop, in the handler of SIGTERM.
Stop ==
  /\ continueRunning
  /\ continueRunning' = FALSE
  /\ UNCHANGED <<storeVars, localVars, pc, run, payload, agentChecks, history>>

-----------------------------------------------------------------------------
Step ==
  \/ Run \/ OldChecks \/ OldCheckRaises \/ Return \/ BeginCheck \/ EndChecks
  \/ SkipInstance \/ EndInstances
  \/ \E ok, warn, meta \in BOOLEAN : RunInstance(ok, warn, meta)
  \/ \E warn, meta \in BOOLEAN : InstanceEscapes(warn, meta)
  \/ Collect \/ CollectRaises
  \/ SaveStatus \/ NameError \/ LibraryInfoRaises
  \/ \E c \in FailedChecks : FailedCheck(c)
  \/ EndFailed \/ \E send \in BOOLEAN : Populate(send)
  \/ HostTagsRaise \/ Emit \/ Post
Next == Step \/ Stop

Spec == Init /\ [][Next]_vars

-----------------------------------------------------------------------------
(* Properties *)

\* What an instance submitted is in one place: with its check, in the payload of the run, or
\* gone with a payload.  Nothing is posted twice, whatever raised and wherever a run stopped.
PostedOnce ==
  /\ \A c \in Names :
       /\ Tagged("metric", metrics[c]) \cap (payload \cup sent) = {}
       /\ Tagged("event", events[c]) \cap (payload \cup sent) = {}
       /\ Tagged("service_check", serviceChecks[c]) \cap (payload \cup sent) = {}
  /\ pc # "idle" => payload \cap sent = {}

\* The failure of an instance or of a check stays with it: when the payload is complete, each
\* instance that was due ran, unless an exception left run() of its own check, and what it
\* submitted is in the payload, unless its own check could not be collected.
FailureContained ==
  pc \in {"emit", "post"} =>
    \A c \in Names : \A n \in Instances(c) :
      /\ \/ lastCollection[c][n] = run \/ ~Due(lastCollection[c][n], Interval[c][n])
         \/ <<run, c>> \in aborted
      /\ lastCollection[c][n] = run /\ <<run, c>> \notin uncollected
           => \A kind \in Kinds : <<kind, <<run, c, n>>>> \in payload

\* The service check datadog.agent.check_status of each check is in the payload, and is
\* critical exactly if one of its instances raised in this run.  Only when an exception left
\* run() of the check, its status is OK for want of any status of an instance.
StatusRight ==
  pc \in {"emit", "post"} =>
    \A c \in Names :
      LET failing == \E n \in Instances(c) : <<run, c, n>> \in raised
          told    == failing /\ <<run, c>> \notin aborted
      IN  /\ <<"CRITICAL", <<run, c>>>> \in payload <=> told
          /\ <<"OK", <<run, c>>>> \in payload <=> ~told

\* has_warnings: "Check whether the instance run created any warnings".  A warning in the
\* status of an instance is its own, or that of an instance of the check that raised before.
WarningsOwn ==
  \A n \in DOMAIN instanceStatuses : \A w \in instanceStatuses[n].warnings :
    /\ pc \in {"instance", "collect", "status"} => w[2] = Check
    /\ (w[1] = run /\ w[3] = instanceStatuses[n].id) \/ w \in raised

\* The metadata sent for an instance is its own, unless an instance of the check was skipped
\* or the check could not be collected, in this run or the last one.
MetadataOwn ==
  pc \in {"emit", "post"} =>
    \A e \in agentChecks :
      \/ e.metadata \subseteq {<<run, e.check, e.status.id>>}
      \/ \E m \in Instances(e.check) : lastCollection[e.check][m] # run
      \/ {<<run, e.check>>, <<run - 1, e.check>>} \cap uncollected # {}

\* The run ends for want of the metadata of a check, unbound or with fewer entries than
\* there are instances, only if run() or get_metrics() of some check raised in it: the
\* statuses and the metadata of a check that was collected fit together, whatever its
\* instances did.
MetadataFits == pc = "metadata_error" => \E c \in Names : <<run, c>> \in uncollected
=============================================================================
