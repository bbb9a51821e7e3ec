------------------------------- MODULE AgentLoop -------------------------------
(***************************************************************************)
(* The collector process: the main loop of Agent.run (src/agent.py), its   *)
(* signal handlers, full and partial configuration reloads with the check  *)
(* loading of src/config.py, and the flag through which service discovery  *)
(* asks for a reload (sd_docker_backend.py, abstract_config_store.py).     *)
(*                                                                         *)
(* Signal handlers run in the main thread between any two bytecodes, so    *)
(* they are actions enabled at every value of pc, and the loop is cut      *)
(* wherever a signal in between could be told from one before or after.    *)
(* The configuration of a check, in conf.d or from service discovery, is   *)
(* abstracted to what loading it gives:                                    *)
(*   "good"   the check is initialized                                     *)
(*   "none"   there is no configuration for it                             *)
(*   "yaml"   the file cannot be parsed                                    *)
(*   "class"  the check cannot be imported or initialized                  *)
(* A discovered check has one image, whose template names it.              *)
(***************************************************************************)
EXTENDS Integers, Sequences, FiniteSets, SequencesExt

CONSTANTS
  Checks,       \* names of the checks, the JMX ones and docker_daemon aside
  FileChecks,   \* those with a file in conf.d; the others are discovered
  Deprecated,   \* those that datadog.conf still configures the old way
  Untagged,     \* discovered checks whose image is named without a tag
  States,       \* what loading a configuration may give
  AutoRestart,  \* autorestart: the process exits after restart_interval
  MaxSignals,   \* bound: SIGHUPs
  MaxChanges,   \* bound: changes of each check's configuration
  MaxFailures   \* bound: failures of docker or of the configuration store

ASSUME AgentLoopAssumption ==
  /\ IsFiniteSet(Checks)
  /\ FileChecks \subseteq Checks /\ Deprecated \subseteq Checks /\ Untagged \subseteq Checks
  /\ States \subseteq {"good", "none", "yaml", "class"}
  /\ AutoRestart \in BOOLEAN
  /\ {MaxSignals, MaxChanges, MaxFailures} \subseteq Nat

VARIABLES
  pc,               \* the statement of the main loop to run next
  runForever,       \* run_forever
  reloadFlag,       \* reload_configs_flag
  sdFlag,           \* sd_backend.reload_check_configs
  toRefresh,        \* checks refresh_specific_checks has still to handle
  initialized,      \* _checksd['initialized_checks']
  initFailed,       \* _checksd['init_failed_checks']
  continueRunning,  \* collector.continue_running
  previousIndex,    \* config store: previous_config_index, -1 for None
  cache,            \* config store: identifier_to_checks, by the check of the image
  \* the environment
  config,           \* the configuration of each check
  templates,        \* discovered checks with a template in the configuration store
  storeIndex,       \* index of those templates
  changed,          \* checks of containers with an unreported event
  removed,          \* such an event is of a container that no longer exists
  signals, failures,
  \* history, never read by an action's guard
  hup               \* a SIGHUP came since the last full reload

loopVars == <<pc, runForever, reloadFlag, sdFlag, toRefresh, initialized, initFailed,
              continueRunning, previousIndex, cache>>
worldVars == <<config, templates, storeIndex, changed, removed>>
vars == <<loopVars, worldVars, signals, failures, hup>>

\* The values of both flags: False, True, or a set of checks.
Flag == [all: BOOLEAN, checks: SUBSET Checks]
NoReload == [all |-> FALSE, checks |-> {}]
FullReload == [all |-> TRUE, checks |-> {}]
PartialReload(S) == [all |-> FALSE, checks |-> S]

\* An entry of the list of checks; error marks a dict taken for a check.
Check == [name: Checks, version: Nat, error: BOOLEAN]

Names(list) == {list[i].name : i \in DOMAIN list}

Discovered == Checks \ FileChecks

\* One load_check_directory, in which service discovery could not read the configurations
\* of the checks in lost.  initialized_checks.values() of a dict comes in any order.
LoadCheckDirectory(lost, list, failed) ==
  LET found == Checks \ lost
  IN  /\ \E order \in SetToSeqs({c \in found : config[c].state = "good"}) :
           list = [i \in DOMAIN order |->
                     [name |-> order[i], version |-> config[order[i]].version, error |-> FALSE]]
      /\ failed = {c \in found : config[c].state \in {"yaml", "class"}} \cup Deprecated

\* An image is in identifier_to_checks with its check, with the empty set that a lookup of
\* the defaultdict leaves, or not at all.
Cached == {"check", "empty", "absent"}

\* _populate_identifier_to_checks, from the templates that could be read.
Populate(known) == [c \in Discovered |-> IF c \in known THEN "check" ELSE "absent"]

\* get_check_tpls enters the images of the containers it could configure, if they are not
\* in the cache, with whatever value.
Cache(known, lost) ==
  [c \in Discovered |-> IF known[c] = "absent" /\ c \notin lost /\ config[c].state # "none"
                         THEN "check" ELSE known[c]]

\* A discovered check is configured by its template.
HasTemplate == \A c \in Discovered : config[c].state # "none" => c \in templates

\* Only a file can be unparseable.
Possible(c, state) == c \in FileChecks \/ state # "yaml"

Init ==
  /\ pc = "top" /\ runForever = TRUE
  /\ reloadFlag = NoReload /\ sdFlag = NoReload /\ toRefresh = {}
  /\ config \in [Checks -> [state: States, version: {0}]]
  /\ \A c \in Checks : Possible(c, config[c].state)
  /\ templates \in SUBSET Discovered /\ HasTemplate
  /\ cache \in {Cache(Populate(templates), {}), Cache(Populate({}), {})}
  /\ LoadCheckDirectory({}, initialized, initFailed)
  /\ continueRunning = TRUE /\ previousIndex = -1
  /\ storeIndex = 0 /\ changed = {} /\ removed = FALSE
  /\ signals = 0 /\ failures = 0 /\ hup = FALSE

Dead == pc \in {"exited", "crashed"}

\* The main thread waits for a lock that is never released: no signal handler runs.
Stuck == pc = "stuck"
Running == ~Dead /\ ~Stuck

Goto(label) == pc' = label
Fails == failures < MaxFailures /\ failures' = failures + 1

-----------------------------------------------------------------------------
(* The main loop *)

\* Mutant: the loop does not look at run_forever.
TopForever ==
  /\ pc = "top"
  /\ Goto(IF reloadFlag = NoReload THEN "run" ELSE "isinstance")
  /\ UNCHANGED <<runForever, reloadFlag, sdFlag, toRefresh, initialized, initFailed,
                 continueRunning, previousIndex, cache, worldVars, signals, failures, hup>>

\* Mutant: the loop looks for a set of checks, and passes over True.
TopPartial ==
  /\ pc = "top"
  /\ Goto(IF ~runForever THEN "exited"
          ELSE IF reloadFlag.checks = {} THEN "run" ELSE "isinstance")
  /\ UNCHANGED <<runForever, reloadFlag, sdFlag, toRefresh, initialized, initFailed,
                 continueRunning, previousIndex, cache, worldVars, signals, failures, hup>>

Top ==
  /\ pc = "top"
  /\ Goto(IF ~runForever THEN "exited"
          ELSE IF reloadFlag = NoReload THEN "run" ELSE "isinstance")
  /\ UNCHANGED <<runForever, reloadFlag, sdFlag, toRefresh, initialized, initFailed,
                 continueRunning, previousIndex, cache, worldVars, signals, failures, hup>>

IsInstance ==
  /\ pc = "isinstance"
  /\ Goto(IF reloadFlag.all THEN "reload" ELSE "partial")
  /\ UNCHANGED <<runForever, reloadFlag, sdFlag, toRefresh, initialized, initFailed,
                 continueRunning, previousIndex, cache, worldVars, signals, failures, hup>>

\* The flag is read again for the argument: True is not iterable.
CallPartial ==
  /\ pc = "partial"
  /\ Goto(IF reloadFlag.all THEN "crashed" ELSE "refresh")
  /\ toRefresh' = reloadFlag.checks
  /\ UNCHANGED <<runForever, reloadFlag, sdFlag, initialized, initFailed,
                 continueRunning, previousIndex, cache, worldVars, signals, failures, hup>>

ReloadConfigs ==
  /\ pc = "reload"
  /\ \E lost \in SUBSET Discovered :
       /\ LoadCheckDirectory(lost, initialized', initFailed')
       /\ cache' = Cache(cache, lost)
       /\ IF lost = {} THEN UNCHANGED failures ELSE Fails
  /\ hup' = FALSE
  /\ Goto("run")
  /\ UNCHANGED <<runForever, reloadFlag, sdFlag, toRefresh, continueRunning,
                 previousIndex, worldVars, signals>>

-----------------------------------------------------------------------------
(* refresh_specific_checks: the list starts at 1, so idx = 0 stands for None *)
(* and idx = 1 for the 0 that the code does not tell from None.              *)

HasErrorDict == \E i \in DOMAIN initialized : initialized[i].error
IndexOf(c) ==
  IF c \in Names(initialized) THEN CHOOSE i \in DOMAIN initialized : initialized[i].name = c
  ELSE 0

\* Mutant: a check that runs already is appended again.
StoreAppends(c, error) ==
  initialized' = Append(initialized,
                        [name |-> c, version |-> config[c].version, error |-> error])

Store(c, error) ==
  LET new == [name |-> c, version |-> config[c].version, error |-> error]
  IN  initialized' = IF IndexOf(c) # 0 THEN ReplaceAt(initialized, IndexOf(c), new)
                     ELSE Append(initialized, new)

Refreshing(c) ==
  /\ pc = "refresh" /\ c \in toRefresh /\ ~HasErrorDict
  /\ toRefresh' = toRefresh \ {c}
  /\ UNCHANGED <<runForever, reloadFlag, sdFlag, continueRunning, previousIndex, pc,
                 worldVars, signals, hup>>

\* load_check asks service discovery for a check it finds no file for.
CacheOnLoad(c, lost) ==
  cache' = IF c \in FileChecks /\ config[c].state # "none" THEN cache ELSE Cache(cache, lost)

\* Mutant: a check that failed to load before stays among the failed ones.
KeepFailure(c) == initFailed' = initFailed

ForgetFailure(c) ==
  initFailed' = IF IndexOf(c) <= 1 THEN initFailed \ {c} ELSE initFailed

RefreshGood(c) ==
  /\ Refreshing(c) /\ config[c].state = "good"
  /\ ForgetFailure(c)
  /\ Store(c, FALSE)
  /\ CacheOnLoad(c, {})
  /\ UNCHANGED failures

\* load_check returns {name: {'error': ...}}, which has no key 'error': the dict
\* is taken for a check.
RefreshYamlError(c) ==
  /\ Refreshing(c) /\ config[c].state = "yaml"
  /\ ForgetFailure(c)
  /\ Store(c, TRUE)
  /\ UNCHANGED <<cache, failures>>

\* No configuration is left, or service discovery failed to answer.
RefreshGone(c) ==
  /\ Refreshing(c)
  /\ \/ config[c].state = "none" /\ CacheOnLoad(c, {}) /\ UNCHANGED failures
     \/ c \in Discovered /\ CacheOnLoad(c, {c}) /\ Fails
  /\ ForgetFailure(c)
  /\ initialized' = IF IndexOf(c) > 1 THEN RemoveAt(initialized, IndexOf(c)) ELSE initialized

\* load_check takes values()[0] of an empty dict, or check.name of an error dict.
RefreshRaises ==
  /\ pc = "refresh"
  /\ \E c \in toRefresh : HasErrorDict \/ config[c].state = "class"
  /\ Goto("crashed")
  /\ UNCHANGED <<runForever, reloadFlag, sdFlag, toRefresh, initialized, initFailed,
                 continueRunning, previousIndex, cache, worldVars, signals, failures, hup>>

RefreshDone ==
  /\ pc = "refresh" /\ toRefresh = {}
  /\ Goto("run")
  /\ UNCHANGED <<runForever, reloadFlag, sdFlag, toRefresh, initialized, initFailed,
                 continueRunning, previousIndex, cache, worldVars, signals, failures, hup>>

-----------------------------------------------------------------------------
(* collector.run *)

\* Mutant: update_checks stores the containers and not their checks.
ReportsContainers(containers, gone) ==
  sdFlag' = PartialReload({"container"}) /\ UNCHANGED <<cache, failures>>

\* get_checks_to_refresh.  That a file configures the check does not matter here: an event
\* of an image without a template is no event of the model for such a check.
ChecksToRefresh(containers) ==
  {c \in containers : c \in FileChecks \/ cache[c] = "check"}

\* The lookup of an image without a tag, if it fails, leaves the image in the cache.
LookUp(containers) ==
  [c \in Discovered |-> IF c \in containers \cap Untagged /\ cache[c] = "absent"
                         THEN "empty" ELSE cache[c]]

\* The docker_daemon check hands the changed containers to update_checks, which looks up
\* the checks of each.  The events are consumed before anything can fail; a container
\* that is gone, or a failure of docker, ends the loop over them.
Reports(containers, gone) ==
  \/ /\ ~gone
     /\ sdFlag' = IF ChecksToRefresh(containers) = {} THEN sdFlag
                  ELSE PartialReload(ChecksToRefresh(containers))
     /\ cache' = LookUp(containers)
     /\ UNCHANGED failures
  \/ \E seen \in SUBSET containers :
       /\ cache' = LookUp(seen)
       /\ \/ gone /\ sdFlag' = FullReload /\ UNCHANGED failures
          \/ Fails /\ UNCHANGED sdFlag

UpdateChecks ==
  /\ Reports(changed, removed)
  /\ changed' = {} /\ removed' = FALSE

\* The search for the AgentMetrics check raises at an error dict.  A stopped
\* collector returns before its first check.
CollectorRun ==
  /\ pc = "run"
  /\ IF continueRunning /\ ~HasErrorDict
     THEN UpdateChecks ELSE UNCHANGED <<sdFlag, cache, changed, removed, failures>>
  /\ Goto(IF HasErrorDict THEN "crashed" ELSE "clear")
  /\ UNCHANGED <<runForever, reloadFlag, toRefresh, initialized, initFailed, continueRunning,
                 previousIndex, config, templates, storeIndex, signals, hup>>

ClearFlag ==
  /\ pc = "clear"
  /\ reloadFlag' = NoReload
  /\ Goto("crawl")
  /\ UNCHANGED <<runForever, sdFlag, toRefresh, initialized, initFailed, continueRunning,
                 previousIndex, cache, worldVars, signals, failures, hup>>

-----------------------------------------------------------------------------
(* Service discovery *)

\* Mutant: the result of the crawl is dropped.
CrawlDropped == previousIndex' = storeIndex /\ UNCHANGED <<sdFlag, cache, failures>>

\* crawl_config_template.  Without any template there may be no directory to read.  The
\* new index is kept before the cache is rebuilt, which may raise; a rebuild that times out
\* leaves an empty cache and asks for the reload; a first read that fails changes nothing.
CrawlConfigTemplate ==
  \/ /\ templates = {} \/ previousIndex = storeIndex
     /\ UNCHANGED <<previousIndex, sdFlag, cache, failures>>
  \/ /\ previousIndex = -1 /\ previousIndex' = storeIndex
     /\ UNCHANGED <<sdFlag, cache, failures>>
  \/ /\ previousIndex \notin {-1, storeIndex} /\ previousIndex' = storeIndex
     /\ \/ cache' = Populate(templates) /\ UNCHANGED failures
        \/ cache' = Populate({}) /\ Fails
     /\ sdFlag' = FullReload
  \/ /\ Fails
     /\ previousIndex' \in {previousIndex, storeIndex}
     /\ UNCHANGED <<sdFlag, cache>>

Crawl ==
  /\ pc = "crawl"
  /\ IF sdFlag = NoReload THEN CrawlConfigTemplate
     ELSE UNCHANGED <<previousIndex, sdFlag, cache, failures>>
  /\ Goto("discover")
  /\ UNCHANGED <<runForever, reloadFlag, toRefresh, initialized, initFailed, continueRunning,
                 worldVars, signals, hup>>

Discover ==
  /\ pc = "discover"
  /\ reloadFlag' = IF sdFlag # NoReload THEN sdFlag ELSE reloadFlag
  /\ sdFlag' = NoReload
  /\ Goto("restart")
  /\ UNCHANGED <<runForever, toRefresh, initialized, initFailed, continueRunning,
                 previousIndex, cache, worldVars, signals, failures, hup>>

\* _do_restart stops the collector and exits.
DoRestart ==
  /\ pc = "restart" /\ AutoRestart
  /\ continueRunning' = FALSE
  /\ Goto("exited")
  /\ UNCHANGED <<runForever, reloadFlag, sdFlag, toRefresh, initialized, initFailed,
                 previousIndex, cache, worldVars, signals, failures, hup>>

\* A reload stops the checks, a collection waits for their threads, and _do_restart stops
\* the collector: a thread that never answers blocks the loop there, until the watchdog
\* kills the process if its handler can run.
Block ==
  /\ pc \in {"reload", "refresh", "run"} \/ (pc = "restart" /\ AutoRestart)
  /\ Goto("stuck")
  /\ UNCHANGED <<runForever, reloadFlag, sdFlag, toRefresh, initialized, initFailed,
                 continueRunning, previousIndex, cache, worldVars, signals, failures, hup>>

\* Plan the next loop, or leave it quickly.
Sleep ==
  /\ pc = "restart"
  /\ Goto("top")
  /\ UNCHANGED <<runForever, reloadFlag, sdFlag, toRefresh, initialized, initFailed,
                 continueRunning, previousIndex, cache, worldVars, signals, failures, hup>>

-----------------------------------------------------------------------------
(* Signals *)

Sighup ==
  /\ Running /\ signals < MaxSignals
  /\ signals' = signals + 1
  /\ reloadFlag' = FullReload
  /\ hup' = TRUE
  /\ UNCHANGED <<pc, runForever, sdFlag, toRefresh, initialized, initFailed, continueRunning,
                 previousIndex, cache, worldVars, failures>>

\* SIGTERM and SIGINT.  collector.stop() stops every check, and raises at an
\* error dict; the stop of a check may join a thread that never ends.
Sigterm ==
  /\ Running
  /\ runForever' = FALSE /\ continueRunning' = FALSE
  /\ pc' \in {IF HasErrorDict THEN "crashed" ELSE pc, "stuck"}
  /\ UNCHANGED <<reloadFlag, sdFlag, toRefresh, initialized, initFailed, previousIndex, cache,
                 worldVars, signals, failures, hup>>

Sigusr1 ==
  /\ Running
  /\ runForever' = FALSE /\ continueRunning' = FALSE
  /\ pc' \in {IF HasErrorDict THEN "crashed" ELSE "exited", "stuck"}
  /\ UNCHANGED <<reloadFlag, sdFlag, toRefresh, initialized, initFailed, previousIndex, cache,
                 worldVars, signals, failures, hup>>

-----------------------------------------------------------------------------
(* The world around: files, containers and templates change *)

Change(c, state) ==
  /\ Possible(c, state) /\ config[c].version < MaxChanges
  /\ config' = [config EXCEPT ![c] = [state |-> state, version |-> @.version + 1]]

EditFile(c, state) ==
  /\ Running /\ c \in FileChecks /\ Change(c, state)
  /\ UNCHANGED <<loopVars, templates, storeIndex, changed, removed, signals, failures, hup>>

\* A container starts, stops or dies.  If the check that monitors it has a file,
\* the container does not configure it.
ContainerEvent(c, state) ==
  /\ Running
  /\ IF c \in FileChecks THEN UNCHANGED config ELSE Change(c, state)
  /\ \/ changed' = changed \cup {c} /\ UNCHANGED removed
     \/ removed' = TRUE /\ UNCHANGED changed
  /\ UNCHANGED <<loopVars, templates, storeIndex, signals, failures, hup>>
  /\ HasTemplate'

TemplateChange(c, state) ==
  /\ Running /\ c \in Discovered /\ Change(c, state)
  /\ templates' \in {templates \cup {c}, templates \ {c}} /\ HasTemplate'
  /\ storeIndex' = storeIndex + 1
  /\ UNCHANGED <<loopVars, changed, removed, signals, failures, hup>>

-----------------------------------------------------------------------------
Loop ==
  \/ Top \/ IsInstance \/ CallPartial \/ ReloadConfigs
  \/ \E c \in toRefresh : RefreshGood(c) \/ RefreshYamlError(c) \/ RefreshGone(c)
  \/ RefreshRaises \/ RefreshDone
  \/ CollectorRun \/ ClearFlag \/ Crawl \/ Discover \/ DoRestart \/ Block \/ Sleep

Next ==
  \/ Loop
  \/ Sighup \/ Sigterm \/ Sigusr1
  \/ \E c \in Checks, state \in States :
       EditFile(c, state) \/ ContainerEvent(c, state) \/ TemplateChange(c, state)

Spec == Init /\ [][Next]_vars

\* The main loop runs on; signals and changes need not come.
FairSpec == Spec /\ WF_vars(Loop)

-----------------------------------------------------------------------------
(* Properties *)

TypeOK ==
  /\ pc \in {"top", "isinstance", "partial", "reload", "refresh", "run", "clear", "crawl",
             "discover", "restart", "exited", "crashed", "stuck"}
  /\ runForever \in BOOLEAN /\ continueRunning \in BOOLEAN
  /\ removed \in BOOLEAN /\ hup \in BOOLEAN
  /\ reloadFlag \in Flag /\ sdFlag \in Flag
  /\ toRefresh \subseteq Checks /\ initFailed \subseteq Checks /\ changed \subseteq Checks
  /\ initialized \in Seq(Check)
  /\ config \in [Checks -> [state: States, version: Nat]]
  /\ previousIndex \in Int /\ storeIndex \in Nat
  /\ cache \in [Discovered -> Cached] /\ templates \subseteq Discovered
  /\ signals \in Nat /\ failures \in Nat

\* However full and partial reloads follow each other, no check is twice in the
\* list of checks to run: its metrics would be submitted twice.
OnePerName ==
  \A i, j \in DOMAIN initialized : initialized[i].name = initialized[j].name => i = j

\* A check is reported as running or as failed to initialize, never as both, whatever full
\* and partial reloads it went through.  Only one that datadog.conf still configures the old
\* way is reported as failed all the same.
RunningOrFailed == Names(initialized) \cap initFailed \subseteq Deprecated

\* SIGTERM ends the loop, wherever it comes, unless the loop or the handler waits for a
\* thread of a check that never ends.
TermExits == ~runForever ~> Dead \/ Stuck

\* A configuration announced by an event of a container whose image is in the cache, or by
\* a template that changed since the last crawl, is the one the check runs with in the end,
\* unless docker or the store fails meanwhile, or the configuration changes again.
\* Container events must cease some day: one in each run keeps the templates from being
\* crawled.
ChangesLoaded ==
  <>[](changed = {} /\ ~removed) =>
    \A c \in Discovered, v \in 0..MaxChanges, n \in 0..MaxFailures :
      (/\ config[c] = [state |-> "good", version |-> v] /\ failures = n
       /\ \/ c \in changed /\ cache[c] = "check"
          \/ storeIndex # previousIndex /\ previousIndex # -1)
      ~> (\/ Dead \/ Stuck \/ config[c].version # v \/ failures # n
          \/ \E i \in DOMAIN initialized :
               initialized[i].name = c /\ initialized[i].version = v)

\* "Scheduling configuration reload before next collection run": the full reload a SIGHUP
\* asks for takes place, or the agent ends, if the signal comes between the copy of the flag
\* of service discovery and the next reload.  One that comes later, until that copy, is
\* forgotten when the flag is cleared or overwritten.
SighupHeeded ==
  (hup /\ reloadFlag.all /\ pc \in {"restart", "top", "isinstance", "partial", "reload"})
    ~> (~hup \/ Dead \/ Stuck)
=============================================================================
