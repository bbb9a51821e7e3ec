-------------------------- MODULE CollectorRunProofs --------------------------
(***************************************************************************)
(* Nothing that a check submits is posted twice, for any list of checks,   *)
(* any instances and intervals and any number of runs.                     *)
(***************************************************************************)
EXTENDS CollectorRun, TLAPS

(* The assumption on the list of checks. *)
LEMMA CheckList ==
  /\ Checks \in Seq(Names) /\ Len(Checks) \in Nat /\ DOMAIN Checks = 1..Len(Checks)
  /\ \A n \in 1..Len(Checks) : Checks[n] \in Names
  /\ \A m, n \in 1..Len(Checks) : Checks[m] = Checks[n] => m = n
<1>1. /\ Checks \in Seq(Names)
      /\ \A m, n \in DOMAIN Checks : Checks[m] = Checks[n] => m = n
  BY CollectorRunAssumption
<1>2. Len(Checks) \in Nat /\ DOMAIN Checks = 1..Len(Checks)
  BY <1>1
<1> QED BY <1>1, <1>2 DEF Names

-----------------------------------------------------------------------------
(* The inductive invariant. *)

Phases == {"idle", "old_checks", "check", "instance", "collect", "status", "failed",
           "metadata", "emit", "post", "raised", "metadata_error"}

TypeInv ==
  /\ pc \in Phases /\ run \in Nat /\ k \in Nat \ {0} /\ i \in Nat
  /\ pc \in {"instance", "collect", "status"} => k \in 1..Len(Checks)
  /\ metrics \in [Names -> SUBSET Origin]
  /\ events \in [Names -> SUBSET Origin]
  /\ serviceChecks \in [Names -> SUBSET Origin]

\* What a check keeps was submitted by its own instances, in no later run.
Own(store) == \A c \in Names : \A o \in store[c] : o[2] = c /\ o[1] <= run

OwnInv == Own(metrics) /\ Own(events) /\ Own(serviceChecks)

\* Nothing comes from a later run; what was posted comes from an earlier one, while a run
\* goes on.
SentInv ==
  /\ \A x \in payload \cup sent : x[2][1] \in Nat /\ x[2][1] <= run
  /\ pc # "idle" => \A x \in sent : x[2][1] < run

\* What the payload has of this run comes from the checks that were passed, and from the
\* current one once it was collected.
Passed == IF pc = "status" THEN k ELSE k - 1

PassedInv ==
  pc \in {"old_checks", "check", "instance", "collect", "status"} =>
    \A x \in payload : x[2][1] = run =>
      \E n \in 1..Passed : n <= Len(Checks) /\ x[2][2] = Checks[n]

Inv == TypeInv /\ OwnInv /\ SentInv /\ PassedInv /\ PostedOnce

(* In the phases that work on a check, it is one of the list. *)
LEMMA CheckType ==
  ASSUME TypeInv, pc \in {"instance", "collect", "status"}
  PROVE  Check \in Names /\ k \in 1..Len(Checks)
BY CheckList DEF TypeInv, Check

(* An instance submits what neither the payload nor a post has. *)
LEMMA OriginFresh ==
  ASSUME Inv, pc = "instance", NEW kind
  PROVE  <<kind, <<run, Check, i>>>> \notin payload \cup sent
<1> DEFINE x == <<kind, <<run, Check, i>>>>
<1>1. x[2][1] = run /\ x[2][2] = Check
  OBVIOUS
<1>2. x \notin sent
  BY <1>1 DEF Inv, SentInv, TypeInv
<1>3. x \notin payload
  <2> SUFFICES ASSUME x \in payload PROVE FALSE
    OBVIOUS
  <2>1. PICK n \in 1..k - 1 : n <= Len(Checks) /\ Check = Checks[n]
    BY <1>1 DEF Inv, PassedInv, Passed
  <2>2. k \in 1..Len(Checks) /\ n \in 1..Len(Checks) /\ n # k
    BY <2>1, CheckType, CheckList DEF Inv, TypeInv
  <2> QED BY <2>1, <2>2, CheckList DEF Check
<1> QED BY <1>2, <1>3

(* Steps that keep the stores and the payload, and go on from one phase to another. *)
LEMMA MovesOn ==
  ASSUME Inv, UNCHANGED <<metrics, events, serviceChecks, run, payload, sent>>,
         pc' \in Phases, k' = k, i' \in Nat,
         pc' \in {"instance", "collect"} => k \in 1..Len(Checks), pc' # "status",
         pc' = "idle" \/ pc # "idle",
         pc' \in {"old_checks", "check", "instance", "collect"} =>
           pc \in {"old_checks", "check", "instance", "collect"}
  PROVE  Inv'
<1>1. TypeInv' /\ OwnInv' /\ SentInv'
  BY DEF Inv, TypeInv, OwnInv, Own, SentInv
<1>2. PassedInv'
  BY DEF Inv, PassedInv, Passed
<1>3. PostedOnce'
  BY DEF Inv, PostedOnce
<1> QED BY <1>1, <1>2, <1>3 DEF Inv

(* A new run starts with an empty payload. *)
LEMMA RunKeeps == Inv /\ Run => Inv'
<1> SUFFICES ASSUME Inv, Run PROVE Inv'
  OBVIOUS
<1>1. /\ pc' = "old_checks" /\ run' = run + 1 /\ k' = 1 /\ i' = 1 /\ payload' = {} /\ sent' = sent
      /\ UNCHANGED <<metrics, events, serviceChecks>> /\ run \in Nat
  BY DEF Run, storeVars, history, Inv, TypeInv
<1>2. TypeInv' /\ OwnInv'
  BY <1>1 DEF Inv, TypeInv, OwnInv, Own, Phases, Origin
<1>3. SentInv' /\ PassedInv'
  BY <1>1 DEF Inv, SentInv, PassedInv
<1>4. PostedOnce'
  BY <1>1 DEF Inv, PostedOnce
<1> QED BY <1>2, <1>3, <1>4 DEF Inv

(* What an instance submits goes to its check, whether its exception, if it raises one, is
   caught or leaves run(). *)
LEMMA SubmitKeeps ==
  ASSUME Inv, pc = "instance", pc' \in {"instance", "status"}, i' \in Nat,
         metrics' = [metrics EXCEPT ![Check] = @ \cup {Current}],
         events' = [events EXCEPT ![Check] = @ \cup {Current}],
         serviceChecks' = [serviceChecks EXCEPT ![Check] = @ \cup {Current}],
         UNCHANGED <<run, k, payload, sent>>
  PROVE  Inv'
<1> DEFINE o == <<run, Check, i>>
<1>1. /\ metrics' = [metrics EXCEPT ![Check] = @ \cup {o}]
      /\ events' = [events EXCEPT ![Check] = @ \cup {o}]
      /\ serviceChecks' = [serviceChecks EXCEPT ![Check] = @ \cup {o}]
  BY DEF Current
<1>2. Check \in Names /\ o \in Origin /\ o[2] = Check /\ o[1] <= run /\ k \in 1..Len(Checks)
  BY CheckType DEF Inv, TypeInv, Origin
<1>3. TypeInv'
  BY <1>1, <1>2 DEF Inv, TypeInv, Phases
<1>4. OwnInv'
  BY <1>1, <1>2 DEF Inv, TypeInv, OwnInv, Own
<1>5. SentInv'
  BY DEF Inv, SentInv
<1>7. PassedInv'
  <2> SUFFICES ASSUME NEW x \in payload, x[2][1] = run
               PROVE  \E n \in 1..Passed' : n <= Len(Checks) /\ x[2][2] = Checks[n]
    BY DEF PassedInv
  <2>1. PICK n \in 1..k - 1 : n <= Len(Checks) /\ x[2][2] = Checks[n]
    BY DEF Inv, PassedInv, Passed
  <2>2. n \in 1..Passed'
    BY <1>2, <2>1, CheckList DEF Passed
  <2> QED BY <2>1, <2>2
<1>6. PostedOnce'
  <2>1. \A kind \in Kinds : <<kind, o>> \notin payload \cup sent
    BY OriginFresh
  <2>2. payload \cap sent = {}
    BY DEF Inv, PostedOnce
  <2> SUFFICES ASSUME NEW c \in Names
               PROVE  /\ Tagged("metric", metrics'[c]) \cap (payload \cup sent) = {}
                      /\ Tagged("event", events'[c]) \cap (payload \cup sent) = {}
                      /\ Tagged("service_check", serviceChecks'[c]) \cap (payload \cup sent) = {}
    BY <2>2 DEF PostedOnce
  <2>3. /\ metrics'[c] \subseteq metrics[c] \cup {o} /\ events'[c] \subseteq events[c] \cup {o}
        /\ serviceChecks'[c] \subseteq serviceChecks[c] \cup {o}
    BY <1>1 DEF Inv, TypeInv
  <2>4. /\ Tagged("metric", metrics[c]) \cap (payload \cup sent) = {}
        /\ Tagged("event", events[c]) \cap (payload \cup sent) = {}
        /\ Tagged("service_check", serviceChecks[c]) \cap (payload \cup sent) = {}
    BY DEF Inv, PostedOnce
  <2> QED BY <2>1, <2>3, <2>4 DEF Tagged, Kinds
<1> QED BY <1>3, <1>4, <1>5, <1>6, <1>7 DEF Inv

(* The check method of an instance returns or raises. *)
LEMMA RunInstanceKeeps ==
  ASSUME Inv, NEW ok \in BOOLEAN, NEW warn \in BOOLEAN, NEW meta \in BOOLEAN,
         RunInstance(ok, warn, meta) \/ InstanceEscapes(warn, meta)
  PROVE  Inv'
<1>1. i \in Nat
  BY DEF Inv, TypeInv
<1>2. CASE RunInstance(ok, warn, meta)
  BY <1>1, <1>2, SubmitKeeps DEF RunInstance, CheckInstance, AfterInstance
<1>3. CASE InstanceEscapes(warn, meta)
  BY <1>1, <1>3, SubmitKeeps DEF InstanceEscapes, CheckInstance
<1> QED BY <1>2, <1>3

(* What get_metrics() and get_events() return goes to the payload, and leaves the check. *)
LEMMA CollectKeeps == Inv /\ Collect => Inv'
<1> SUFFICES ASSUME Inv, Collect PROVE Inv'
  OBVIOUS
<1>1. /\ payload' = payload \cup Tagged("metric", metrics[Check]) \cup Tagged("event", events[Check])
      /\ metrics' = [metrics EXCEPT ![Check] = {}]
      /\ events' = [events EXCEPT ![Check] = {}]
      /\ pc = "collect" /\ pc' = "status"
      /\ UNCHANGED <<serviceChecks, run, k, i, sent>>
  BY DEF Collect, EventsLeft, history
<1>2. Check \in Names /\ k \in 1..Len(Checks)
  BY <1>1, CheckType DEF Inv
<1>3. TypeInv'
  BY <1>1, <1>2 DEF Inv, TypeInv, Phases
<1>4. OwnInv'
  BY <1>1, <1>2 DEF Inv, TypeInv, OwnInv, Own
<1>5. \A o \in metrics[Check] \cup events[Check] :
        o[1] \in Nat /\ o[1] <= run /\ o[2] = Check
  BY <1>2 DEF Inv, TypeInv, OwnInv, Own, Origin
<1>6. SentInv'
  <2>1. \A x \in payload' \ payload : x[2][1] \in Nat /\ x[2][1] <= run
    BY <1>1, <1>5 DEF Tagged
  <2> QED BY <1>1, <2>1 DEF Inv, SentInv
<1>7. PassedInv'
  <2> SUFFICES ASSUME NEW x \in payload', x[2][1] = run
               PROVE  \E n \in 1..k : n <= Len(Checks) /\ x[2][2] = Checks[n]
    BY <1>1 DEF PassedInv, Passed
  <2>1. CASE x \in payload
    <3>1. PICK n \in 1..k - 1 : n <= Len(Checks) /\ x[2][2] = Checks[n]
      BY <1>1, <2>1 DEF Inv, PassedInv, Passed
    <3>2. n \in 1..k
      BY <1>2, <3>1, CheckList
    <3> QED BY <3>1, <3>2
  <2>2. CASE x \notin payload
    <3>1. x[2][2] = Checks[k]
      BY <1>1, <1>5, <2>2 DEF Tagged, Check
    <3> QED BY <1>2, <3>1, CheckList
  <2> QED BY <2>1, <2>2
<1>8. PostedOnce'
  <2>1. /\ Tagged("metric", metrics[Check]) \cap sent = {}
        /\ Tagged("event", events[Check]) \cap sent = {}
        /\ payload \cap sent = {}
    BY <1>1, <1>2 DEF Inv, PostedOnce
  <2>2. payload' \cap sent' = {}
    BY <1>1, <2>1
  <2>3. ASSUME NEW c \in Names
        PROVE  /\ Tagged("metric", metrics'[c]) \cap (payload' \cup sent') = {}
               /\ Tagged("event", events'[c]) \cap (payload' \cup sent') = {}
               /\ Tagged("service_check", serviceChecks'[c]) \cap (payload' \cup sent') = {}
    <3>1. /\ Tagged("metric", metrics[c]) \cap (payload \cup sent) = {}
          /\ Tagged("event", events[c]) \cap (payload \cup sent) = {}
          /\ Tagged("service_check", serviceChecks[c]) \cap (payload \cup sent) = {}
      BY DEF Inv, PostedOnce
    <3>2. CASE c = Check
      <4>1. metrics'[c] = {} /\ events'[c] = {}
        BY <1>1, <1>2, <3>2 DEF Inv, TypeInv
      <4> QED BY <1>1, <3>1, <4>1 DEF Tagged
    <3>3. CASE c # Check
      <4>1. metrics'[c] = metrics[c] /\ events'[c] = events[c]
        BY <1>1, <3>3 DEF Inv, TypeInv
      <4>2. \A o \in metrics[c] \cup events[c] : o \notin metrics[Check] \cup events[Check]
        BY <1>2, <3>3 DEF Inv, OwnInv, Own
      <4> QED BY <1>1, <3>1, <4>1, <4>2 DEF Tagged
    <3> QED BY <3>2, <3>3
  <2> QED BY <2>2, <2>3 DEF PostedOnce
<1> QED BY <1>3, <1>4, <1>6, <1>7, <1>8 DEF Inv

(* What a failing get_metrics() leaves with the check was not posted either. *)
LEMMA CollectRaisesKeeps == Inv /\ CollectRaises => Inv'
<1> SUFFICES ASSUME Inv, CollectRaises PROVE Inv'
  OBVIOUS
<1>1. PICK kept \in SUBSET metrics[Check] : metrics' = [metrics EXCEPT ![Check] = kept]
  BY DEF CollectRaises
<1>2. /\ pc = "collect" /\ pc' = "status"
      /\ UNCHANGED <<events, serviceChecks, run, payload, k, i, sent>>
  BY DEF CollectRaises, localVars
<1>3. Check \in Names /\ k \in 1..Len(Checks)
  BY <1>2, CheckType DEF Inv
<1>4. \A c \in Names : metrics'[c] \subseteq metrics[c]
  BY <1>1, <1>3 DEF Inv, TypeInv
<1>5. TypeInv'
  BY <1>1, <1>2, <1>3, <1>4 DEF Inv, TypeInv, Phases
<1>6. OwnInv' /\ SentInv'
  BY <1>2, <1>4 DEF Inv, OwnInv, Own, SentInv
<1>8. PassedInv'
  <2> SUFFICES ASSUME NEW x \in payload, x[2][1] = run
               PROVE  \E n \in 1..k : n <= Len(Checks) /\ x[2][2] = Checks[n]
    BY <1>2 DEF PassedInv, Passed
  <2>1. PICK n \in 1..k - 1 : n <= Len(Checks) /\ x[2][2] = Checks[n]
    BY <1>2 DEF Inv, PassedInv, Passed
  <2>2. n \in 1..k
    BY <1>3, <2>1, CheckList
  <2> QED BY <2>1, <2>2
<1>7. PostedOnce'
  <2>1. \A c \in Names : Tagged("metric", metrics'[c]) \subseteq Tagged("metric", metrics[c])
    BY <1>4 DEF Tagged
  <2> QED BY <1>2, <2>1 DEF Inv, PostedOnce
<1> QED BY <1>5, <1>6, <1>7, <1>8 DEF Inv

(* get_service_checks(): the same for the service checks, with one for the check. *)
LEMMA SaveStatusKeeps == Inv /\ SaveStatus => Inv'
<1> SUFFICES ASSUME Inv, SaveStatus PROVE Inv'
  OBVIOUS
<1> DEFINE own == <<StatusOf(instanceStatuses), <<run, Check>>>>
<1>1. /\ payload' = payload \cup Tagged("service_check", serviceChecks[Check]) \cup {own}
      /\ serviceChecks' = [serviceChecks EXCEPT ![Check] = {}]
      /\ pc = "status" /\ pc' = "check" /\ k' = k + 1
      /\ UNCHANGED <<metrics, events, run, i, sent>>
  BY DEF SaveStatus, history
<1>2. Check \in Names /\ k \in 1..Len(Checks) /\ Check = Checks[k]
  BY <1>1, CheckType DEF Inv, Check
<1>3. StatusOf(instanceStatuses) \in {"OK", "CRITICAL"}
  BY DEF StatusOf
<1>4. \A o \in serviceChecks[Check] : o[1] \in Nat /\ o[1] <= run /\ o[2] = Check
  BY <1>2 DEF Inv, TypeInv, OwnInv, Own, Origin
<1>5. own[2][1] = run /\ own[2][2] = Check /\ own[1] \in {"OK", "CRITICAL"}
  BY <1>3
<1> HIDE DEF own
<1>6. \A x \in payload' \ payload : x[2][1] \in Nat /\ x[2][1] <= run /\ x[2][2] = Check
  <2>1. run \in Nat
    BY DEF Inv, TypeInv
  <2>2. \A x \in Tagged("service_check", serviceChecks[Check]) :
          x[2][1] \in Nat /\ x[2][1] <= run /\ x[2][2] = Check
    BY <1>4 DEF Tagged
  <2> QED BY <1>1, <1>5, <2>1, <2>2
<1>7. TypeInv'
  BY <1>1, <1>2 DEF Inv, TypeInv, Phases
<1>8. OwnInv'
  BY <1>1, <1>2 DEF Inv, TypeInv, OwnInv, Own
<1>9. SentInv'
  BY <1>1, <1>6 DEF Inv, SentInv
<1>10. PassedInv'
  <2>1. \A x \in payload : x[2][1] = run => \E n \in 1..k : n <= Len(Checks) /\ x[2][2] = Checks[n]
    BY <1>1 DEF Inv, PassedInv, Passed
  <2>2. 1..k' - 1 = 1..k
    BY <1>1, <1>2, CheckList
  <2> QED BY <1>1, <1>2, <1>6, <2>1, <2>2, CheckList DEF PassedInv, Passed
<1>11. PostedOnce'
  <2>1. own \notin sent
    BY <1>1, <1>5 DEF Inv, SentInv, TypeInv
  <2>2. Tagged("service_check", serviceChecks[Check]) \cap sent = {} /\ payload \cap sent = {}
    BY <1>1, <1>2 DEF Inv, PostedOnce
  <2>3. payload' \cap sent' = {}
    BY <1>1, <2>1, <2>2
  <2>4. ASSUME NEW c \in Names
        PROVE  /\ Tagged("metric", metrics'[c]) \cap (payload' \cup sent') = {}
               /\ Tagged("event", events'[c]) \cap (payload' \cup sent') = {}
               /\ Tagged("service_check", serviceChecks'[c]) \cap (payload' \cup sent') = {}
    <3>1. /\ Tagged("metric", metrics[c]) \cap (payload \cup sent) = {}
          /\ Tagged("event", events[c]) \cap (payload \cup sent) = {}
          /\ Tagged("service_check", serviceChecks[c]) \cap (payload \cup sent) = {}
      BY DEF Inv, PostedOnce
    <3>2. \A kind \in Kinds : \A o : <<kind, o>> # own
      BY <1>5 DEF Kinds
    <3>3. CASE c = Check
      <4>1. serviceChecks'[c] = {}
        BY <1>1, <1>2, <3>3 DEF Inv, TypeInv
      <4> QED BY <1>1, <3>1, <3>2, <4>1 DEF Tagged, Kinds
    <3>4. CASE c # Check
      <4>1. serviceChecks'[c] = serviceChecks[c]
        BY <1>1, <3>4 DEF Inv, TypeInv
      <4>2. \A o \in serviceChecks[c] : o \notin serviceChecks[Check]
        BY <1>2, <3>4 DEF Inv, OwnInv, Own
      <4> QED BY <1>1, <3>1, <3>2, <4>1, <4>2 DEF Tagged, Kinds
    <3> QED BY <3>3, <3>4
  <2> QED BY <2>3, <2>4 DEF PostedOnce
<1> QED BY <1>7, <1>8, <1>9, <1>10, <1>11 DEF Inv

(* The payload is posted at the end of a run, and the next run makes a new one. *)
LEMMA PostKeeps == Inv /\ Post => Inv'
<1> SUFFICES ASSUME Inv, Post PROVE Inv'
  OBVIOUS
<1>1. /\ sent' = sent \cup payload /\ pc' = "idle"
      /\ UNCHANGED <<metrics, events, serviceChecks, run, k, i, payload>>
  BY DEF Post, storeVars, localVars
<1>2. TypeInv' /\ OwnInv'
  BY <1>1 DEF Inv, TypeInv, OwnInv, Own, Phases
<1>3. SentInv' /\ PassedInv'
  BY <1>1 DEF Inv, SentInv, PassedInv
<1>4. PostedOnce'
  BY <1>1 DEF Inv, PostedOnce
<1> QED BY <1>2, <1>3, <1>4 DEF Inv

(* Every step of the collector keeps the invariant. *)
LEMMA InvNext == Inv /\ [Next]_vars => Inv'
<1> SUFFICES ASSUME Inv, [Next]_vars PROVE Inv'
  OBVIOUS
<1>0. run \in Nat /\ k \in Nat /\ i \in Nat
  BY DEF Inv, TypeInv
<1>1. CASE OldChecks \/ OldCheckRaises \/ Return
  <2>1. /\ UNCHANGED <<metrics, events, serviceChecks, run, payload, sent, k, i>>
        /\ pc' \in {"check", "raised", "idle"}
        /\ pc \in {"old_checks", "check", "failed"} /\ (pc' = "check" => pc = "old_checks")
    BY <1>1 DEF OldChecks, OldCheckRaises, Return, storeVars, localVars, history
  <2> QED BY <1>0, <2>1, MovesOn DEF Phases
<1>2. CASE BeginCheck \/ EndChecks
  <2>1. /\ UNCHANGED <<metrics, events, serviceChecks, run, payload, sent, k>> /\ i' \in Nat
        /\ pc = "check" /\ pc' \in {"instance", "failed"}
        /\ pc' = "instance" => k <= Len(Checks)
    BY <1>0, <1>2 DEF BeginCheck, EndChecks, storeVars, localVars, history
  <2>2. k >= 1
    BY DEF Inv, TypeInv
  <2> QED BY <1>0, <2>1, <2>2, MovesOn, CheckList DEF Phases
<1>3. CASE SkipInstance \/ EndInstances
  <2>1. /\ UNCHANGED <<metrics, events, serviceChecks, run, payload, sent, k>> /\ i' \in Nat
        /\ pc = "instance" /\ pc' \in {"instance", "collect"}
    BY <1>0, <1>3 DEF SkipInstance, EndInstances, storeVars, localVars, history
  <2>2. k \in 1..Len(Checks)
    BY <2>1 DEF Inv, TypeInv
  <2> QED BY <2>1, <2>2, MovesOn DEF Phases
<1>4. CASE \/ NameError \/ LibraryInfoRaises \/ EndFailed \/ HostTagsRaise \/ Emit \/ Stop
           \/ \E send \in BOOLEAN : Populate(send)
  <2>1. /\ UNCHANGED <<metrics, events, serviceChecks, run, payload, sent, k, i>>
        /\ \/ pc' \in {"metadata_error", "raised", "metadata", "emit", "post", "idle"} /\ pc # "idle"
           \/ pc' = pc
    BY <1>4 DEF NameError, LibraryInfoRaises, EndFailed, HostTagsRaise, Emit, Stop, Populate,
                storeVars, localVars, history
  <2>2. CASE pc' = pc
    BY <2>1, <2>2 DEF Inv, TypeInv, OwnInv, Own, SentInv, PassedInv, Passed, PostedOnce
  <2>3. CASE pc' # pc
    BY <1>0, <2>1, <2>3, MovesOn DEF Phases
  <2> QED BY <2>2, <2>3
<1>5. ASSUME NEW c \in FailedChecks, FailedCheck(c) PROVE Inv'
  <2>1. /\ UNCHANGED <<metrics, events, serviceChecks, run, payload, sent, k, i, pc>>
        /\ pc = "failed"
    BY <1>5 DEF FailedCheck, storeVars, history
  <2> QED BY <1>0, <2>1, MovesOn DEF Phases
<1>6. CASE UNCHANGED vars
  BY <1>6 DEF vars, storeVars, localVars, history, Inv, TypeInv, OwnInv, Own, SentInv,
              PassedInv, Passed, PostedOnce
<1> QED
  BY <1>1, <1>2, <1>3, <1>4, <1>5, <1>6, RunKeeps, RunInstanceKeeps, CollectKeeps,
     CollectRaisesKeeps, SaveStatusKeeps, PostKeeps
  DEF Next, Step

(* Nothing was submitted or posted at first. *)
LEMMA InvInit == Init => Inv
<1> SUFFICES ASSUME Init PROVE Inv
  OBVIOUS
<1>1. TypeInv
  BY DEF Init, TypeInv, Phases
<1>2. OwnInv /\ SentInv /\ PassedInv
  BY DEF Init, OwnInv, Own, SentInv, PassedInv
<1>3. PostedOnce
  BY DEF Init, PostedOnce, Tagged
<1> QED BY <1>1, <1>2, <1>3 DEF Inv

(* What the checks keep is their own; the payload of a run comes from the checks passed so
   far, and what was posted from earlier runs. *)
THEOREM InvariantHolds == Spec => []Inv
BY InvInit, InvNext, PTL DEF Spec

(* No metric, event or service check is posted twice, whatever instances, checks or
   get_metrics() raise, and wherever SIGTERM ends a run. *)
THEOREM NothingPostedTwice == Spec => []PostedOnce
<1>1. Inv => PostedOnce
  BY DEF Inv
<1> QED BY <1>1, InvariantHolds, PTL

-----------------------------------------------------------------------------
(* What a payload says of its checks: a second inductive invariant, on top of Inv. *)

Status == [id : Nat, status : {"OK", "WARNING", "ERROR"}, warnings : SUBSET Origin]
Metadata == Seq(SUBSET Origin)

StoreType ==
  /\ warnings \in [Names -> SUBSET Origin]
  /\ svcMetadata \in [Names -> Metadata]
  /\ lastCollection = [c \in Names |-> lastCollection[c]]
  /\ \A c \in Names : lastCollection[c] \in [Instances(c) -> Nat]
  /\ raised \subseteq Origin

LocalType ==
  /\ instanceStatuses \in Seq(Status)
  /\ metadata \in [bound : BOOLEAN, of : Metadata]
  /\ checkStatuses \in Seq([check : Names \cup FailedChecks, statuses : Seq(Status),
                            metadata : Metadata])

\* A run is past its checks when it has a payload.
EndInv == pc \in {"failed", "metadata", "emit", "post"} => k > Len(Checks)

InRun == pc \in {"old_checks", "check", "instance", "collect", "status", "failed", "metadata",
                 "emit", "post"}

\* The run has dealt with instance m of check number n.
Visited(n, m) ==
  \/ n < k
  \/ (n = k /\ pc \in {"collect", "status"})
  \/ (n = k /\ pc = "instance" /\ m < i)

\* An instance ran or was not due, or an exception left run() of its check.
Settled(n, m) ==
  LET last == lastCollection[Checks[n]][m]
  IN  last = run \/ ~Due(last, Interval[Checks[n]][m]) \/ <<run, Checks[n]>> \in aborted

\* This is so of the instances dealt with; the others did not run yet.
VisitInv ==
  \A n \in 1..Len(Checks) : \A m \in Instances(Checks[n]) :
    LET last == lastCollection[Checks[n]][m]
    IN  /\ last <= run
        /\ Visited(n, m) => Settled(n, m)
        /\ InRun /\ ~Visited(n, m) => last < run

\* What an instance that ran submitted is on its way to the payload.
PayloadInv ==
  \A n \in 1..Len(Checks) : \A m \in Instances(Checks[n]) :
    LET c == Checks[n]
        o == <<run, c, m>>
    IN  lastCollection[c][m] = run /\ <<run, c>> \notin uncollected =>
          /\ n < k => \A kind \in Kinds : <<kind, o>> \in payload
          /\ n = k /\ pc \in {"instance", "collect"} =>
               o \in metrics[c] /\ o \in events[c] /\ o \in serviceChecks[c]
          /\ n = k /\ pc = "status" =>
               <<"metric", o>> \in payload /\ <<"event", o>> \in payload /\ o \in serviceChecks[c]

\* What raised in this run did run in it.
Failing(c) == \E m \in Instances(c) : <<run, c, m>> \in raised

Critical(c) == Failing(c) /\ <<run, c>> \notin aborted

\* An exception left run() only of checks that were passed, or of the one to be passed next.
AbortedInv ==
  /\ \A x \in aborted : x[1] \in Nat /\ x[1] <= run
  /\ InRun => \A n \in 1..Len(Checks) :
       <<run, Checks[n]>> \in aborted => n < k \/ (n = k /\ pc = "status")

RaisedInv ==
  /\ \A o \in raised : o[1] <= run
  /\ \A c \in Names : \A m \in Instances(c) : <<run, c, m>> \in raised => lastCollection[c][m] = run

\* The statuses of the current check tell whether one of its instances raised, and the payload
\* tells it of the checks before.
StatusInv ==
  /\ pc \in {"instance", "collect", "status"} =>
       ((\E j \in DOMAIN instanceStatuses : instanceStatuses[j].status = "ERROR") <=> Critical(Check))
  /\ \A n \in 1..Len(Checks) :
       /\ <<"CRITICAL", <<run, Checks[n]>>>> \in payload <=> n < k /\ Critical(Checks[n])
       /\ <<"OK", <<run, Checks[n]>>>> \in payload <=> n < k /\ ~Critical(Checks[n])

\* The warnings a check keeps between two instances are those of its instances that raised.
WarningsInv == \A c \in Names : \A w \in warnings[c] : w[2] = c /\ w \in raised

\* The metadata of a check is taken at every run, unless it cannot be collected.
Clean(c, r) == svcMetadata[c] = <<>> \/ <<r, c>> \in uncollected

CleanInv ==
  /\ InRun => \A n \in 1..Len(Checks) :
       /\ n < k => Clean(Checks[n], run)
       /\ n > k \/ (n = k /\ pc \in {"old_checks", "check"}) => Clean(Checks[n], run - 1)
       /\ n = k /\ pc = "status" => Clean(Checks[n], run)
  /\ pc = "idle" /\ continueRunning => \A c \in Names : Clean(c, run)

\* While no instance was skipped, the entries of the metadata are those of the statuses.
Matches(c, md) ==
  /\ Len(md) = Len(instanceStatuses)
  /\ \A j \in 1..Len(instanceStatuses) : md[j] \subseteq {<<run, c, instanceStatuses[j].id>>}

Skipped(c) == \E m \in Instances(c) : lastCollection[c][m] # run
SkippedSoFar == \E m \in Instances(Check) : m < i /\ lastCollection[Check][m] # run

RollUpInv ==
  /\ pc \in {"instance", "collect"} =>
       /\ Len(instanceStatuses) <= Len(svcMetadata[Check])
       /\ <<run - 1, Check>> \in uncollected \/ SkippedSoFar \/ Matches(Check, svcMetadata[Check])
  /\ pc = "status" =>
       \/ <<run, Check>> \in uncollected
       \/ /\ metadata.bound /\ Len(instanceStatuses) <= Len(metadata.of)
          /\ <<run - 1, Check>> \in uncollected \/ Skipped(Check) \/ Matches(Check, metadata.of)

Excused(c) ==
  \/ Skipped(c)
  \/ <<run, c>> \in uncollected
  \/ <<run - 1, c>> \in uncollected

\* What the run keeps of the checks it passed.
CheckStatusOK(s) ==
  /\ LongEnough(s) \/ \E c \in Names : <<run, c>> \in uncollected
  /\ \/ \E n \in 1..Len(Checks) : n < k /\ s.check = Checks[n] /\ Excused(s.check)
     \/ \A j \in 1..Len(s.statuses) : s.metadata[j] \subseteq {<<run, s.check, s.statuses[j].id>>}

CheckStatusesInv == \A n \in 1..Len(checkStatuses) : CheckStatusOK(checkStatuses[n])

ReportInv ==
  /\ StoreType /\ LocalType /\ EndInv
  /\ VisitInv /\ PayloadInv /\ AbortedInv
  /\ RaisedInv /\ StatusInv
  /\ WarningsInv /\ WarningsOwn
  /\ CleanInv /\ RollUpInv /\ CheckStatusesInv /\ MetadataOwn
  /\ MetadataFits

(* The assumption on the instances and their intervals. *)
LEMMA InstanceList ==
  /\ NbInstances \in [Names -> Nat]
  /\ \A c \in Names : NbInstances[c] \in Nat /\ Instances(c) \subseteq Nat \ {0}
  /\ \A c \in Names : Interval[c] \in [Instances(c) -> Nat]
<1>1. /\ NbInstances \in [Names -> Nat]
      /\ \A c \in Names : Interval[c] \in [Instances(c) -> Nat]
  BY CollectorRunAssumption
<1>2. \A c \in Names : NbInstances[c] \in Nat /\ Instances(c) \subseteq Nat \ {0}
  BY <1>1 DEF Instances
<1> QED BY <1>1, <1>2

(* A name is that of one check of the list. *)
LEMMA NameNumber ==
  \A c \in Names : \E n \in 1..Len(Checks) : c = Checks[n]
BY CheckList DEF Names

\* The steps that only go on from a phase to another.
Goes ==
  \/ pc = "old_checks" /\ pc' = "check"
  \/ pc \in {"old_checks", "status", "metadata"} /\ pc' = "raised"
  \/ pc \in {"check", "failed", "emit"} /\ pc' = "idle" /\ ~continueRunning
  \/ pc = "check" /\ pc' = "failed" /\ k > Len(Checks)
  \/ pc = "instance" /\ pc' = "collect" /\ i > NbInstances[Check]
  \/ pc = "status" /\ pc' = "metadata_error" /\ ~metadata.bound
  \/ pc = "failed" /\ pc' = "metadata"
  \/ pc = "emit" /\ pc' = "post"
  \/ pc = "post" /\ pc' = "idle"
  \/ pc' = pc

(* They keep what the run knows of its checks. *)
LEMMA ReportMovesOn ==
  ASSUME Inv, ReportInv, Goes, continueRunning' => continueRunning,
         UNCHANGED <<storeVars, localVars, run, payload, agentChecks, raised, uncollected,
                     aborted>>
  PROVE  ReportInv'
<1>1. UNCHANGED <<metrics, events, serviceChecks, warnings, svcMetadata, lastCollection, k, i,
                  instanceStatuses, metadata, checkStatuses, run, payload, agentChecks, raised,
                  uncollected, aborted>>
  BY DEF storeVars, localVars
<1>2. StoreType' /\ LocalType'
  BY <1>1 DEF ReportInv, StoreType, LocalType
<1>3. EndInv'
  BY <1>1 DEF ReportInv, EndInv, Goes
<1>4. pc' = "collect" /\ pc # pc' => \A m \in Instances(Check) : m < i
  <2> SUFFICES ASSUME pc' = "collect", pc # pc', NEW m \in Instances(Check) PROVE m < i
    OBVIOUS
  <2>1. pc = "instance" /\ i > NbInstances[Check]
    BY DEF Goes
  <2>2. Check \in Names /\ i \in Nat
    BY <2>1, CheckType DEF Inv, TypeInv
  <2> QED BY <2>1, <2>2, InstanceList DEF Instances
<1>5. VisitInv'
  <2> SUFFICES ASSUME NEW n \in 1..Len(Checks), NEW m \in Instances(Checks[n])
               PROVE  LET last == lastCollection[Checks[n]][m]
                      IN  /\ last <= run
                          /\ Visited(n, m)' => Settled(n, m)'
                          /\ InRun' /\ ~Visited(n, m)' => last < run
    BY <1>1 DEF VisitInv
  <2>1. /\ Visited(n, m)' => Visited(n, m)
        /\ InRun' /\ ~Visited(n, m)' => InRun /\ ~Visited(n, m)
    BY <1>1, <1>4 DEF Goes, Visited, InRun, Check
  <2>2. Settled(n, m)' <=> Settled(n, m)
    BY <1>1 DEF Settled, Due
  <2> QED BY <2>1, <2>2 DEF ReportInv, VisitInv
<1>6. PayloadInv'
  BY <1>1 DEF ReportInv, PayloadInv, Goes
<1>7. RaisedInv' /\ StatusInv'
  BY <1>1 DEF ReportInv, RaisedInv, StatusInv, Critical, Failing, Goes, Check
<1>13. AbortedInv'
  BY <1>1 DEF ReportInv, AbortedInv, InRun, Goes
<1>8. WarningsInv' /\ WarningsOwn'
  BY <1>1 DEF ReportInv, WarningsInv, WarningsOwn, Goes, Check
<1>9. CleanInv'
  <2>1. \A c, r : Clean(c, r)' <=> Clean(c, r)
    BY <1>1 DEF Clean
  <2>2. ASSUME NEW n \in 1..Len(Checks), InRun'
        PROVE  /\ n < k => Clean(Checks[n], run)
               /\ n > k \/ (n = k /\ pc' \in {"old_checks", "check"}) => Clean(Checks[n], run - 1)
               /\ n = k /\ pc' = "status" => Clean(Checks[n], run)
    BY <2>2 DEF ReportInv, CleanInv, Goes, InRun
  <2>3. ASSUME pc' = "idle", continueRunning', NEW c \in Names
        PROVE  Clean(c, run)
    <3>1. CASE pc = "idle"
      BY <2>3, <3>1 DEF ReportInv, CleanInv
    <3>2. CASE pc # "idle"
      <4>1. pc = "post"
        BY <2>3, <3>2 DEF Goes
      <4>2. k > Len(Checks) /\ k \in Nat
        BY <4>1 DEF ReportInv, EndInv, Inv, TypeInv
      <4>3. PICK n \in 1..Len(Checks) : c = Checks[n]
        BY NameNumber
      <4>4. n < k
        BY <4>2, CheckList
      <4> QED BY <4>1, <4>3, <4>4 DEF ReportInv, CleanInv, InRun
    <3> QED BY <3>1, <3>2
  <2> QED BY <1>1, <2>1, <2>2, <2>3 DEF CleanInv
<1>10. RollUpInv'
  BY <1>1 DEF ReportInv, RollUpInv, Goes, Check, SkippedSoFar, Skipped, Matches
<1>11. CheckStatusesInv' /\ MetadataOwn'
  BY <1>1 DEF ReportInv, CheckStatusesInv, CheckStatusOK, LongEnough, Excused, Skipped, MetadataOwn, Goes
<1>12. MetadataFits'
  <2>1. CASE pc = "status" /\ ~metadata.bound /\ pc' = "metadata_error"
    <3>1. <<run, Check>> \in uncollected /\ Check \in Names
      BY <2>1, CheckType DEF ReportInv, RollUpInv, Inv
    <3> QED BY <1>1, <3>1 DEF MetadataFits
  <2>2. CASE pc' # "metadata_error" \/ pc = "metadata_error"
    BY <1>1, <2>2 DEF ReportInv, MetadataFits
  <2> QED BY <2>1, <2>2 DEF Goes
<1> QED
  BY <1>2, <1>3, <1>5, <1>6, <1>7, <1>8, <1>9, <1>10, <1>11, <1>12, <1>13 DEF ReportInv

(* A new run starts from what the last one left. *)
LEMMA ReportRunKeeps == Inv /\ ReportInv /\ Run => ReportInv'
<1> SUFFICES ASSUME Inv, ReportInv, Run PROVE ReportInv'
  OBVIOUS
<1>1. /\ pc = "idle" /\ pc' = "old_checks" /\ run' = run + 1 /\ run \in Nat /\ k' = 1 /\ i' = 1
      /\ instanceStatuses' = <<>> /\ metadata' = Unbound /\ checkStatuses' = <<>>
      /\ payload' = {} /\ agentChecks' = {} /\ continueRunning
      /\ UNCHANGED <<metrics, events, serviceChecks, warnings, svcMetadata, lastCollection,
                     continueRunning, raised, uncollected, aborted>>
  BY DEF Run, storeVars, history, Inv, TypeInv
<1>2. StoreType' /\ LocalType' /\ EndInv'
  BY <1>1 DEF ReportInv, StoreType, LocalType, EndInv, Unbound, Metadata
<1>3. VisitInv'
  <2> SUFFICES ASSUME NEW n \in 1..Len(Checks), NEW m \in Instances(Checks[n])
               PROVE  /\ lastCollection[Checks[n]][m] <= run' /\ lastCollection[Checks[n]][m] < run'
                      /\ ~Visited(n, m)'
    BY <1>1 DEF VisitInv
  <2>1. lastCollection[Checks[n]][m] \in Nat /\ lastCollection[Checks[n]][m] <= run
    BY CheckList DEF ReportInv, StoreType, VisitInv
  <2>2. ~Visited(n, m)'
    BY <1>1, CheckList DEF Visited
  <2> QED BY <1>1, <2>1, <2>2
<1>4. PayloadInv'
  BY <1>1, CheckList DEF PayloadInv
<1>5. \A c, m : <<run', c, m>> \notin raised
  <2>1. \A o \in raised : o[1] \in Nat /\ o[1] <= run
    BY DEF ReportInv, StoreType, RaisedInv, Origin
  <2> QED BY <1>1, <2>1
<1>6. RaisedInv' /\ StatusInv'
  BY <1>1, <1>5, CheckList DEF ReportInv, RaisedInv, StoreType, StatusInv, Origin
<1>7. WarningsInv' /\ WarningsOwn'
  BY <1>1 DEF ReportInv, WarningsInv, WarningsOwn
<1>8. CleanInv'
  BY <1>1, CheckList DEF ReportInv, CleanInv, Clean
<1>9. RollUpInv' /\ CheckStatusesInv' /\ MetadataOwn' /\ MetadataFits'
  BY <1>1 DEF RollUpInv, CheckStatusesInv, MetadataOwn, MetadataFits
<1>10. AbortedInv'
  <2>1. \A x \in aborted : x[1] \in Nat /\ x[1] <= run
    BY DEF ReportInv, AbortedInv
  <2>2. \A c : <<run', c>> \notin aborted
    BY <1>1, <2>1
  <2> QED BY <1>1, <2>1, <2>2 DEF AbortedInv
<1> QED BY <1>2, <1>3, <1>4, <1>6, <1>7, <1>8, <1>9, <1>10 DEF ReportInv

(* A check starts without statuses, and without metadata if it was collected in the last run. *)
LEMMA ReportBeginKeeps == Inv /\ ReportInv /\ BeginCheck => ReportInv'
<1> SUFFICES ASSUME Inv, ReportInv, BeginCheck PROVE ReportInv'
  OBVIOUS
<1>1. /\ pc = "check" /\ pc' = "instance" /\ i' = 1 /\ instanceStatuses' = <<>>
      /\ UNCHANGED <<metrics, events, serviceChecks, warnings, svcMetadata, lastCollection, k,
                     metadata, checkStatuses, run, payload, agentChecks, continueRunning, raised,
                     uncollected, aborted>>
      /\ k \in 1..Len(Checks) /\ Check \in Names /\ Check' = Check /\ Check = Checks[k]
  BY CheckList DEF BeginCheck, storeVars, history, Inv, TypeInv, Check
<1>2. StoreType' /\ LocalType' /\ EndInv'
  BY <1>1 DEF ReportInv, StoreType, LocalType, EndInv
<1>3. \A n \in 1..Len(Checks) : \A m \in Instances(Checks[n]) : Visited(n, m)' <=> Visited(n, m)
  BY <1>1, InstanceList, CheckList DEF Visited
<1>4. \A m \in Instances(Check) : lastCollection[Check][m] \in Nat /\ lastCollection[Check][m] < run
  <2> SUFFICES ASSUME NEW m \in Instances(Check)
               PROVE  lastCollection[Check][m] \in Nat /\ lastCollection[Check][m] < run
    OBVIOUS
  <2>1. InRun /\ ~Visited(k, m)
    BY <1>1, CheckList DEF InRun, Visited
  <2> QED BY <1>1, <2>1 DEF ReportInv, VisitInv, StoreType
<1>5. VisitInv'
  BY <1>1, <1>3 DEF ReportInv, VisitInv, InRun, Settled, Due
<1>6. PayloadInv'
  <2>0. run \in Nat
    BY DEF Inv, TypeInv
  <2>1. \A m \in Instances(Check) : lastCollection[Check][m] # run
    BY <1>4, <2>0
  <2> QED BY <1>1, <2>1 DEF ReportInv, PayloadInv
<1>7. RaisedInv' /\ StatusInv'
  <2>0. run \in Nat
    BY DEF Inv, TypeInv
  <2>1. ~Failing(Check)
    <3> SUFFICES ASSUME NEW m \in Instances(Check), <<run, Check, m>> \in raised PROVE FALSE
      BY DEF Failing
    <3>1. lastCollection[Check][m] = run
      BY <1>1 DEF ReportInv, RaisedInv
    <3> QED BY <1>4, <2>0, <3>1
  <2>2. (\A c : Failing(c)' <=> Failing(c)) /\ DOMAIN instanceStatuses' = {}
    BY <1>1 DEF Failing
  <2>3. ~Critical(Check) /\ \A c : Critical(c)' <=> Critical(c)
    BY <1>1, <2>1, <2>2 DEF Critical
  <2> QED BY <1>1, <2>2, <2>3 DEF ReportInv, RaisedInv, StatusInv
<1>13. AbortedInv'
  BY <1>1 DEF ReportInv, AbortedInv, InRun
<1>8. WarningsInv' /\ WarningsOwn'
  BY <1>1 DEF ReportInv, WarningsInv, WarningsOwn
<1>9. CleanInv'
  BY <1>1 DEF ReportInv, CleanInv, Clean, InRun
<1>10. RollUpInv'
  <2>1. Clean(Check, run - 1)
    BY <1>1, CheckList DEF ReportInv, CleanInv, InRun
  <2>2. Len(svcMetadata[Check]) \in Nat
    BY <1>1 DEF ReportInv, StoreType, Metadata
  <2> QED BY <1>1, <2>1, <2>2 DEF RollUpInv, Clean, Matches
<1>11. CheckStatusesInv' /\ MetadataOwn'
  BY <1>1 DEF ReportInv, CheckStatusesInv, CheckStatusOK, LongEnough, Excused, Skipped, MetadataOwn
<1>12. MetadataFits'
  BY <1>1 DEF MetadataFits
<1> QED BY <1>2, <1>5, <1>6, <1>7, <1>8, <1>9, <1>10, <1>11, <1>12, <1>13 DEF ReportInv

(* The instance that comes next did not run yet in this run. *)
LEMMA NextInstance ==
  ASSUME Inv, ReportInv, pc = "instance", i \in Instances(Check)
  PROVE  /\ Check \in Names /\ Check = Checks[k] /\ k \in 1..Len(Checks)
         /\ k \in Nat /\ i \in Nat /\ run \in Nat
         /\ lastCollection[Check][i] \in Nat /\ lastCollection[Check][i] < run
<1>1. Check \in Names /\ Check = Checks[k] /\ k \in 1..Len(Checks)
  BY CheckType DEF Inv, Check
<1>2. k \in Nat /\ i \in Nat /\ run \in Nat
  BY DEF Inv, TypeInv
<1>3. InRun /\ ~Visited(k, i)
  BY <1>2 DEF InRun, Visited
<1>4. lastCollection[Check][i] \in Nat /\ lastCollection[Check][i] < run
  BY <1>1, <1>3 DEF ReportInv, StoreType, VisitInv
<1> QED BY <1>1, <1>2, <1>4

(* An instance that is not due only gets an entry of empty metadata. *)
LEMMA ReportSkipKeeps == Inv /\ ReportInv /\ SkipInstance => ReportInv'
<1> SUFFICES ASSUME Inv, ReportInv, SkipInstance PROVE ReportInv'
  OBVIOUS
<1>1. /\ pc = "instance" /\ pc' = pc /\ i \in Instances(Check) /\ ~InstanceDue /\ i' = i + 1
      /\ svcMetadata' = [svcMetadata EXCEPT ![Check] = Append(@, {})]
      /\ UNCHANGED <<metrics, events, serviceChecks, warnings, lastCollection, k,
                     instanceStatuses, metadata, checkStatuses, run, payload, agentChecks,
                     continueRunning, raised, uncollected, aborted>>
      /\ Check' = Check
  BY DEF SkipInstance, history, Check
<1>2. /\ Check \in Names /\ Check = Checks[k] /\ k \in 1..Len(Checks)
      /\ k \in Nat /\ i \in Nat /\ run \in Nat
      /\ lastCollection[Check][i] \in Nat /\ lastCollection[Check][i] < run
  BY <1>1, NextInstance
<1>3. /\ svcMetadata[Check] \in Metadata
      /\ svcMetadata'[Check] = Append(svcMetadata[Check], {})
      /\ Len(svcMetadata'[Check]) = Len(svcMetadata[Check]) + 1
      /\ \A c \in Names : c # Check => svcMetadata'[c] = svcMetadata[c]
  <2>1. svcMetadata[Check] \in Metadata /\ svcMetadata'[Check] = Append(svcMetadata[Check], {})
    BY <1>1, <1>2 DEF ReportInv, StoreType
  <2> QED BY <1>1, <2>1 DEF ReportInv, StoreType, Metadata
<1>4. StoreType' /\ LocalType' /\ EndInv'
  <2>1. Append(svcMetadata[Check], {}) \in Metadata
    BY <1>3 DEF Metadata
  <2> QED BY <1>1, <1>2, <2>1 DEF ReportInv, StoreType, LocalType, EndInv
<1>5. VisitInv'
  <2> SUFFICES ASSUME NEW n \in 1..Len(Checks), NEW m \in Instances(Checks[n])
               PROVE  LET last == lastCollection[Checks[n]][m]
                      IN  /\ last <= run
                          /\ Visited(n, m)' => Settled(n, m)'
                          /\ InRun' /\ ~Visited(n, m)' => last < run
    BY <1>1 DEF VisitInv
  <2>1. m \in Nat
    BY CheckList, InstanceList
  <2>2. /\ Visited(n, m)' => Visited(n, m) \/ (n = k /\ m = i)
        /\ ~Visited(n, m)' => ~Visited(n, m)
        /\ InRun
    BY <1>1, <1>2, <2>1 DEF Visited, InRun
  <2>5. Settled(n, m)' <=> Settled(n, m)
    BY <1>1 DEF Settled, Due
  <2>3. CASE n = k /\ m = i
    BY <1>1, <1>2, <2>2, <2>3, <2>5 DEF InstanceDue, ReportInv, VisitInv, Settled
  <2>4. CASE ~(n = k /\ m = i)
    BY <2>2, <2>4, <2>5 DEF ReportInv, VisitInv
  <2> QED BY <2>3, <2>4
<1>6. PayloadInv'
  BY <1>1 DEF ReportInv, PayloadInv
<1>7. RaisedInv' /\ StatusInv'
  BY <1>1 DEF ReportInv, RaisedInv, StatusInv, Critical, Failing
<1>12. AbortedInv'
  BY <1>1 DEF ReportInv, AbortedInv, InRun
<1>8. WarningsInv' /\ WarningsOwn'
  BY <1>1 DEF ReportInv, WarningsInv, WarningsOwn
<1>9. CleanInv'
  <2>1. \A n \in 1..Len(Checks) : n # k => Checks[n] \in Names /\ Checks[n] # Check
    BY <1>2, CheckList
  <2>2. \A n \in 1..Len(Checks) : \A r : n # k => (Clean(Checks[n], r)' <=> Clean(Checks[n], r))
    BY <1>1, <1>3, <2>1 DEF Clean
  <2> QED BY <1>1, <1>2, <2>2, CheckList DEF ReportInv, CleanInv, InRun
<1>10. RollUpInv'
  <2>1. SkippedSoFar'
    BY <1>1, <1>2 DEF SkippedSoFar
  <2>2. Len(instanceStatuses) <= Len(svcMetadata[Check])
    BY <1>1 DEF ReportInv, RollUpInv
  <2>3. Len(instanceStatuses) \in Nat /\ Len(svcMetadata[Check]) \in Nat
    BY <1>3 DEF ReportInv, LocalType, Metadata
  <2>4. Len(instanceStatuses') <= Len(svcMetadata'[Check])
    BY <1>1, <1>3, <2>2, <2>3
  <2> QED BY <1>1, <2>1, <2>4 DEF RollUpInv
<1>11. CheckStatusesInv' /\ MetadataOwn' /\ MetadataFits'
  BY <1>1 DEF ReportInv, CheckStatusesInv, CheckStatusOK, LongEnough, Excused, Skipped, MetadataOwn,
              MetadataFits
<1> QED BY <1>4, <1>5, <1>6, <1>7, <1>8, <1>9, <1>10, <1>11, <1>12 DEF ReportInv

(* An instance that runs: its data, warnings, status and metadata are its own. *)
LEMMA ReportInstanceKeeps ==
  ASSUME Inv, ReportInv, NEW ok \in BOOLEAN, NEW warn \in BOOLEAN, NEW meta \in BOOLEAN,
         RunInstance(ok, warn, meta)
  PROVE  ReportInv'
<1> DEFINE o      == <<run, Check, i>>
           all    == warnings[Check] \cup (IF warn THEN {o} ELSE {})
           status == [id |-> i,
                      status |-> IF ~ok THEN "ERROR" ELSE IF all # {} THEN "WARNING" ELSE "OK",
                      warnings |-> IF ok THEN all ELSE {}]
           entry  == IF meta THEN {o} ELSE {}
<1>1. /\ pc = "instance" /\ pc' = pc /\ i \in Instances(Check) /\ i' = i + 1
      /\ lastCollection' = [lastCollection EXCEPT ![Check][i] = run]
      /\ metrics' = [metrics EXCEPT ![Check] = @ \cup {o}]
      /\ events' = [events EXCEPT ![Check] = @ \cup {o}]
      /\ serviceChecks' = [serviceChecks EXCEPT ![Check] = @ \cup {o}]
      /\ warnings' = [warnings EXCEPT ![Check] = IF ok THEN {} ELSE all]
      /\ svcMetadata' = [svcMetadata EXCEPT ![Check] = Append(svcMetadata[Check], entry)]
      /\ instanceStatuses' = Append(instanceStatuses, status)
      /\ raised' = IF ok THEN raised ELSE raised \cup {o}
      /\ UNCHANGED <<k, metadata, checkStatuses, run, payload, agentChecks, continueRunning,
                     uncollected, aborted>>
      /\ Check' = Check
  BY DEF RunInstance, CheckInstance, InstanceStatus, Given, Current, WarningsLeft, RollUp,
         AfterInstance, Check
<1>2. /\ Check \in Names /\ Check = Checks[k] /\ k \in 1..Len(Checks)
      /\ k \in Nat /\ i \in Nat /\ run \in Nat
      /\ lastCollection[Check][i] \in Nat /\ lastCollection[Check][i] < run
  BY <1>1, NextInstance
<1>3. o \in Origin /\ o[1] = run /\ o[2] = Check /\ o[3] = i
  BY <1>2 DEF Origin
<1>4. all \subseteq Origin /\ \A w \in all : w[2] = Check /\ (w = o \/ w \in raised)
  BY <1>2, <1>3 DEF ReportInv, StoreType, WarningsInv
<1>5. status \in Status /\ status.id = i /\ (status.status = "ERROR" <=> ~ok)
      /\ status.warnings \subseteq all
  BY <1>2, <1>4 DEF Status
<1>6. entry \in SUBSET Origin /\ entry \subseteq {o}
  BY <1>3
<1>7. /\ lastCollection'[Check][i] = run
      /\ \A m \in Instances(Check) : m # i => lastCollection'[Check][m] = lastCollection[Check][m]
      /\ \A c \in Names : c # Check => lastCollection'[c] = lastCollection[c]
      /\ lastCollection' = [c \in Names |-> lastCollection'[c]]
      /\ \A c \in Names : lastCollection'[c] \in [Instances(c) -> Nat]
  <2>1. /\ DOMAIN lastCollection = Names
        /\ lastCollection = [c \in Names |-> lastCollection[c]]
        /\ \A c \in Names : lastCollection[c] \in [Instances(c) -> Nat]
    BY DEF ReportInv, StoreType
  <2>2. lastCollection'[Check] = [lastCollection[Check] EXCEPT ![i] = run]
    BY <1>1, <1>2, <2>1
  <2>3. \A c \in Names : c # Check => lastCollection'[c] = lastCollection[c]
    BY <1>1, <2>1
  <2>4. lastCollection' = [c \in Names |-> lastCollection'[c]]
    BY <1>1, <2>1
  <2> QED BY <1>1, <1>2, <2>1, <2>2, <2>3, <2>4
<1> HIDE DEF o, all, status, entry
<1>8. /\ o = <<run, Check, i>>
      /\ \A n \in 1..Len(Checks) : n # k => Checks[n] \in Names /\ Checks[n] # Check
      /\ \A n \in 1..Len(Checks) : \A m \in Instances(Checks[n]) : m \in Nat
  BY <1>2, CheckList, InstanceList DEF o
<1>9. /\ svcMetadata[Check] \in Metadata /\ instanceStatuses \in Seq(Status)
      /\ svcMetadata'[Check] = Append(svcMetadata[Check], entry)
      /\ svcMetadata'[Check] \in Metadata /\ instanceStatuses' \in Seq(Status)
      /\ Len(svcMetadata'[Check]) = Len(svcMetadata[Check]) + 1
      /\ Len(instanceStatuses') = Len(instanceStatuses) + 1
      /\ Len(svcMetadata[Check]) \in Nat /\ Len(instanceStatuses) \in Nat
      /\ \A c \in Names : c # Check => svcMetadata'[c] = svcMetadata[c]
  <2>1. svcMetadata[Check] \in Metadata /\ svcMetadata'[Check] = Append(svcMetadata[Check], entry)
    BY <1>1, <1>2 DEF ReportInv, StoreType
  <2>2. instanceStatuses \in Seq(Status)
    BY DEF ReportInv, LocalType
  <2>3. \A c \in Names : c # Check => svcMetadata'[c] = svcMetadata[c]
    BY <1>1 DEF ReportInv, StoreType
  <2> QED BY <1>1, <1>5, <1>6, <2>1, <2>2, <2>3 DEF Metadata
<1>10. StoreType' /\ LocalType' /\ EndInv'
  <2>1. warnings' \in [Names -> SUBSET Origin]
    BY <1>1, <1>2, <1>4 DEF ReportInv, StoreType
  <2>2. svcMetadata' \in [Names -> Metadata]
    BY <1>1, <1>2, <1>9 DEF ReportInv, StoreType
  <2>3. raised' \subseteq Origin
    BY <1>1, <1>3 DEF ReportInv, StoreType
  <2>4. LocalType'
    BY <1>1, <1>9 DEF ReportInv, LocalType
  <2> QED BY <1>1, <1>7, <2>1, <2>2, <2>3, <2>4 DEF StoreType, EndInv
<1>11. VisitInv'
  <2> SUFFICES ASSUME NEW n \in 1..Len(Checks), NEW m \in Instances(Checks[n])
               PROVE  LET last == lastCollection'[Checks[n]][m]
                      IN  /\ last <= run
                          /\ Visited(n, m)' => Settled(n, m)'
                          /\ InRun' /\ ~Visited(n, m)' => last < run
    BY <1>1 DEF VisitInv
  <2>1. /\ Visited(n, m)' => Visited(n, m) \/ (n = k /\ m = i)
        /\ ~Visited(n, m)' => ~Visited(n, m) /\ ~(n = k /\ m = i)
        /\ InRun
    <3>1. m \in Nat
      BY <1>8
    <3> QED BY <1>1, <1>2, <3>1 DEF Visited, InRun
  <2>2. CASE n = k /\ m = i
    BY <1>1, <1>2, <1>7, <2>1, <2>2 DEF Settled
  <2>3. CASE ~(n = k /\ m = i)
    <3>1. lastCollection'[Checks[n]][m] = lastCollection[Checks[n]][m]
      BY <1>2, <1>7, <1>8, <2>3
    <3>2. LET last == lastCollection[Checks[n]][m]
          IN  /\ last <= run
              /\ Visited(n, m) => Settled(n, m)
              /\ ~Visited(n, m) => last < run
      BY <2>1 DEF ReportInv, VisitInv
    <3>3. Settled(n, m)' <=> Settled(n, m)
      BY <1>1, <3>1 DEF Settled, Due
    <3> QED BY <2>1, <2>3, <3>1, <3>2, <3>3
  <2> QED BY <2>2, <2>3
<1>12. PayloadInv'
  <2> SUFFICES ASSUME NEW n \in 1..Len(Checks), NEW m \in Instances(Checks[n]),
                      lastCollection'[Checks[n]][m] = run, <<run, Checks[n]>> \notin uncollected
               PROVE  LET c == Checks[n]
                          x == <<run, c, m>>
                      IN  /\ n < k => \A kind \in Kinds : <<kind, x>> \in payload
                          /\ n = k => x \in metrics'[c] /\ x \in events'[c] /\ x \in serviceChecks'[c]
    BY <1>1 DEF PayloadInv
  <2>1. CASE n = k /\ m = i
    <3>1. o \in metrics'[Check] /\ o \in events'[Check] /\ o \in serviceChecks'[Check]
      BY <1>1, <1>2 DEF Inv, TypeInv
    <3> QED BY <1>2, <1>8, <2>1, <3>1
  <2>2. CASE ~(n = k /\ m = i)
    <3>1. lastCollection[Checks[n]][m] = run
      BY <1>2, <1>7, <1>8, <2>2
    <3>2. /\ metrics[Check] \subseteq metrics'[Check] /\ events[Check] \subseteq events'[Check]
          /\ serviceChecks[Check] \subseteq serviceChecks'[Check]
      BY <1>1, <1>2 DEF Inv, TypeInv
    <3> QED BY <1>1, <1>2, <3>1, <3>2 DEF ReportInv, PayloadInv
  <2> QED BY <2>1, <2>2
<1>13. RaisedInv'
  <2>1. \A x \in raised' : x[1] <= run'
    BY <1>1, <1>2, <1>3 DEF ReportInv, RaisedInv
  <2>2. ASSUME NEW c \in Names, NEW m \in Instances(c), <<run, c, m>> \in raised'
        PROVE  lastCollection'[c][m] = run
    <3>1. CASE <<run, c, m>> = o
      BY <1>7, <1>8, <3>1
    <3>2. CASE <<run, c, m>> # o
      <4>1. <<run, c, m>> \in raised /\ ~(c = Check /\ m = i)
        BY <1>1, <1>8, <2>2, <3>2
      <4>2. lastCollection[c][m] = run
        BY <4>1 DEF ReportInv, RaisedInv
      <4> QED BY <1>7, <4>1, <4>2
    <3> QED BY <3>1, <3>2
  <2> QED BY <1>1, <2>1, <2>2 DEF RaisedInv
<1>14. StatusInv'
  <2>1. \A c \in Names : c # Check => (Failing(c)' <=> Failing(c))
    <3>1. \A c, m : c # Check => <<run, c, m>> # o
      BY <1>8
    <3> QED BY <1>1, <3>1 DEF Failing
  <2>2. Failing(Check)' <=> Failing(Check) \/ ~ok
    <3>1. \A m : <<run, Check, m>> = o <=> m = i
      BY <1>8
    <3> QED BY <1>1, <3>1 DEF Failing
  <2>3. (\E j \in DOMAIN instanceStatuses' : instanceStatuses'[j].status = "ERROR")
          <=> (\E j \in DOMAIN instanceStatuses : instanceStatuses[j].status = "ERROR") \/ ~ok
    <3>1. /\ DOMAIN instanceStatuses' = 1..Len(instanceStatuses) + 1
          /\ DOMAIN instanceStatuses = 1..Len(instanceStatuses)
          /\ \A j \in 1..Len(instanceStatuses) : instanceStatuses'[j] = instanceStatuses[j]
          /\ instanceStatuses'[Len(instanceStatuses) + 1] = status
      BY <1>1, <1>5, <1>9
    <3> QED BY <1>5, <1>9, <3>1
  <2>4. (\E j \in DOMAIN instanceStatuses : instanceStatuses[j].status = "ERROR") <=> Critical(Check)
    BY <1>1 DEF ReportInv, StatusInv
  <2>5. \A n \in 1..Len(Checks) : n < k => (Critical(Checks[n])' <=> Critical(Checks[n]))
    BY <1>1, <1>2, <1>8, <2>1 DEF Critical
  <2>6. Critical(Check)' <=> Critical(Check) \/ ~ok
    <3>1. <<run, Check>> \notin aborted
      BY <1>1, <1>2 DEF ReportInv, AbortedInv, InRun
    <3> QED BY <1>1, <2>2, <3>1 DEF Critical
  <2> QED BY <1>1, <2>3, <2>4, <2>5, <2>6 DEF ReportInv, StatusInv
<1>21. AbortedInv'
  BY <1>1 DEF ReportInv, AbortedInv, InRun
<1>15. WarningsInv'
  <2>1. \A c \in Names : c # Check => warnings'[c] = warnings[c]
    BY <1>1 DEF ReportInv, StoreType
  <2>2. warnings'[Check] = IF ok THEN {} ELSE all
    BY <1>1, <1>2 DEF ReportInv, StoreType
  <2>3. raised \subseteq raised' /\ (~ok => o \in raised')
    BY <1>1
  <2> QED BY <1>4, <2>1, <2>2, <2>3 DEF ReportInv, WarningsInv
<1>16. WarningsOwn'
  <2> SUFFICES ASSUME NEW n \in DOMAIN instanceStatuses', NEW w \in instanceStatuses'[n].warnings
               PROVE  /\ w[2] = Check
                      /\ (w[1] = run /\ w[3] = instanceStatuses'[n].id) \/ w \in raised'
    BY <1>1 DEF WarningsOwn
  <2>1. raised \subseteq raised'
    BY <1>1
  <2>2. CASE n = Len(instanceStatuses) + 1
    <3>1. instanceStatuses'[n] = status
      BY <1>1, <1>5, <1>9, <2>2
    <3> QED BY <1>3, <1>4, <1>5, <2>1, <3>1
  <2>3. CASE n # Len(instanceStatuses) + 1
    <3>1. n \in DOMAIN instanceStatuses /\ instanceStatuses'[n] = instanceStatuses[n]
      BY <1>1, <1>5, <1>9, <2>3
    <3> QED BY <1>1, <2>1, <3>1 DEF ReportInv, WarningsOwn
  <2> QED BY <2>2, <2>3
<1>17. CleanInv'
  <2>1. \A n \in 1..Len(Checks) : \A r : n # k => (Clean(Checks[n], r)' <=> Clean(Checks[n], r))
    BY <1>1, <1>8, <1>9 DEF Clean
  <2> QED BY <1>1, <1>2, <2>1, CheckList DEF ReportInv, CleanInv, InRun
<1>18. RollUpInv'
  <2>1. Len(instanceStatuses') <= Len(svcMetadata'[Check])
    <3>1. Len(instanceStatuses) <= Len(svcMetadata[Check])
      BY <1>1 DEF ReportInv, RollUpInv
    <3> QED BY <1>9, <3>1
  <2>2. SkippedSoFar => SkippedSoFar'
    <3> SUFFICES ASSUME SkippedSoFar PROVE SkippedSoFar'
      OBVIOUS
    <3>1. PICK m \in Instances(Check) : m < i /\ lastCollection[Check][m] # run
      BY DEF SkippedSoFar
    <3>2. m \in Nat /\ m # i /\ m < i + 1
      BY <1>2, <3>1, InstanceList
    <3>3. lastCollection'[Check][m] # run
      BY <1>7, <3>1, <3>2
    <3> QED BY <1>1, <3>2, <3>3 DEF SkippedSoFar
  <2>3. ASSUME Matches(Check, svcMetadata[Check])
        PROVE  Matches(Check, svcMetadata[Check])'
    <3>1. Len(svcMetadata'[Check]) = Len(instanceStatuses')
      BY <1>9, <2>3 DEF Matches
    <3>2. ASSUME NEW j \in 1..Len(instanceStatuses')
          PROVE  svcMetadata'[Check][j] \subseteq {<<run, Check, instanceStatuses'[j].id>>}
      <4>1. CASE j = Len(instanceStatuses')
        <5>1. svcMetadata'[Check][j] = entry /\ instanceStatuses'[j] = status
          BY <1>1, <1>5, <1>6, <1>9, <2>3, <4>1 DEF Metadata, Matches
        <5> QED BY <1>5, <1>6, <1>8, <5>1
      <4>2. CASE j # Len(instanceStatuses')
        <5>1. j \in 1..Len(instanceStatuses) /\ j \in 1..Len(svcMetadata[Check])
          BY <1>9, <2>3, <3>2, <4>2 DEF Matches
        <5>2. /\ svcMetadata'[Check][j] = svcMetadata[Check][j]
              /\ instanceStatuses'[j] = instanceStatuses[j]
          BY <1>1, <1>5, <1>6, <1>9, <5>1 DEF Metadata
        <5> QED BY <2>3, <5>1, <5>2 DEF Matches
      <4> QED BY <4>1, <4>2
    <3> QED BY <1>1, <3>1, <3>2 DEF Matches
  <2>4. \/ <<run - 1, Check>> \in uncollected \/ SkippedSoFar
        \/ Matches(Check, svcMetadata[Check])
    BY <1>1 DEF ReportInv, RollUpInv
  <2> QED BY <1>1, <2>1, <2>2, <2>3, <2>4 DEF RollUpInv
<1>19. CheckStatusesInv'
  <2>1. \A n \in 1..Len(Checks) : n < k => (Excused(Checks[n])' <=> Excused(Checks[n]))
    <3>1. \A n \in 1..Len(Checks) : n < k => lastCollection'[Checks[n]] = lastCollection[Checks[n]]
      BY <1>2, <1>7, <1>8
    <3> QED BY <1>1, <3>1 DEF Excused, Skipped
  <2> SUFFICES ASSUME NEW n \in 1..Len(checkStatuses) PROVE CheckStatusOK(checkStatuses[n])'
    BY <1>1 DEF CheckStatusesInv
  <2>2. CheckStatusOK(checkStatuses[n])
    BY DEF ReportInv, CheckStatusesInv
  <2> QED BY <1>1, <2>1, <2>2 DEF CheckStatusOK, LongEnough
<1>20. MetadataOwn' /\ MetadataFits'
  BY <1>1 DEF MetadataOwn, MetadataFits
<1> QED
  BY <1>10, <1>11, <1>12, <1>13, <1>14, <1>15, <1>16, <1>17, <1>18, <1>19, <1>20, <1>21
  DEF ReportInv

(* An exception that leaves run(): the check has no statuses, is not collected, and keeps what
   the instance submitted. *)
LEMMA ReportEscapeKeeps ==
  ASSUME Inv, ReportInv, NEW warn \in BOOLEAN, NEW meta \in BOOLEAN, InstanceEscapes(warn, meta)
  PROVE  ReportInv'
<1> DEFINE o     == <<run, Check, i>>
           all   == warnings[Check] \cup (IF warn THEN {o} ELSE {})
           entry == IF meta THEN {o} ELSE {}
           gone  == <<run, Check>>
<1>1. /\ pc = "instance" /\ pc' = "status" /\ i \in Instances(Check)
      /\ lastCollection' = [lastCollection EXCEPT ![Check][i] = run]
      /\ warnings' = [warnings EXCEPT ![Check] = all]
      /\ svcMetadata' = [svcMetadata EXCEPT ![Check] = Append(svcMetadata[Check], entry)]
      /\ instanceStatuses' = <<>>
      /\ raised' = raised \cup {o}
      /\ uncollected' = uncollected \cup {gone} /\ aborted' = aborted \cup {gone}
      /\ UNCHANGED <<k, i, metadata, checkStatuses, run, payload, agentChecks, continueRunning>>
      /\ Check' = Check
  BY DEF InstanceEscapes, CheckInstance, Given, Current, WarningsLeft, RollUp, Check
<1>2. /\ Check \in Names /\ Check = Checks[k] /\ k \in 1..Len(Checks)
      /\ k \in Nat /\ i \in Nat /\ run \in Nat
      /\ lastCollection[Check][i] \in Nat /\ lastCollection[Check][i] < run
  BY <1>1, NextInstance
<1>3. o \in Origin /\ o[1] = run /\ o[2] = Check /\ gone[1] = run
  BY <1>2 DEF Origin
<1>4. all \subseteq Origin /\ \A w \in all : w[2] = Check /\ (w = o \/ w \in raised)
  BY <1>2, <1>3 DEF ReportInv, StoreType, WarningsInv
<1>5. entry \in SUBSET Origin
  BY <1>3
<1>6. /\ lastCollection'[Check][i] = run
      /\ \A m \in Instances(Check) : m # i => lastCollection'[Check][m] = lastCollection[Check][m]
      /\ \A c \in Names : c # Check => lastCollection'[c] = lastCollection[c]
      /\ lastCollection' = [c \in Names |-> lastCollection'[c]]
      /\ \A c \in Names : lastCollection'[c] \in [Instances(c) -> Nat]
  <2>1. /\ DOMAIN lastCollection = Names
        /\ lastCollection = [c \in Names |-> lastCollection[c]]
        /\ \A c \in Names : lastCollection[c] \in [Instances(c) -> Nat]
    BY DEF ReportInv, StoreType
  <2>2. lastCollection'[Check] = [lastCollection[Check] EXCEPT ![i] = run]
    BY <1>1, <1>2, <2>1
  <2>3. \A c \in Names : c # Check => lastCollection'[c] = lastCollection[c]
    BY <1>1, <2>1
  <2>4. lastCollection' = [c \in Names |-> lastCollection'[c]]
    BY <1>1, <2>1
  <2> QED BY <1>1, <1>2, <2>1, <2>2, <2>3, <2>4
<1>7. /\ \A n \in 1..Len(Checks) : n # k => Checks[n] \in Names /\ Checks[n] # Check
      /\ \A n \in 1..Len(Checks) : n # k => <<run, Checks[n]>> # gone
      /\ \A n \in 1..Len(Checks) : n \in Nat
      /\ \A c, m : c # Check => <<run, c, m>> # o
      /\ \A m : <<run, Check, m>> = o <=> m = i
  BY <1>2, CheckList
<1>8. gone \in uncollected' /\ gone \in aborted' /\ gone = <<run, Check>>
  BY <1>1
<1> HIDE DEF o, all, entry, gone
<1>9. StoreType' /\ LocalType' /\ EndInv'
  <2>1. warnings' \in [Names -> SUBSET Origin]
    BY <1>1, <1>2, <1>4 DEF ReportInv, StoreType
  <2>2. svcMetadata' \in [Names -> Metadata]
    <3>1. svcMetadata \in [Names -> Metadata] /\ Append(svcMetadata[Check], entry) \in Metadata
      BY <1>2, <1>5 DEF ReportInv, StoreType, Metadata
    <3> QED BY <1>1, <1>2, <3>1
  <2>3. raised' \subseteq Origin
    BY <1>1, <1>3 DEF ReportInv, StoreType
  <2>4. LocalType'
    BY <1>1 DEF ReportInv, LocalType
  <2> QED BY <1>1, <1>6, <2>1, <2>2, <2>3, <2>4 DEF StoreType, EndInv
<1>10. \A n \in 1..Len(Checks) : n # k =>
         /\ lastCollection'[Checks[n]] = lastCollection[Checks[n]]
         /\ <<run, Checks[n]>> \in aborted' <=> <<run, Checks[n]>> \in aborted
         /\ <<run, Checks[n]>> \in uncollected' <=> <<run, Checks[n]>> \in uncollected
  BY <1>1, <1>6, <1>7
<1>11. VisitInv'
  <2> SUFFICES ASSUME NEW n \in 1..Len(Checks), NEW m \in Instances(Checks[n])
               PROVE  LET last == lastCollection'[Checks[n]][m]
                      IN  /\ last <= run
                          /\ Visited(n, m)' => Settled(n, m)'
                          /\ InRun' /\ ~Visited(n, m)' => last < run
    BY <1>1 DEF VisitInv
  <2>1. CASE n = k
    <3>1. Visited(n, m)' /\ Settled(n, m)'
      BY <1>1, <1>2, <1>8, <2>1 DEF Visited, Settled
    <3>2. lastCollection[Checks[n]][m] <= run
      BY DEF ReportInv, VisitInv
    <3>3. lastCollection'[Checks[n]][m] <= run
      BY <1>2, <1>6, <2>1, <3>2
    <3> QED BY <3>1, <3>3
  <2>2. CASE n # k
    <3>1. lastCollection'[Checks[n]][m] = lastCollection[Checks[n]][m]
      BY <1>10, <2>2
    <3>2. /\ Visited(n, m)' <=> Visited(n, m)
          /\ Settled(n, m)' <=> Settled(n, m)
          /\ InRun
      BY <1>1, <1>10, <2>2, <3>1 DEF Visited, Settled, Due, InRun
    <3> QED BY <3>1, <3>2 DEF ReportInv, VisitInv
  <2> QED BY <2>1, <2>2
<1>12. PayloadInv'
  <2> SUFFICES ASSUME NEW n \in 1..Len(Checks), NEW m \in Instances(Checks[n]),
                      lastCollection'[Checks[n]][m] = run, <<run, Checks[n]>> \notin uncollected',
                      n < k, NEW kind \in Kinds
               PROVE  <<kind, <<run, Checks[n], m>>>> \in payload
    BY <1>1, <1>2, <1>8 DEF PayloadInv
  <2>1. n # k
    BY <1>2, <1>7
  <2> QED BY <1>10, <2>1 DEF ReportInv, PayloadInv
<1>13. RaisedInv'
  <2>1. \A x \in raised' : x[1] <= run'
    BY <1>1, <1>2, <1>3 DEF ReportInv, RaisedInv
  <2>2. ASSUME NEW c \in Names, NEW m \in Instances(c), <<run, c, m>> \in raised'
        PROVE  lastCollection'[c][m] = run
    <3>1. CASE c = Check /\ m = i
      BY <1>6, <3>1
    <3>2. CASE ~(c = Check /\ m = i)
      <4>1. <<run, c, m>> \in raised
        BY <1>1, <1>7, <2>2, <3>2
      <4>2. lastCollection[c][m] = run
        BY <4>1 DEF ReportInv, RaisedInv
      <4> QED BY <1>6, <3>2, <4>2
    <3> QED BY <3>1, <3>2
  <2> QED BY <1>1, <2>1, <2>2 DEF RaisedInv
<1>14. StatusInv'
  <2>1. \A n \in 1..Len(Checks) : n < k => (Critical(Checks[n])' <=> Critical(Checks[n]))
    <3> SUFFICES ASSUME NEW n \in 1..Len(Checks), n < k
                 PROVE  Critical(Checks[n])' <=> Critical(Checks[n])
      OBVIOUS
    <3>1. n # k
      BY <1>2, <1>7
    <3>2. Failing(Checks[n])' <=> Failing(Checks[n])
      BY <1>1, <1>7, <3>1 DEF Failing
    <3> QED BY <1>1, <1>10, <3>1, <3>2 DEF Critical
  <2>2. ~Critical(Check)' /\ DOMAIN instanceStatuses' = {}
    BY <1>1, <1>8 DEF Critical
  <2> QED BY <1>1, <2>1, <2>2 DEF ReportInv, StatusInv
<1>15. AbortedInv'
  <2>1. \A x \in aborted' : x[1] \in Nat /\ x[1] <= run
    BY <1>1, <1>2, <1>3 DEF ReportInv, AbortedInv
  <2>2. ASSUME NEW n \in 1..Len(Checks), <<run, Checks[n]>> \in aborted'
        PROVE  n < k \/ n = k
    BY <1>1, <1>10, <2>2 DEF ReportInv, AbortedInv, InRun
  <2> QED BY <1>1, <2>1, <2>2 DEF AbortedInv
<1>16. WarningsInv'
  <2>1. \A c \in Names : c # Check => warnings'[c] = warnings[c]
    BY <1>1 DEF ReportInv, StoreType
  <2>2. warnings'[Check] = all
    BY <1>1, <1>2 DEF ReportInv, StoreType
  <2>3. raised \subseteq raised' /\ o \in raised'
    BY <1>1
  <2> QED BY <1>4, <2>1, <2>2, <2>3 DEF ReportInv, WarningsInv
<1>17. WarningsOwn' /\ MetadataOwn' /\ MetadataFits'
  BY <1>1 DEF WarningsOwn, MetadataOwn, MetadataFits
<1>18. CleanInv'
  <2>1. \A n \in 1..Len(Checks) : n # k => svcMetadata'[Checks[n]] = svcMetadata[Checks[n]]
    BY <1>1, <1>7 DEF ReportInv, StoreType
  <2>3. Clean(Check, run)'
    BY <1>1, <1>8 DEF Clean
  <2>4. ASSUME NEW n \in 1..Len(Checks)
        PROVE  /\ n < k => Clean(Checks[n], run)'
               /\ n > k => Clean(Checks[n], run - 1)'
    <3>1. /\ n < k => Clean(Checks[n], run) /\ n # k
          /\ n > k => Clean(Checks[n], run - 1) /\ n # k
      BY <1>1, <1>2, <1>7 DEF ReportInv, CleanInv, InRun
    <3> QED BY <1>1, <2>1, <3>1 DEF Clean
  <2> QED BY <1>1, <1>2, <2>3, <2>4 DEF CleanInv
<1>19. RollUpInv'
  BY <1>1, <1>8 DEF RollUpInv
<1>20. CheckStatusesInv'
  <2>1. \A n \in 1..Len(Checks) : n < k => (Excused(Checks[n]) => Excused(Checks[n])')
    <3> SUFFICES ASSUME NEW n \in 1..Len(Checks), n < k, Excused(Checks[n])
                 PROVE  Excused(Checks[n])'
      OBVIOUS
    <3>1. n # k
      BY <1>2, <1>7
    <3>2. Skipped(Checks[n])' <=> Skipped(Checks[n])
      BY <1>1, <1>10, <3>1 DEF Skipped
    <3> QED BY <1>1, <3>2 DEF Excused
  <2> SUFFICES ASSUME NEW n \in 1..Len(checkStatuses) PROVE CheckStatusOK(checkStatuses[n])'
    BY <1>1 DEF CheckStatusesInv
  <2>2. CheckStatusOK(checkStatuses[n])
    BY DEF ReportInv, CheckStatusesInv
  <2> QED BY <1>1, <2>1, <2>2 DEF CheckStatusOK, LongEnough
<1> QED
  BY <1>9, <1>11, <1>12, <1>13, <1>14, <1>15, <1>16, <1>17, <1>18, <1>19, <1>20 DEF ReportInv

(* What the check kept goes to the payload and to current_check_metadata. *)
LEMMA ReportCollectKeeps == Inv /\ ReportInv /\ Collect => ReportInv'
<1> SUFFICES ASSUME Inv, ReportInv, Collect PROVE ReportInv'
  OBVIOUS
<1>1. /\ pc = "collect" /\ pc' = "status"
      /\ payload' = payload \cup Tagged("metric", metrics[Check]) \cup Tagged("event", events[Check])
      /\ metadata' = [bound |-> TRUE, of |-> svcMetadata[Check]]
      /\ svcMetadata' = [svcMetadata EXCEPT ![Check] = <<>>]
      /\ UNCHANGED <<serviceChecks, warnings, lastCollection, k, i, instanceStatuses, checkStatuses,
                     run, agentChecks, continueRunning, raised, uncollected, aborted>>
      /\ Check' = Check
  BY DEF Collect, Bound, MetadataLeft, history, Check
<1>2. Check \in Names /\ k \in 1..Len(Checks) /\ Check = Checks[k] /\ k \in Nat
  BY <1>1, CheckType DEF Inv, Check, TypeInv
<1>3. /\ svcMetadata[Check] \in Metadata /\ svcMetadata'[Check] = <<>>
      /\ \A c \in Names : c # Check => svcMetadata'[c] = svcMetadata[c]
  BY <1>1, <1>2 DEF ReportInv, StoreType
<1>4. StoreType' /\ LocalType' /\ EndInv'
  <2>1. <<>> \in Metadata
    BY DEF Metadata
  <2> QED BY <1>1, <1>2, <1>3, <2>1 DEF ReportInv, StoreType, LocalType, EndInv
<1>5. VisitInv'
  <2>1. \A n, m : Visited(n, m)' <=> Visited(n, m)
    BY <1>1 DEF Visited
  <2> QED BY <1>1, <2>1 DEF ReportInv, VisitInv, InRun, Settled, Due
<1>6. PayloadInv'
  <2>1. /\ payload \subseteq payload'
        /\ \A o \in metrics[Check] : <<"metric", o>> \in payload'
        /\ \A o \in events[Check] : <<"event", o>> \in payload'
    BY <1>1 DEF Tagged
  <2> QED BY <1>1, <1>2, <2>1 DEF ReportInv, PayloadInv
<1>7. RaisedInv' /\ StatusInv'
  <2>1. \A c : Failing(c)' <=> Failing(c)
    BY <1>1 DEF Failing
  <2>2. \A x : /\ <<"CRITICAL", x>> \in payload' <=> <<"CRITICAL", x>> \in payload
               /\ <<"OK", x>> \in payload' <=> <<"OK", x>> \in payload
    BY <1>1 DEF Tagged
  <2>3. \A c : Critical(c)' <=> Critical(c)
    BY <1>1, <2>1 DEF Critical
  <2> QED BY <1>1, <2>2, <2>3 DEF ReportInv, RaisedInv, StatusInv
<1>12. AbortedInv'
  BY <1>1 DEF ReportInv, AbortedInv, InRun
<1>8. WarningsInv' /\ WarningsOwn'
  BY <1>1 DEF ReportInv, WarningsInv, WarningsOwn
<1>9. CleanInv'
  <2>1. \A c \in Names : \A r : Clean(c, r) => Clean(c, r)'
    BY <1>1, <1>3 DEF Clean
  <2>2. Clean(Check, run)'
    BY <1>1, <1>3 DEF Clean
  <2> QED BY <1>1, <1>2, <2>1, <2>2, CheckList DEF ReportInv, CleanInv, InRun
<1>10. RollUpInv'
  <2>1. /\ Len(instanceStatuses) <= Len(svcMetadata[Check])
        /\ \/ <<run - 1, Check>> \in uncollected \/ Skipped(Check)
           \/ Matches(Check, svcMetadata[Check])
    BY <1>1 DEF ReportInv, RollUpInv, SkippedSoFar, Skipped
  <2> QED BY <1>1, <2>1 DEF RollUpInv, Skipped, Matches
<1>11. CheckStatusesInv' /\ MetadataOwn' /\ MetadataFits'
  BY <1>1 DEF ReportInv, CheckStatusesInv, CheckStatusOK, LongEnough, Excused, Skipped, MetadataOwn,
              MetadataFits
<1> QED BY <1>4, <1>5, <1>6, <1>7, <1>8, <1>9, <1>10, <1>11, <1>12 DEF ReportInv

(* A check that cannot be collected is one the payload owes nothing. *)
LEMMA ReportRaisesKeeps == Inv /\ ReportInv /\ CollectRaises => ReportInv'
<1> SUFFICES ASSUME Inv, ReportInv, CollectRaises PROVE ReportInv'
  OBVIOUS
<1>1. /\ pc = "collect" /\ pc' = "status"
      /\ uncollected' = uncollected \cup {<<run, Check>>}
      /\ UNCHANGED <<events, serviceChecks, warnings, svcMetadata, lastCollection, k, i,
                     instanceStatuses, metadata, checkStatuses, run, payload, agentChecks,
                     continueRunning, raised, aborted>>
      /\ Check' = Check
  BY DEF CollectRaises, localVars, Check
<1>2. Check \in Names /\ k \in 1..Len(Checks) /\ Check = Checks[k] /\ k \in Nat
  BY <1>1, CheckType DEF Inv, Check, TypeInv
<1>3. StoreType' /\ LocalType' /\ EndInv'
  BY <1>1 DEF ReportInv, StoreType, LocalType, EndInv
<1>4. VisitInv'
  <2>1. \A n, m : Visited(n, m)' <=> Visited(n, m)
    BY <1>1 DEF Visited
  <2> QED BY <1>1, <2>1 DEF ReportInv, VisitInv, InRun, Settled, Due
<1>5. PayloadInv'
  BY <1>1, <1>2 DEF ReportInv, PayloadInv
<1>6. RaisedInv' /\ StatusInv'
  BY <1>1 DEF ReportInv, RaisedInv, StatusInv, Critical, Failing
<1>12. AbortedInv'
  BY <1>1 DEF ReportInv, AbortedInv, InRun
<1>7. WarningsInv' /\ WarningsOwn'
  BY <1>1 DEF ReportInv, WarningsInv, WarningsOwn
<1>8. CleanInv'
  <2>1. (\A c, r : Clean(c, r) => Clean(c, r)') /\ Clean(Check, run)'
    BY <1>1 DEF Clean
  <2> QED BY <1>1, <1>2, <2>1 DEF ReportInv, CleanInv, InRun
<1>9. RollUpInv'
  BY <1>1 DEF RollUpInv
<1>10. CheckStatusesInv'
  BY <1>1 DEF ReportInv, CheckStatusesInv, CheckStatusOK, LongEnough, Excused, Skipped
<1>11. MetadataOwn' /\ MetadataFits'
  BY <1>1 DEF MetadataOwn, MetadataFits
<1> QED BY <1>3, <1>4, <1>5, <1>6, <1>7, <1>8, <1>9, <1>10, <1>11, <1>12 DEF ReportInv

(* The status of a check is in the payload when the run passes it. *)
LEMMA ReportSaveKeeps == Inv /\ ReportInv /\ SaveStatus => ReportInv'
<1> SUFFICES ASSUME Inv, ReportInv, SaveStatus PROVE ReportInv'
  OBVIOUS
<1> DEFINE own == <<StatusOf(instanceStatuses), <<run, Check>>>>
           s   == [check |-> Check, statuses |-> instanceStatuses, metadata |-> metadata.of]
<1>1. /\ pc = "status" /\ pc' = "check" /\ k' = k + 1 /\ metadata.bound
      /\ checkStatuses' = Append(checkStatuses, s)
      /\ payload' = payload \cup Tagged("service_check", serviceChecks[Check]) \cup {own}
      /\ UNCHANGED <<metrics, events, warnings, svcMetadata, lastCollection, i, instanceStatuses,
                     metadata, run, agentChecks, continueRunning, raised, uncollected, aborted>>
  BY DEF SaveStatus, history
<1>2. Check \in Names /\ k \in 1..Len(Checks) /\ Check = Checks[k] /\ k \in Nat
  BY <1>1, CheckType DEF Inv, Check, TypeInv
<1>3. /\ checkStatuses \in Seq([check : Names \cup FailedChecks, statuses : Seq(Status),
                                metadata : Metadata])
      /\ s \in [check : Names \cup FailedChecks, statuses : Seq(Status), metadata : Metadata]
      /\ s.check = Check /\ s.statuses = instanceStatuses /\ s.metadata = metadata.of
  BY <1>2 DEF ReportInv, LocalType
<1>4. own = <<IF Critical(Check) THEN "CRITICAL" ELSE "OK", <<run, Check>>>>
  BY <1>1 DEF ReportInv, StatusInv, StatusOf
<1> HIDE DEF own, s
<1>5. StoreType' /\ LocalType' /\ EndInv'
  BY <1>1, <1>3 DEF ReportInv, StoreType, LocalType, EndInv
<1>6. \A n \in 1..Len(Checks) : n < k' <=> n < k \/ n = k
  BY <1>1, <1>2, CheckList
<1>7. VisitInv'
  <2>1. \A n \in 1..Len(Checks) : \A m : Visited(n, m)' <=> Visited(n, m)
    BY <1>1, <1>6 DEF Visited
  <2> QED BY <1>1, <2>1 DEF ReportInv, VisitInv, InRun, Settled, Due
<1>8. PayloadInv'
  <2> SUFFICES ASSUME NEW n \in 1..Len(Checks), NEW m \in Instances(Checks[n]),
                      lastCollection[Checks[n]][m] = run, <<run, Checks[n]>> \notin uncollected,
                      n < k', NEW kind \in Kinds
               PROVE  <<kind, <<run, Checks[n], m>>>> \in payload'
    BY <1>1 DEF PayloadInv
  <2>1. CASE n < k
    BY <1>1, <2>1 DEF ReportInv, PayloadInv
  <2>2. CASE n = k
    <3>1. /\ <<"metric", <<run, Checks[n], m>>>> \in payload
          /\ <<"event", <<run, Checks[n], m>>>> \in payload
          /\ <<run, Checks[n], m>> \in serviceChecks[Check]
      BY <1>1, <1>2, <2>2 DEF ReportInv, PayloadInv
    <3> QED BY <1>1, <3>1 DEF Kinds, Tagged
  <2> QED BY <1>6, <2>1, <2>2
<1>9. RaisedInv'
  BY <1>1 DEF ReportInv, RaisedInv
<1>10. StatusInv'
  <2>1. \A c : Critical(c)' <=> Critical(c)
    BY <1>1 DEF Critical, Failing
  <2>2. \A st \in {"OK", "CRITICAL"} : \A c :
          <<st, <<run, c>>>> \in payload' <=> <<st, <<run, c>>>> \in payload \/ <<st, <<run, c>>>> = own
    BY <1>1 DEF Tagged
  <2>3. ASSUME NEW n \in 1..Len(Checks)
        PROVE  /\ <<"CRITICAL", <<run, Checks[n]>>>> \in payload' <=> n < k' /\ Critical(Checks[n])
               /\ <<"OK", <<run, Checks[n]>>>> \in payload' <=> n < k' /\ ~Critical(Checks[n])
    <3>1. /\ <<"CRITICAL", <<run, Checks[n]>>>> \in payload <=> n < k /\ Critical(Checks[n])
          /\ <<"OK", <<run, Checks[n]>>>> \in payload <=> n < k /\ ~Critical(Checks[n])
      BY DEF ReportInv, StatusInv
    <3>2. Checks[n] = Check <=> n = k
      BY <1>2, CheckList
    <3>3. /\ <<"CRITICAL", <<run, Checks[n]>>>> = own <=> n = k /\ Critical(Check)
          /\ <<"OK", <<run, Checks[n]>>>> = own <=> n = k /\ ~Critical(Check)
      BY <1>4, <3>2
    <3> QED BY <1>2, <1>6, <2>2, <3>1, <3>3
  <2> QED BY <1>1, <2>1, <2>3 DEF StatusInv
<1>18. AbortedInv'
  BY <1>1, <1>6 DEF ReportInv, AbortedInv, InRun
<1>11. WarningsInv' /\ WarningsOwn'
  BY <1>1 DEF ReportInv, WarningsInv, WarningsOwn
<1>12. CleanInv'
  <2>1. \A c, r : Clean(c, r)' <=> Clean(c, r)
    BY <1>1 DEF Clean
  <2>2. \A n \in 1..Len(Checks) : n > k' \/ n = k' => n > k
    BY <1>1, <1>2, CheckList
  <2> QED BY <1>1, <1>6, <2>1, <2>2 DEF ReportInv, CleanInv, InRun
<1>13. RollUpInv' /\ MetadataOwn' /\ MetadataFits'
  BY <1>1 DEF RollUpInv, MetadataOwn, MetadataFits
<1>14. \A c : Excused(c)' <=> Excused(c)
  BY <1>1 DEF Excused, Skipped
<1>15. ASSUME NEW t, t = s PROVE CheckStatusOK(t)'
  <2>1. LongEnough(t) \/ <<run, Check>> \in uncollected
    BY <1>1, <1>3, <1>15 DEF ReportInv, RollUpInv, LongEnough
  <2>2. Excused(t.check) \/ Matches(t.check, t.metadata)
    BY <1>1, <1>3, <1>15 DEF ReportInv, RollUpInv, Excused
  <2>3. CASE Excused(t.check)
    BY <1>1, <1>2, <1>3, <1>6, <1>14, <1>15, <2>1, <2>3 DEF CheckStatusOK, LongEnough
  <2>4. CASE Matches(t.check, t.metadata)
    BY <1>1, <1>2, <1>3, <1>15, <2>1, <2>4 DEF CheckStatusOK, LongEnough, Matches
  <2> QED BY <2>2, <2>3, <2>4
<1>16. ASSUME NEW t, CheckStatusOK(t) PROVE CheckStatusOK(t)'
  BY <1>1, <1>6, <1>14, <1>16 DEF CheckStatusOK, LongEnough
<1>17. CheckStatusesInv'
  <2>1. \A n \in 1..Len(checkStatuses') :
          IF n = Len(checkStatuses) + 1 THEN checkStatuses'[n] = s
          ELSE n \in 1..Len(checkStatuses) /\ checkStatuses'[n] = checkStatuses[n]
    BY <1>1, <1>3
  <2>2. \A n \in 1..Len(checkStatuses) : CheckStatusOK(checkStatuses[n])
    BY DEF ReportInv, CheckStatusesInv
  <2>3. ASSUME NEW n \in 1..Len(checkStatuses'), NEW t, t = checkStatuses'[n]
        PROVE  CheckStatusOK(t)'
    BY <1>15, <1>16, <2>1, <2>2, <2>3
  <2> QED BY <2>3 DEF CheckStatusesInv
<1> QED BY <1>5, <1>7, <1>8, <1>9, <1>10, <1>11, <1>12, <1>13, <1>17, <1>18 DEF ReportInv

(* A check that could not be initialized has one status, and no metadata. *)
LEMMA ReportFailedKeeps ==
  ASSUME Inv, ReportInv, NEW c \in FailedChecks, FailedCheck(c)
  PROVE  ReportInv'
<1> DEFINE s == Initialization(c)
<1>1. /\ pc = "failed" /\ pc' = pc
      /\ checkStatuses' = Append(checkStatuses, s)
      /\ UNCHANGED <<metrics, events, serviceChecks, warnings, svcMetadata, lastCollection, k, i,
                     instanceStatuses, metadata, run, payload, agentChecks, continueRunning, raised,
                     uncollected, aborted>>
  BY DEF FailedCheck, storeVars, history
<1>2. /\ checkStatuses \in Seq([check : Names \cup FailedChecks, statuses : Seq(Status),
                                metadata : Metadata])
      /\ s \in [check : Names \cup FailedChecks, statuses : Seq(Status), metadata : Metadata]
  <2>1. [id |-> 0, status |-> "ERROR", warnings |-> {}] \in Status /\ {} \in SUBSET Origin
    BY DEF Status
  <2> QED BY <2>1 DEF ReportInv, LocalType, Initialization, Metadata
<1>3. Len(s.statuses) = 1 /\ Len(s.metadata) = 1 /\ s.metadata[1] = {}
  BY DEF Initialization
<1> HIDE DEF s
<1>4. StoreType' /\ LocalType' /\ EndInv'
  BY <1>1, <1>2 DEF ReportInv, StoreType, LocalType, EndInv
<1>5. VisitInv'
  BY <1>1 DEF ReportInv, VisitInv, Visited, InRun, Settled, Due
<1>12. AbortedInv'
  BY <1>1 DEF ReportInv, AbortedInv, InRun
<1>6. PayloadInv' /\ RaisedInv' /\ StatusInv'
  BY <1>1 DEF ReportInv, PayloadInv, RaisedInv, StatusInv, Critical, Failing
<1>7. WarningsInv' /\ WarningsOwn'
  BY <1>1 DEF ReportInv, WarningsInv, WarningsOwn
<1>8. CleanInv' /\ RollUpInv'
  BY <1>1 DEF ReportInv, CleanInv, Clean, InRun, RollUpInv
<1>9. ASSUME NEW t, t = s \/ CheckStatusOK(t) PROVE CheckStatusOK(t)'
  <2>1. CASE t = s
    BY <1>3, <2>1 DEF CheckStatusOK, LongEnough
  <2>2. CASE CheckStatusOK(t)
    BY <1>1, <2>2 DEF CheckStatusOK, LongEnough, Excused, Skipped
  <2> QED BY <1>9, <2>1, <2>2
<1>10. CheckStatusesInv'
  <2>1. \A n \in 1..Len(checkStatuses') :
          IF n = Len(checkStatuses) + 1 THEN checkStatuses'[n] = s
          ELSE n \in 1..Len(checkStatuses) /\ checkStatuses'[n] = checkStatuses[n]
    BY <1>1, <1>2
  <2>2. \A n \in 1..Len(checkStatuses) : CheckStatusOK(checkStatuses[n])
    BY DEF ReportInv, CheckStatusesInv
  <2>3. ASSUME NEW n \in 1..Len(checkStatuses'), NEW t, t = checkStatuses'[n]
        PROVE  CheckStatusOK(t)'
    BY <1>9, <2>1, <2>2, <2>3
  <2> QED BY <2>3 DEF CheckStatusesInv
<1>11. MetadataOwn' /\ MetadataFits'
  BY <1>1 DEF MetadataOwn, MetadataFits
<1> QED BY <1>4, <1>5, <1>6, <1>7, <1>8, <1>10, <1>11, <1>12 DEF ReportInv

(* The entries of agent_checks are those of the statuses the run keeps. *)
LEMMA ReportPopulateKeeps ==
  ASSUME Inv, ReportInv, NEW send \in BOOLEAN, Populate(send)
  PROVE  ReportInv'
<1>1. /\ pc = "metadata" /\ pc' \in {"metadata_error", "emit"}
      /\ pc' = "metadata_error" => \E n \in DOMAIN checkStatuses : ~LongEnough(checkStatuses[n])
      /\ pc' = "emit" => agentChecks' \subseteq UNION {Entries(checkStatuses[n]) : n \in DOMAIN checkStatuses}
      /\ UNCHANGED <<metrics, events, serviceChecks, warnings, svcMetadata, lastCollection, k, i,
                     instanceStatuses, metadata, checkStatuses, run, payload, continueRunning,
                     raised, uncollected, aborted>>
  BY DEF Populate, storeVars, localVars, history
<1>2. StoreType' /\ LocalType' /\ EndInv'
  BY <1>1 DEF ReportInv, StoreType, LocalType, EndInv
<1>3. VisitInv'
  BY <1>1 DEF ReportInv, VisitInv, Visited, InRun, Settled, Due
<1>11. AbortedInv'
  BY <1>1 DEF ReportInv, AbortedInv, InRun
<1>4. PayloadInv' /\ RaisedInv' /\ StatusInv'
  BY <1>1 DEF ReportInv, PayloadInv, RaisedInv, StatusInv, Critical, Failing
<1>5. WarningsInv' /\ WarningsOwn'
  BY <1>1 DEF ReportInv, WarningsInv, WarningsOwn
<1>6. CleanInv' /\ RollUpInv'
  BY <1>1 DEF ReportInv, CleanInv, Clean, InRun, RollUpInv
<1>7. CheckStatusesInv'
  BY <1>1 DEF ReportInv, CheckStatusesInv, CheckStatusOK, LongEnough, Excused, Skipped
<1>8. /\ DOMAIN checkStatuses = 1..Len(checkStatuses)
      /\ \A n \in DOMAIN checkStatuses : CheckStatusOK(checkStatuses[n])
      /\ \A n \in DOMAIN checkStatuses :
           DOMAIN checkStatuses[n].statuses = 1..Len(checkStatuses[n].statuses)
  <2> DEFINE Entry == [check: Names \cup FailedChecks, statuses: Seq(Status), metadata: Metadata]
  <2>0. checkStatuses \in Seq(Entry)
    BY DEF ReportInv, LocalType
  <2>4. \A r \in Entry : r.statuses \in Seq(Status)
    OBVIOUS
  <2> HIDE DEF Entry
  <2>1. /\ DOMAIN checkStatuses = 1..Len(checkStatuses)
        /\ \A n \in DOMAIN checkStatuses : checkStatuses[n].statuses \in Seq(Status)
    BY <2>0, <2>4
  <2>2. \A n \in DOMAIN checkStatuses : CheckStatusOK(checkStatuses[n])
    BY <2>1 DEF ReportInv, CheckStatusesInv
  <2>3. \A s \in Seq(Status) : DOMAIN s = 1..Len(s)
    OBVIOUS
  <2> QED BY <2>1, <2>2, <2>3
<1>9. MetadataOwn'
  <2> SUFFICES ASSUME pc' = "emit", NEW e \in agentChecks'
               PROVE  \/ e.metadata \subseteq {<<run, e.check, e.status.id>>}
                      \/ \E m \in Instances(e.check) : lastCollection[e.check][m] # run
                      \/ {<<run, e.check>>, <<run - 1, e.check>>} \cap uncollected # {}
    BY <1>1 DEF MetadataOwn
  <2>1. PICK n \in DOMAIN checkStatuses : e \in Entries(checkStatuses[n])
    BY <1>1
  <2>2. PICK j \in DOMAIN checkStatuses[n].statuses :
          e = [check |-> checkStatuses[n].check, status |-> checkStatuses[n].statuses[j],
               metadata |-> checkStatuses[n].metadata[j]]
    BY <2>1 DEF Entries
  <2> QED BY <1>8, <2>2 DEF CheckStatusOK, Excused, Skipped
<1>10. MetadataFits'
  BY <1>1, <1>8 DEF MetadataFits, CheckStatusOK
<1> QED BY <1>2, <1>3, <1>4, <1>5, <1>6, <1>7, <1>9, <1>10, <1>11 DEF ReportInv

(* Every step of the collector keeps what the run knows of its checks. *)
LEMMA ReportNext == Inv /\ ReportInv /\ [Next]_vars => ReportInv'
<1> SUFFICES ASSUME Inv, ReportInv, [Next]_vars PROVE ReportInv'
  OBVIOUS
<1>1. CASE \/ OldChecks \/ OldCheckRaises \/ Return \/ EndChecks \/ EndInstances \/ NameError
           \/ LibraryInfoRaises \/ EndFailed \/ HostTagsRaise \/ Emit \/ Post \/ Stop
           \/ UNCHANGED vars
  <2>1. /\ UNCHANGED <<storeVars, localVars, run, payload, agentChecks, raised, uncollected,
                       aborted>>
        /\ Goes /\ (continueRunning' => continueRunning)
    BY <1>1 DEF OldChecks, OldCheckRaises, Return, EndChecks, EndInstances, NameError,
                LibraryInfoRaises, EndFailed, HostTagsRaise, Emit, Post, Stop, vars, Goes, history
  <2> QED BY <2>1, ReportMovesOn
<1> QED
  BY <1>1, ReportRunKeeps, ReportBeginKeeps, ReportSkipKeeps, ReportInstanceKeeps,
     ReportEscapeKeeps, ReportCollectKeeps, ReportRaisesKeeps, ReportSaveKeeps, ReportFailedKeeps,
     ReportPopulateKeeps
  DEF Next, Step

(* At first nothing ran, and the stores are empty. *)
LEMMA ReportInit == Init => ReportInv
<1> SUFFICES ASSUME Init PROVE ReportInv
  OBVIOUS
<1>1. StoreType /\ LocalType /\ EndInv
  <2>1. <<>> \in Metadata
    BY DEF Metadata
  <2>2. lastCollection = [c \in Names |-> lastCollection[c]]
        /\ \A c \in Names : lastCollection[c] \in [Instances(c) -> Nat]
    BY DEF Init
  <2> QED BY <2>1, <2>2 DEF Init, StoreType, LocalType, EndInv, Unbound
<1>2. \A n \in 1..Len(Checks) : Checks[n] \in Names /\ n \in Nat /\ ~(n < 1)
  BY CheckList
<1>3. VisitInv
  BY <1>2 DEF Init, VisitInv, Visited, InRun
<1>4. PayloadInv
  BY <1>2 DEF Init, PayloadInv
<1>5. RaisedInv /\ StatusInv /\ AbortedInv
  BY <1>2 DEF Init, RaisedInv, StatusInv, AbortedInv
<1>6. WarningsInv /\ WarningsOwn
  BY DEF Init, WarningsInv, WarningsOwn
<1>7. CleanInv /\ RollUpInv /\ CheckStatusesInv /\ MetadataOwn /\ MetadataFits
  BY DEF Init, CleanInv, InRun, Clean, RollUpInv, CheckStatusesInv, MetadataOwn, MetadataFits
<1> QED BY <1>1, <1>3, <1>4, <1>5, <1>6, <1>7 DEF ReportInv

(* What a run has dealt with, and what the payload, the statuses and the metadata say of it,
   agree at every step. *)
THEOREM ReportHolds == Spec => [](Inv /\ ReportInv)
<1>1. Init => Inv /\ ReportInv
  BY InvInit, ReportInit
<1>2. Inv /\ ReportInv /\ [Next]_vars => (Inv /\ ReportInv)'
  BY InvNext, ReportNext
<1> QED BY <1>1, <1>2, PTL DEF Spec

(* When a payload is complete every instance that was due ran, unless an exception left run()
   of its own check, and what it submitted is in the payload unless its own check could not be
   collected: a failure stays with its check. *)
THEOREM FailuresStayContained == Spec => []FailureContained
<1>1. Inv /\ ReportInv => FailureContained
  <2> SUFFICES ASSUME Inv, ReportInv, pc \in {"emit", "post"}, NEW c \in Names, NEW m \in Instances(c)
               PROVE  /\ \/ lastCollection[c][m] = run \/ ~Due(lastCollection[c][m], Interval[c][m])
                         \/ <<run, c>> \in aborted
                      /\ lastCollection[c][m] = run /\ <<run, c>> \notin uncollected
                           => \A kind \in Kinds : <<kind, <<run, c, m>>>> \in payload
    BY DEF FailureContained
  <2>1. PICK n \in 1..Len(Checks) : c = Checks[n]
    BY NameNumber
  <2>2. n < k
    BY CheckList DEF ReportInv, EndInv, Inv, TypeInv
  <2>3. Visited(n, m)
    BY <2>2 DEF Visited
  <2> QED BY <2>1, <2>2, <2>3 DEF ReportInv, VisitInv, Settled, PayloadInv
<1> QED BY <1>1, ReportHolds, PTL

(* The payload has the status of each check, critical exactly if an instance of it raised in
   this run and no exception left run() of the check; the status is OK otherwise, also in the
   case of the exception. *)
THEOREM StatusesRight == Spec => []StatusRight
<1>1. Inv /\ ReportInv => StatusRight
  <2> SUFFICES ASSUME Inv, ReportInv, pc \in {"emit", "post"}, NEW c \in Names
               PROVE  /\ <<"CRITICAL", <<run, c>>>> \in payload <=> Critical(c)
                      /\ <<"OK", <<run, c>>>> \in payload <=> ~Critical(c)
    BY DEF StatusRight, Critical, Failing
  <2>1. PICK n \in 1..Len(Checks) : c = Checks[n]
    BY NameNumber
  <2>2. n < k
    BY CheckList DEF ReportInv, EndInv, Inv, TypeInv
  <2> QED BY <2>1, <2>2 DEF ReportInv, StatusInv
<1> QED BY <1>1, ReportHolds, PTL

(* The warnings in the status of an instance are its own, or those of an instance of the same
   check that raised before get_warnings() could take them. *)
THEOREM WarningsStayOwn == Spec => []WarningsOwn
<1>1. Inv /\ ReportInv => WarningsOwn
  BY DEF ReportInv
<1> QED BY <1>1, ReportHolds, PTL

(* The metadata sent with the status of an instance is its own, unless an instance of the check
   was skipped or the check could not be collected in this run or in the last one. *)
THEOREM MetadataStaysOwn == Spec => []MetadataOwn
<1>1. Inv /\ ReportInv => MetadataOwn
  BY DEF ReportInv
<1> QED BY <1>1, ReportHolds, PTL

(* The metadata a run keeps of a check that was collected has an entry for each status, so that
   current_check_metadata is unbound, or too short, only in a run in which run() or
   get_metrics() of a check raised. *)
THEOREM MetadataAlwaysFits == Spec => []MetadataFits
<1>1. Inv /\ ReportInv => MetadataFits
  BY DEF ReportInv
<1> QED BY <1>1, ReportHolds, PTL
=============================================================================
