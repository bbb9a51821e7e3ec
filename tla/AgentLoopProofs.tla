---------------------------- MODULE AgentLoopProofs ----------------------------
(***************************************************************************)
(* The list of checks stays well formed under any interleaving of full and *)
(* partial reloads, for any set of checks and any number of signals,       *)
(* configuration changes and failures.                                     *)
(***************************************************************************)
EXTENDS AgentLoop, FiniteSetTheorems, SequenceTheorems, TLAPS

(* What popping an element leaves of a list: the elements after it move up. *)
LEMMA RemoveAtProperties ==
  ASSUME NEW S, NEW s \in Seq(S), NEW i \in 1..Len(s)
  PROVE  /\ RemoveAt(s, i) \in Seq(S)
         /\ Len(RemoveAt(s, i)) = Len(s) - 1
         /\ \A j \in 1..Len(s) - 1 :
              RemoveAt(s, i)[j] = IF j < i THEN s[j] ELSE s[j + 1]
<1> DEFINE front == SubSeq(s, 1, i - 1)
           back  == SubSeq(s, i + 1, Len(s))
<1>1. Len(s) \in Nat /\ \A j \in 1..Len(s) : s[j] \in S
  OBVIOUS
<1>2. /\ front \in Seq(S) /\ Len(front) = i - 1
      /\ \A j \in 1..i - 1 : front[j] = s[j]
  <2>1. \A j \in 1..i - 1 : s[j] \in S
    BY <1>1
  <2>2. /\ front \in Seq(S)
        /\ Len(front) = IF 1 <= i - 1 THEN i - 1 - 1 + 1 ELSE 0
        /\ \A j \in 1..i - 1 - 1 + 1 : front[j] = s[1 + j - 1]
    BY <1>1, <2>1, SubSeqProperties
  <2> HIDE DEF front
  <2> QED BY <1>1, <2>2
<1>3. /\ back \in Seq(S) /\ Len(back) = Len(s) - i
      /\ \A j \in 1..Len(s) - i : back[j] = s[i + j]
  <2>1. \A j \in i + 1..Len(s) : s[j] \in S
    BY <1>1
  <2>2. /\ back \in Seq(S)
        /\ Len(back) = IF i + 1 <= Len(s) THEN Len(s) - (i + 1) + 1 ELSE 0
        /\ \A j \in 1..Len(s) - (i + 1) + 1 : back[j] = s[i + 1 + j - 1]
    BY <1>1, <2>1, SubSeqProperties
  <2> HIDE DEF back
  <2> QED BY <1>1, <2>2
<1>4. /\ front \o back \in Seq(S)
      /\ Len(front \o back) = Len(front) + Len(back)
      /\ \A j \in 1..Len(front) + Len(back) : (front \o back)[j] =
           IF j <= Len(front) THEN front[j] ELSE back[j - Len(front)]
  <2> HIDE DEF front, back
  <2> QED BY <1>2, <1>3, ConcatProperties
<1>5. RemoveAt(s, i) = front \o back
  BY DEF RemoveAt
<1>6. Len(front \o back) = Len(s) - 1
  <2> HIDE DEF front, back
  <2> QED BY <1>1, <1>2, <1>3, <1>4
<1>7. ASSUME NEW j \in 1..Len(s) - 1
      PROVE  (front \o back)[j] = IF j < i THEN s[j] ELSE s[j + 1]
  <2> HIDE DEF front, back
  <2>1. j \in 1..Len(front) + Len(back)
    BY <1>1, <1>2, <1>3
  <2>2. CASE j < i
    BY <1>1, <1>2, <1>4, <2>1, <2>2
  <2>3. CASE ~(j < i)
    <3>1. j - (i - 1) \in 1..Len(s) - i /\ i + (j - (i - 1)) = j + 1
      BY <1>1, <2>3
    <3>2. (front \o back)[j] = back[j - (i - 1)]
      BY <1>1, <1>2, <1>4, <2>1, <2>3
    <3> QED BY <1>3, <2>3, <3>1, <3>2
  <2> QED BY <2>2, <2>3
<1> QED BY <1>4, <1>5, <1>6, <1>7

(* load_check_directory returns each check once, and none that failed, unless
   datadog.conf configures it the old way. *)
ListOK(list, failed) ==
  /\ list \in Seq(Check) /\ failed \subseteq Checks
  /\ \A i, j \in DOMAIN list : list[i].name = list[j].name => i = j
  /\ Names(list) \cap failed \subseteq Deprecated

LEMMA LoadedListOK ==
  ASSUME config \in [Checks -> [state: States, version: Nat]],
         NEW lost \in SUBSET Discovered, NEW list, NEW failed,
         LoadCheckDirectory(lost, list, failed)
  PROVE  ListOK(list, failed)
<1> DEFINE found == Checks \ lost
           good == {c \in found : config[c].state = "good"}
<1>1. Deprecated \subseteq Checks
  BY AgentLoopAssumption
<1>2. IsFiniteSet(good) /\ good \subseteq Checks
  BY AgentLoopAssumption, FS_Subset
<1>3. Cardinality(good) \in Nat
  BY <1>2, FS_CardinalityType
<1>4. PICK order \in SetToSeqs(good) :
        list = [i \in DOMAIN order |->
                  [name |-> order[i], version |-> config[order[i]].version,
                   error |-> FALSE]]
  BY DEF LoadCheckDirectory
<1>5. /\ order \in [1..Cardinality(good) -> good]
      /\ \A i, j \in 1..Cardinality(good) : i # j => order[i] # order[j]
  <2> HIDE DEF good
  <2> QED BY <1>4 DEF SetToSeqs
<1>6. DOMAIN list = 1..Cardinality(good)
  <2> HIDE DEF good
  <2> QED BY <1>4, <1>5
<1>7. \A i \in DOMAIN list : list[i] \in Check /\ list[i].name = order[i]
  <2> SUFFICES ASSUME NEW i \in DOMAIN list
               PROVE  list[i] \in Check /\ list[i].name = order[i]
    OBVIOUS
  <2>1. order[i] \in Checks
    BY <1>2, <1>5, <1>6
  <2>2. config[order[i]].version \in Nat
    BY <2>1
  <2>3. list[i] = [name |-> order[i], version |-> config[order[i]].version,
                   error |-> FALSE]
    BY <1>4, <1>5, <1>6
  <2> QED BY <2>1, <2>2, <2>3 DEF Check
<1>8. list \in Seq(Check)
  <2> HIDE DEF good
  <2>1. list \in [1..Cardinality(good) -> Check]
    BY <1>4, <1>6, <1>7
  <2> QED BY <1>3, <2>1
<1>9. \A i, j \in DOMAIN list : list[i].name = list[j].name => i = j
  <2> HIDE DEF good
  <2> QED BY <1>5, <1>6, <1>7
<1>10. failed \subseteq Checks /\ Names(list) \cap failed \subseteq Deprecated
  <2>1. failed = {c \in found : config[c].state \in {"yaml", "class"}} \cup Deprecated
    BY DEF LoadCheckDirectory
  <2>2. \A i \in DOMAIN list : config[list[i].name].state = "good"
    BY <1>5, <1>6, <1>7
  <2> QED BY <1>1, <2>1, <2>2 DEF Names
<1> QED BY <1>8, <1>9, <1>10 DEF ListOK

-----------------------------------------------------------------------------
(* refresh_specific_checks *)

(* The position found is that of the check, or 0 when there is none. *)
LEMMA IndexOfProperties ==
  ASSUME initialized \in Seq(Check), NEW c
  PROVE  \/ IndexOf(c) = 0 /\ c \notin Names(initialized)
         \/ /\ IndexOf(c) \in 1..Len(initialized)
            /\ initialized[IndexOf(c)].name = c
<1>1. CASE c \in Names(initialized)
  <2>1. \E i \in DOMAIN initialized : initialized[i].name = c
    BY <1>1 DEF Names
  <2>2. IndexOf(c) = CHOOSE i \in DOMAIN initialized : initialized[i].name = c
    BY <1>1 DEF IndexOf
  <2>3. IndexOf(c) \in DOMAIN initialized /\ initialized[IndexOf(c)].name = c
    BY <2>1, <2>2
  <2>4. DOMAIN initialized = 1..Len(initialized)
    OBVIOUS
  <2> QED BY <2>3, <2>4
<1>2. CASE c \notin Names(initialized)
  BY <1>2 DEF IndexOf
<1> QED BY <1>1, <1>2

(* Replacing or appending a check keeps the list free of duplicates, and takes
   the check from the failed ones. *)
LEMMA StoreOK ==
  ASSUME ListOK(initialized, initFailed), config \in [Checks -> [state: States, version: Nat]],
         NEW c \in Checks, NEW error \in BOOLEAN,
         Store(c, error), ForgetFailure(c)
  PROVE  ListOK(initialized', initFailed')
<1> DEFINE new == [name |-> c, version |-> config[c].version, error |-> error]
           idx == IndexOf(c)
<1>1. initialized \in Seq(Check) /\ Len(initialized) \in Nat
      /\ DOMAIN initialized = 1..Len(initialized)
  BY DEF ListOK
<1>2. new \in Check
  BY DEF Check
<1>3. new.name = c
  OBVIOUS
<1>4. \/ idx = 0 /\ c \notin Names(initialized)
      \/ idx \in 1..Len(initialized) /\ initialized[idx].name = c
  BY <1>1, IndexOfProperties
<1> HIDE DEF new, idx
<1>5. CASE idx = 0
  <2>1. initialized' = Append(initialized, new) /\ initFailed' = initFailed \ {c}
    BY <1>5 DEF Store, ForgetFailure, new, idx
  <2>2. /\ initialized' \in Seq(Check)
        /\ Len(initialized') = Len(initialized) + 1
        /\ \A i \in 1..Len(initialized) : initialized'[i] = initialized[i]
        /\ initialized'[Len(initialized) + 1] = new
    BY <1>1, <1>2, <2>1, AppendProperties
  <2>3. DOMAIN initialized' = 1..Len(initialized) + 1
    BY <2>2
  <2>4. \A i \in 1..Len(initialized) : initialized[i].name # c
    BY <1>1, <1>4, <1>5 DEF Names
  <2>5. \A i, j \in DOMAIN initialized' : initialized'[i].name = initialized'[j].name => i = j
    <3> SUFFICES ASSUME NEW i \in 1..Len(initialized) + 1, NEW j \in 1..Len(initialized) + 1,
                        initialized'[i].name = initialized'[j].name
                 PROVE  i = j
      BY <2>3
    <3>1. CASE i = Len(initialized) + 1 \/ j = Len(initialized) + 1
      BY <1>1, <1>3, <2>2, <2>4, <3>1
    <3>2. CASE i \in 1..Len(initialized) /\ j \in 1..Len(initialized)
      BY <1>1, <2>2, <3>2 DEF ListOK
    <3> QED BY <1>1, <3>1, <3>2
  <2>6. Names(initialized') \cap initFailed' \subseteq Deprecated
    <3> SUFFICES ASSUME NEW i \in 1..Len(initialized) + 1, initialized'[i].name \in initFailed'
                 PROVE  initialized'[i].name \in Deprecated
      BY <2>3 DEF Names
    <3>1. i \in 1..Len(initialized)
      BY <1>1, <1>3, <2>1, <2>2
    <3>2. initialized[i].name \in Names(initialized) /\ initialized[i].name \in initFailed
      BY <1>1, <2>1, <2>2, <3>1 DEF Names
    <3>3. initialized'[i] = initialized[i]
      BY <2>2, <3>1
    <3> QED BY <3>2, <3>3 DEF ListOK
  <2> QED BY <2>1, <2>2, <2>5, <2>6 DEF ListOK
<1>6. CASE idx \in 1..Len(initialized) /\ initialized[idx].name = c
  <2>1. initialized' = [initialized EXCEPT ![idx] = new] /\ initFailed' \subseteq initFailed
    <3>1. idx # 0
      BY <1>6
    <3> QED BY <3>1 DEF Store, ForgetFailure, ReplaceAt, new, idx
  <2>2. initialized' \in Seq(Check) /\ DOMAIN initialized' = DOMAIN initialized
    <3>1. [initialized EXCEPT ![idx] = new] \in Seq(Check)
      BY <1>1, <1>2, <1>6, ExceptSeq
    <3> QED BY <2>1, <3>1
  <2>3. \A i \in DOMAIN initialized : initialized'[i].name = initialized[i].name
    BY <1>1, <1>3, <1>6, <2>1
  <2>4. Names(initialized') = Names(initialized)
    BY <2>2, <2>3 DEF Names
  <2> QED BY <2>1, <2>2, <2>3, <2>4 DEF ListOK
<1> QED BY <1>4, <1>5, <1>6

(* Popping a check keeps the list free of duplicates. *)
LEMMA GoneOK ==
  ASSUME ListOK(initialized, initFailed), NEW c \in Checks, ForgetFailure(c),
         initialized' = IF IndexOf(c) > 1 THEN RemoveAt(initialized, IndexOf(c))
                        ELSE initialized
  PROVE  ListOK(initialized', initFailed')
<1> DEFINE idx == IndexOf(c)
<1>1. initialized \in Seq(Check) /\ Len(initialized) \in Nat
      /\ DOMAIN initialized = 1..Len(initialized)
  BY DEF ListOK
<1>2. idx = 0 \/ idx \in 1..Len(initialized)
  BY <1>1, IndexOfProperties
<1>3. initFailed' \subseteq initFailed
  BY DEF ForgetFailure
<1>4. CASE ~(idx > 1)
  BY <1>3, <1>4 DEF ListOK
<1>5. CASE idx > 1
  <2> HIDE DEF idx
  <2>1. initialized' = RemoveAt(initialized, idx) /\ idx \in 1..Len(initialized)
    BY <1>2, <1>5 DEF idx
  <2>2. /\ initialized' \in Seq(Check) /\ Len(initialized') = Len(initialized) - 1
        /\ \A j \in 1..Len(initialized) - 1 :
             initialized'[j] = IF j < idx THEN initialized[j] ELSE initialized[j + 1]
    BY <1>1, <2>1, RemoveAtProperties
  <2>3. DOMAIN initialized' = 1..Len(initialized) - 1
    BY <2>2
  <2>4. \A i, j \in DOMAIN initialized' : initialized'[i].name = initialized'[j].name => i = j
    <3> SUFFICES ASSUME NEW i \in 1..Len(initialized) - 1, NEW j \in 1..Len(initialized) - 1,
                        initialized'[i].name = initialized'[j].name
                 PROVE  i = j
      BY <2>3
    <3> DEFINE p(k) == IF k < idx THEN k ELSE k + 1
    <3>1. p(i) \in DOMAIN initialized /\ p(j) \in DOMAIN initialized
      BY <1>1, <2>1
    <3>2. initialized'[i] = initialized[p(i)]
      <4>1. CASE i < idx
        BY <2>2, <4>1
      <4>2. CASE ~(i < idx)
        BY <2>2, <4>2
      <4> QED BY <4>1, <4>2
    <3>3. initialized'[j] = initialized[p(j)]
      <4>1. CASE j < idx
        BY <2>2, <4>1
      <4>2. CASE ~(j < idx)
        BY <2>2, <4>2
      <4> QED BY <4>1, <4>2
    <3>4. initialized[p(i)].name = initialized[p(j)].name
      BY <3>2, <3>3
    <3>5. p(i) = p(j)
      <4> HIDE DEF p
      <4> QED BY <3>1, <3>4 DEF ListOK
    <3> QED BY <1>1, <2>1, <3>5
  <2>5. Names(initialized') \subseteq Names(initialized)
    <3> SUFFICES ASSUME NEW j \in 1..Len(initialized) - 1
                 PROVE  initialized'[j].name \in Names(initialized)
      BY <2>3 DEF Names
    <3>1. j \in 1..Len(initialized) /\ j + 1 \in 1..Len(initialized)
      BY <1>1
    <3> QED BY <1>1, <2>2, <3>1 DEF Names
  <2> QED BY <1>3, <2>2, <2>4, <2>5 DEF ListOK
<1> QED BY <1>4, <1>5

-----------------------------------------------------------------------------
(* The cache of the configuration store *)

(* Rebuilding the cache, filling it on a load and looking up containers leave a value for
   every discovered check. *)
LEMMA CacheType ==
  /\ \A known : Populate(known) \in [Discovered -> Cached]
  /\ \A known \in [Discovered -> Cached] : \A lost : Cache(known, lost) \in [Discovered -> Cached]
  /\ cache \in [Discovered -> Cached] =>
       \A containers : LookUp(containers) \in [Discovered -> Cached]
BY DEF Populate, Cache, LookUp, Cached

-----------------------------------------------------------------------------
(* The inductive invariant *)
Inv == TypeOK /\ OnePerName /\ RunningOrFailed

LEMMA InvIsListOK ==
  TypeOK => (OnePerName /\ RunningOrFailed <=> ListOK(initialized, initFailed))
BY DEF TypeOK, OnePerName, RunningOrFailed, ListOK

(* Every step leaves a well-formed list. *)
LEMMA ListNext == Inv /\ [Next]_vars => ListOK(initialized', initFailed')
<1> SUFFICES ASSUME Inv, [Next]_vars PROVE ListOK(initialized', initFailed')
  OBVIOUS
<1>1. TypeOK /\ ListOK(initialized, initFailed)
  BY InvIsListOK DEF Inv
<1>2. config \in [Checks -> [state: States, version: Nat]] /\ toRefresh \subseteq Checks
  BY <1>1 DEF TypeOK
<1>3. CASE UNCHANGED <<initialized, initFailed>>
  BY <1>1, <1>3
<1>4. CASE ReloadConfigs
  <2>1. PICK lost \in SUBSET Discovered : LoadCheckDirectory(lost, initialized', initFailed')
    BY <1>4 DEF ReloadConfigs
  <2> QED BY <1>2, <2>1, LoadedListOK
<1>5. ASSUME NEW c \in toRefresh, RefreshGood(c) \/ RefreshYamlError(c) \/ RefreshGone(c)
      PROVE  ListOK(initialized', initFailed')
  <2>1. c \in Checks
    BY <1>2
  <2>2. CASE RefreshGood(c)
    BY <1>1, <1>2, <2>1, <2>2, StoreOK DEF RefreshGood
  <2>3. CASE RefreshYamlError(c)
    BY <1>1, <1>2, <2>1, <2>3, StoreOK DEF RefreshYamlError
  <2>4. CASE RefreshGone(c)
    BY <1>1, <2>1, <2>4, GoneOK DEF RefreshGone
  <2> QED BY <1>5, <2>2, <2>3, <2>4
<1>6. CASE \/ Top \/ IsInstance \/ CallPartial \/ RefreshRaises \/ RefreshDone
           \/ CollectorRun \/ ClearFlag \/ Crawl \/ Discover \/ DoRestart \/ Block \/ Sleep
           \/ Sighup \/ Sigterm \/ Sigusr1
  <2>1. UNCHANGED <<initialized, initFailed>>
    BY <1>6 DEF Top, IsInstance, CallPartial, RefreshRaises, RefreshDone, CollectorRun,
                ClearFlag, Crawl, Discover, DoRestart, Block, Sleep, Sighup, Sigterm, Sigusr1
  <2> QED BY <1>3, <2>1
<1>7. ASSUME NEW c \in Checks, NEW state \in States,
             EditFile(c, state) \/ ContainerEvent(c, state) \/ TemplateChange(c, state)
      PROVE  ListOK(initialized', initFailed')
  <2>1. UNCHANGED <<initialized, initFailed>>
    BY <1>7 DEF EditFile, ContainerEvent, TemplateChange, loopVars
  <2> QED BY <1>3, <2>1
<1>8. CASE UNCHANGED vars
  BY <1>3, <1>8 DEF vars, loopVars
<1> QED BY <1>4, <1>5, <1>6, <1>7, <1>8 DEF Next, Loop

(* The list is well formed at the start, when load_check_directory has run once. *)
LEMMA InvInit == Init => Inv
<1> SUFFICES ASSUME Init PROVE Inv
  OBVIOUS
<1>1. config \in [Checks -> [state: States, version: Nat]]
  BY DEF Init
<1>2. ListOK(initialized, initFailed)
  BY <1>1, LoadedListOK, {} \in SUBSET Discovered DEF Init
<1>3. TypeOK
  <2>1. NoReload \in Flag
    BY DEF NoReload, Flag
  <2>2. initialized \in Seq(Check) /\ initFailed \subseteq Checks
    BY <1>2 DEF ListOK
  <2>3. /\ pc = "top" /\ runForever = TRUE /\ continueRunning = TRUE
        /\ reloadFlag = NoReload /\ sdFlag = NoReload /\ toRefresh = {}
        /\ previousIndex = -1 /\ storeIndex = 0 /\ changed = {} /\ removed = FALSE
        /\ signals = 0 /\ failures = 0 /\ hup = FALSE
    BY DEF Init
  <2>4. previousIndex \in Int /\ {storeIndex, signals, failures} \subseteq Nat
    BY <2>3
  <2>5. cache \in [Discovered -> Cached] /\ templates \subseteq Discovered
    BY CacheType DEF Init
  <2> QED BY <1>1, <2>1, <2>2, <2>3, <2>4, <2>5, Zenon DEF TypeOK
<1> QED BY <1>2, <1>3, InvIsListOK DEF Inv

(* Every step keeps the types; the list of checks comes from ListNext. *)
LEMMA TypeNext == Inv /\ [Next]_vars => TypeOK'
<1> SUFFICES ASSUME Inv, [Next]_vars PROVE TypeOK'
  OBVIOUS
<1>1. TypeOK
  BY DEF Inv
<1>2. initialized' \in Seq(Check) /\ initFailed' \subseteq Checks
  BY ListNext DEF ListOK
<1>3. NoReload \in Flag /\ FullReload \in Flag
  BY DEF NoReload, FullReload, Flag
<1>4. \A S \in SUBSET Checks : PartialReload(S) \in Flag
  BY DEF PartialReload, Flag
<1>FailsType. Fails \/ UNCHANGED failures => failures' \in Nat
  BY <1>1 DEF TypeOK, Fails
<1> USE DEF TypeOK, Goto
<1>5. CASE Top
  BY <1>1, <1>2, <1>5 DEF Top, worldVars
<1>6. CASE IsInstance
  BY <1>1, <1>2, <1>6 DEF IsInstance, worldVars
<1>7. CASE CallPartial
  <2>1. toRefresh' \subseteq Checks
    BY <1>1, <1>7 DEF CallPartial, Flag
  <2> QED BY <1>1, <1>2, <1>7, <2>1 DEF CallPartial, worldVars
<1>8. CASE ReloadConfigs
  <2>1. failures' \in Nat /\ cache' \in [Discovered -> Cached]
    BY <1>1, <1>8, <1>FailsType, CacheType DEF ReloadConfigs
  <2> QED BY <1>1, <1>2, <1>8, <2>1 DEF ReloadConfigs, worldVars
<1>9. ASSUME NEW c \in toRefresh, RefreshGood(c) \/ RefreshYamlError(c) \/ RefreshGone(c)
      PROVE  TypeOK'
  <2>1. Refreshing(c)
    BY <1>9 DEF RefreshGood, RefreshYamlError, RefreshGone
  <2>2. failures' \in Nat
    BY <1>9, <1>FailsType DEF RefreshGood, RefreshYamlError, RefreshGone
  <2>3. cache' \in [Discovered -> Cached]
    <3>1. PICK lost \in SUBSET Checks : CacheOnLoad(c, lost) \/ UNCHANGED cache
      <4>1. {} \in SUBSET Checks /\ {c} \in SUBSET Checks
        BY <1>1
      <4> QED BY <1>9, <4>1 DEF RefreshGood, RefreshYamlError, RefreshGone
    <3>2. cache' = cache \/ cache' = Cache(cache, lost)
      BY <3>1 DEF CacheOnLoad
    <3> QED BY <1>1, <3>2, CacheType
  <2> QED BY <1>1, <1>2, <2>1, <2>2, <2>3 DEF Refreshing, worldVars
<1>10. CASE RefreshRaises
  BY <1>1, <1>2, <1>10 DEF RefreshRaises, worldVars
<1>11. CASE RefreshDone
  BY <1>1, <1>2, <1>11 DEF RefreshDone, worldVars
<1>12. CASE CollectorRun
  <2>1. /\ sdFlag' \in Flag /\ failures' \in Nat /\ cache' \in [Discovered -> Cached]
        /\ changed' \subseteq Checks /\ removed' \in BOOLEAN
    <3>1. CASE UNCHANGED <<sdFlag, cache, changed, removed, failures>>
      BY <1>1, <3>1
    <3>2. CASE UpdateChecks
      <4>1. changed' = {} /\ removed' = FALSE
        BY <3>2 DEF UpdateChecks
      <4>2. failures' \in Nat
        BY <1>FailsType, <3>2 DEF UpdateChecks, Reports
      <4>3. cache' \in [Discovered -> Cached]
        BY <1>1, <3>2, CacheType DEF UpdateChecks, Reports
      <4>4. PartialReload(ChecksToRefresh(changed)) \in Flag /\ sdFlag \in Flag
        <5>1. ChecksToRefresh(changed) \in SUBSET Checks
          BY <1>1 DEF ChecksToRefresh
        <5> QED BY <1>1, <1>4, <5>1
      <4>5. sdFlag' \in {FullReload, PartialReload(ChecksToRefresh(changed)), sdFlag}
        BY <3>2 DEF UpdateChecks, Reports
      <4> QED BY <1>3, <4>1, <4>2, <4>3, <4>4, <4>5
    <3> QED BY <1>12, <3>1, <3>2 DEF CollectorRun
  <2> QED BY <1>1, <1>2, <1>12, <2>1 DEF CollectorRun
<1>13. CASE ClearFlag
  BY <1>1, <1>2, <1>3, <1>13 DEF ClearFlag, worldVars
<1>14. CASE Crawl
  <2>1. sdFlag' \in Flag /\ failures' \in Nat /\ previousIndex' \in Int
    BY <1>1, <1>3, <1>14, <1>FailsType DEF Crawl, CrawlConfigTemplate
  <2>2. cache' \in [Discovered -> Cached]
    BY <1>1, <1>14, CacheType DEF Crawl, CrawlConfigTemplate
  <2> QED BY <1>1, <1>2, <1>14, <2>1, <2>2 DEF Crawl, worldVars
<1>15. CASE Discover
  BY <1>1, <1>2, <1>3, <1>15 DEF Discover, worldVars
<1>16. CASE DoRestart
  BY <1>1, <1>2, <1>16 DEF DoRestart, worldVars
<1>Block. CASE Block
  BY <1>1, <1>2, <1>Block DEF Block, worldVars
<1>17. CASE Sleep
  BY <1>1, <1>2, <1>17 DEF Sleep, worldVars
<1>18. CASE Sighup
  BY <1>1, <1>2, <1>3, <1>18 DEF Sighup, worldVars
<1>19. CASE Sigterm
  BY <1>1, <1>2, <1>19 DEF Sigterm, worldVars
<1>20. CASE Sigusr1
  BY <1>1, <1>2, <1>20 DEF Sigusr1, worldVars
<1>21. ASSUME NEW c \in Checks, NEW state \in States,
              EditFile(c, state) \/ ContainerEvent(c, state) \/ TemplateChange(c, state)
       PROVE  TypeOK'
  <2>1. UNCHANGED <<loopVars, signals, failures, hup>>
    BY <1>21 DEF EditFile, ContainerEvent, TemplateChange
  <2>2. config' \in [Checks -> [state: States, version: Nat]]
    <3>1. Change(c, state) \/ UNCHANGED config
      BY <1>21 DEF EditFile, ContainerEvent, TemplateChange
    <3> QED BY <1>1, <3>1 DEF Change
  <2>3. /\ storeIndex' \in Nat /\ changed' \subseteq Checks /\ removed' \in BOOLEAN
        /\ templates' \subseteq Discovered
    <3>1. CASE EditFile(c, state)
      BY <1>1, <3>1 DEF EditFile
    <3>2. CASE ContainerEvent(c, state)
      BY <1>1, <3>2 DEF ContainerEvent
    <3>3. CASE TemplateChange(c, state)
      BY <1>1, <3>3 DEF TemplateChange
    <3> QED BY <1>21, <3>1, <3>2, <3>3
  <2> QED BY <1>1, <1>2, <2>1, <2>2, <2>3 DEF loopVars
<1>22. CASE UNCHANGED vars
  BY <1>1, <1>2, <1>22 DEF vars, loopVars, worldVars
<1> QED
  BY <1>5, <1>6, <1>7, <1>8, <1>9, <1>10, <1>11, <1>12, <1>13, <1>14, <1>15, <1>16, <1>17, <1>Block,
     <1>18, <1>19, <1>20, <1>21, <1>22 DEF Next, Loop

(* The invariant is inductive. *)
LEMMA InvNext == Inv /\ [Next]_vars => Inv'
<1> SUFFICES ASSUME Inv, [Next]_vars PROVE Inv'
  OBVIOUS
<1>1. TypeOK' /\ ListOK(initialized', initFailed')
  BY ListNext, TypeNext
<1> QED BY <1>1 DEF Inv, TypeOK, OnePerName, RunningOrFailed, ListOK, Names

-----------------------------------------------------------------------------
(* The collector process is in an invariant state at every moment, for every set
   of checks and any number of signals, configuration changes and failures: the
   types of its state, no duplicate check, none both running and failed except
   the ones datadog.conf configures the old way. *)
THEOREM InvariantHolds == Spec => []Inv
BY InvInit, InvNext, PTL DEF Spec

(* Every variable of the collector process keeps its type: in particular each
   reload leaves a proper list of checks in Agent._checksd. *)
THEOREM TypeCorrect == Spec => []TypeOK
<1>1. Inv => TypeOK
  BY DEF Inv
<1> QED BY <1>1, InvariantHolds, PTL

(* However full reloads (reload_configs) and partial ones
   (refresh_specific_checks) follow each other, no check runs twice. *)
THEOREM OnePerNameHolds == Spec => []OnePerName
<1>1. Inv => OnePerName
  BY DEF Inv
<1> QED BY <1>1, InvariantHolds, PTL

(* No check is reported both as running and as failed to initialize, although
   refresh_specific_checks forgets an earlier failure only for a check that is
   first in the list, or not in it; the deprecated options of datadog.conf, which
   load_check_directory adds to the failures at its end, are the one exception. *)
THEOREM RunningOrFailedHolds == Spec => []RunningOrFailed
<1>1. Inv => RunningOrFailed
  BY DEF Inv
<1> QED BY <1>1, InvariantHolds, PTL
=============================================================================
