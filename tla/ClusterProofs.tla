---------------------------- MODULE ClusterProofs ----------------------------
(***************************************************************************)
(* What the composition of the coordinator and its worker units promises,  *)
(* for every set of applications, units and roles, every choice of leaders *)
(* and any number of disruptions.                                          *)
(***************************************************************************)
EXTENDS Cluster, CoordinatorProofs

-----------------------------------------------------------------------------
(* The coordinator in the cluster is Coordinator. *)

LEMMA StepIsOfCoordinator == Typed /\ [ClusterNext]_clusterVars => [Next]_vars
  <1> SUFFICES ASSUME Typed, [ClusterNext]_clusterVars PROVE [Next]_vars
    OBVIOUS
  <1>1. CASE Surroundings
    <2>1. ASSUME NEW a \in Apps, ConfigureRoles(a) \/ AppIsRelated(a) \/ AppIsRemoved(a)
          PROVE  [Next]_vars
      BY <2>1 DEF ConfigureRoles, AppIsRelated, AppIsRemoved, Next, SurroundingsChange
    <2>2. ASSUME NEW u \in Units, UnitComes(u) \/ UnitGoes(u) \/ ContainerLost(u)
          PROVE  [Next]_vars
      BY <2>2 DEF UnitComes, UnitGoes, ContainerLost, Next, SurroundingsChange
    <2>3. CASE CoordinatorDisturbed
      BY <2>3 DEF CoordinatorDisturbed, Next, SurroundingsChange
    <2> QED
      BY <1>1, <2>1, <2>2, <2>3 DEF Surroundings
  <1>2. ASSUME NEW c \in Peers, CoordinatorStep(c) PROVE [Next]_vars
    BY <1>2 DEF CoordinatorStep, Handle, Proceed, Resume, Next
  <1>3. ASSUME NEW u \in Units, UnitStep(u) PROVE [Next]_vars
    <2>1. CASE UnitStarts(u) \/ UnitRetries(u) \/ UnitFails(u)
      BY <2>1 DEF UnitStarts, UnitRetries, UnitFails, Read
    <2>2. CASE UnitFinishes(u) /\ Publishes(u)
      <3>1. UnitPublishes(u, PublishedRoles(u))
        BY <2>2 DEF UnitFinishes
      <3>2. AppOf[u] \in Apps /\ Advertised \subseteq SUBSET Roles
        BY CoordinatorAssumption
      <3>3. cluster[AppOf[u]] \in ClusterData
        BY <3>1, <3>2 DEF UnitPublishes, Typed, TypeOK
      <3>4. PublishedRoles(u) \in SUBSET Roles
        BY <3>1, <3>2, <3>3 DEF UnitPublishes, ClusterData
      <3> QED
        BY <3>1, <3>4 DEF Next, SurroundingsChange
    <2>3. CASE UnitFinishes(u) /\ ~Publishes(u)
      BY <2>3 DEF UnitFinishes
    <2> QED
      BY <1>3, <2>1, <2>2, <2>3 DEF UnitStep
  <1>4. CASE UNCHANGED clusterVars
    BY <1>4 DEF clusterVars
  <1> QED
    BY <1>1, <1>2, <1>3, <1>4 DEF ClusterNext

\* The worker units do what Coordinator expects of its surroundings: what holds of the
\* coordinator on its own holds of it in the cluster.
THEOREM ClusterImplementsCoordinator == ClusterSpec => Spec
  <1>1. ClusterInit => Init
    BY DEF ClusterInit
  <1> QED
    BY <1>1, InitTyped, NextTyped, StepIsOfCoordinator, PTL DEF ClusterSpec, Spec

-----------------------------------------------------------------------------
(* The worker units follow. *)

USE ClusterAssumption, CoordinatorAssumption

LEMMA InputTyped ==
    ASSUME TypeOK, options \in [Apps -> SUBSET Roles], NEW u \in Units
    PROVE  Input(u) \in Inputs
  BY DEF TypeOK, Input, Inputs

LEMMA WantedTyped == WantedFiles \in [Inputs -> Disks]
  <1> SUFFICES ASSUME NEW i \in Inputs
               PROVE  (IF i.view \in {NoData, NoRelation} \/ i.roles = {} THEN EmptyDisk
                       ELSE [config |-> i.view.worker_config, tls |-> i.view.tls]) \in Disks
    BY DEF WantedFiles
  <1>1. EmptyDisk \in Disks
    BY DEF EmptyDisk, Disks
  <1>2. CASE i.view \in Publications
    BY <1>1, <1>2 DEF Publications, Disks
  <1>3. CASE i.view \in {NoData, NoRelation}
    BY <1>1, <1>3
  <1> QED
    BY <1>2, <1>3 DEF Inputs

\* A unit that is told of what it reads and does nothing else goes on following.
LEMMA ToldFollows ==
    ASSUME NEW u \in Units, stale \in [Units -> BOOLEAN], UnitFollows(u), TellUnits,
           UNCHANGED <<lost, phase, seen, files>>
    PROVE  UnitFollows(u)'
  <1>1. stale'[u] = (stale[u] \/ Input(u)' # Input(u))
    BY DEF TellUnits
  <1>2. CASE ~stale'[u]
    <2>1. ~stale[u] /\ Input(u)' = Input(u)
      BY <1>1, <1>2
    <2> QED
      BY <2>1 DEF UnitFollows
  <1>3. CASE stale'[u]
    BY <1>3 DEF UnitFollows
  <1> QED
    BY <1>2, <1>3

\* What a hook publishes is nothing that a unit reads.
LEMMA PublishingIsUnread ==
    ASSUME Typed, NEW u \in Units, NEW w \in Units, UnitFinishes(u)
    PROVE  Input(w)' = Input(w)
  <1>1. CASE Publishes(u)
    <2> DEFINE a == AppOf[u]
    <2>1. UnitPublishes(u, PublishedRoles(u))
      BY <1>1 DEF UnitFinishes
    <2>2. /\ cluster[a] # NoRelation
          /\ cluster' = [cluster EXCEPT ![a] =
                           [cluster[a] EXCEPT !.published = @ \cup {u}, !.roles = PublishedRoles(u)]]
          /\ UNCHANGED <<databag, options>>
      BY <2>1 DEF UnitPublishes, ClusterChanges, UnitFinishes
    <2>3. cluster \in [Apps -> ClusterData \cup {NoRelation}] /\ a \in Apps /\ AppOf[w] \in Apps
      BY DEF Typed, TypeOK
    <2>4. cluster[a] \in ClusterData
      BY <2>2, <2>3
    <2>5. PublishedRoles(u) \in SUBSET Roles
      BY <2>1, <2>4 DEF UnitPublishes, ClusterData
    <2>6. cluster'[a] \in ClusterData /\ cluster'[a].joined = cluster[a].joined
      BY <2>2, <2>3, <2>4, <2>5 DEF ClusterData
    <2>7. cluster'[a] # NoRelation
      BY <2>6 DEF ClusterData
    <2>8. Joined(w)' = Joined(w)
      BY <2>2, <2>3, <2>6, <2>7 DEF Joined
    <2> QED
      BY <2>2, <2>8 DEF Input
  <1>2. CASE ~Publishes(u)
    BY <1>2 DEF UnitFinishes, vars, Input, Joined
  <1> QED
    BY <1>1, <1>2

LEMMA InitFollows == ClusterInit => ClusterSafety
  <1> SUFFICES ASSUME ClusterInit PROVE ClusterSafety
    OBVIOUS
  <1>1. ClusterTypeOK
    <2>1. TypeOK
      BY InitTyped DEF ClusterInit, Typed
    <2>2. EmptyDisk \in Disks
      BY DEF EmptyDisk, Disks
    <2> QED
      BY <2>1, <2>2 DEF ClusterInit, ClusterTypeOK
  <1>2. ASSUME NEW u \in Units PROVE UnitFollows(u)
    BY DEF ClusterInit, UnitFollows
  <1> QED
    BY <1>1, <1>2 DEF ClusterSafety

\* What is told leaves the units as they are but for their queues.
LEMMA ToldSafe ==
    ASSUME ClusterSafety, Typed', options' \in [Apps -> SUBSET Roles], TellUnits,
           disruptions' \in 0..Disruptions, UNCHANGED <<lost, phase, seen, files>>
    PROVE  ClusterSafety'
  <1>1. stale' \in [Units -> BOOLEAN]
    BY DEF TellUnits, ClusterSafety, ClusterTypeOK
  <1>2. ClusterTypeOK'
    BY <1>1 DEF ClusterSafety, ClusterTypeOK, Typed
  <1>3. ASSUME NEW u \in Units PROVE UnitFollows(u)'
    BY ToldFollows DEF ClusterSafety, ClusterTypeOK
  <1> QED
    BY <1>2, <1>3 DEF ClusterSafety

LEMMA SurroundingsFollowed ==
    ASSUME Typed, Typed', ClusterSafety, Surroundings
    PROVE  ClusterSafety'
  <1> USE DEF Told, Aside, Disrupt
  <1>0. disruptions \in 0..Disruptions /\ Disruptions \in Nat /\ options \in [Apps -> SUBSET Roles]
    BY DEF ClusterSafety, ClusterTypeOK
  <1>1. ASSUME NEW a \in Apps, ConfigureRoles(a) \/ AppIsRelated(a) \/ AppIsRemoved(a)
        PROVE  ClusterSafety'
    BY <1>0, <1>1, ToldSafe DEF ConfigureRoles, AppIsRelated, AppIsRemoved
  <1>2. ASSUME NEW u \in Units, UnitComes(u) \/ UnitGoes(u) PROVE ClusterSafety'
    BY <1>0, <1>2, ToldSafe DEF UnitComes, UnitGoes
  <1>3. ASSUME NEW u \in Units, ContainerLost(u) PROVE ClusterSafety'
    <2>1. ClusterTypeOK'
      <3>1. EmptyDisk \in Disks
        BY DEF EmptyDisk, Disks
      <3> QED
        BY <1>0, <1>3, <3>1 DEF ContainerLost, ClusterSafety, ClusterTypeOK, Typed
    <2>2. ASSUME NEW w \in Units PROVE UnitFollows(w)'
      <3>1. Input(w)' = Input(w)
        BY <1>3 DEF ContainerLost, vars, Input, Joined
      <3>2. CASE w = u
        BY <1>3, <3>1, <3>2 DEF ContainerLost, UnitFollows, ClusterSafety, ClusterTypeOK
      <3>3. CASE w # u
        BY <1>3, <3>1, <3>3 DEF ContainerLost, UnitFollows, ClusterSafety, ClusterTypeOK
      <3> QED
        BY <3>2, <3>3
    <2> QED
      BY <2>1, <2>2 DEF ClusterSafety
  <1>4. CASE CoordinatorDisturbed
    BY <1>0, <1>4, ToldSafe DEF CoordinatorDisturbed
  <1> QED
    BY <1>1, <1>2, <1>3, <1>4 DEF Surroundings

LEMMA UnitStepFollows ==
    ASSUME Typed, Typed', ClusterSafety, NEW u \in Units, UnitStep(u)
    PROVE  ClusterSafety'
  <1>0. /\ disruptions \in 0..Disruptions /\ Disruptions \in Nat
        /\ options \in [Apps -> SUBSET Roles]
        /\ stale \in [Units -> BOOLEAN] /\ lost \in [Units -> BOOLEAN]
        /\ phase \in [Units -> {"rest", "hook", "failed"}]
        /\ seen \in [Units -> Inputs \cup {NoInput}]
        /\ files \in [Units -> Disks \cup {InFlux}]
        /\ TypeOK /\ TypeOK'
    BY DEF ClusterSafety, ClusterTypeOK, Typed
  <1>1. CASE UnitStarts(u) \/ UnitRetries(u)
    <2>1. Read(u)
      BY <1>1 DEF UnitStarts, UnitRetries
    <2>2. Input(u) \in Inputs
      BY <1>0, InputTyped
    <2>3. ClusterTypeOK'
      <3>1. stale' \in [Units -> BOOLEAN] /\ lost' \in [Units -> BOOLEAN]
        BY <1>0, <2>1 DEF Read
      <3>2. /\ phase' \in [Units -> {"rest", "hook", "failed"}]
            /\ seen' \in [Units -> Inputs \cup {NoInput}]
            /\ files' \in [Units -> Disks \cup {InFlux}]
            /\ UNCHANGED <<options, disruptions>>
        BY <1>0, <2>1, <2>2 DEF Read
      <3> QED
        BY <1>0, <3>1, <3>2 DEF ClusterTypeOK
    <2>4. ASSUME NEW w \in Units PROVE UnitFollows(w)'
      <3>1. Input(w)' = Input(w)
        BY <2>1 DEF Read, vars, Input, Joined
      <3>2. CASE w = u
        BY <1>0, <2>1, <2>2, <3>1, <3>2 DEF Read, UnitFollows
      <3>3. CASE w # u
        BY <1>0, <2>1, <3>1, <3>3 DEF Read, UnitFollows, ClusterSafety
      <3> QED
        BY <3>2, <3>3
    <2> QED
      BY <2>3, <2>4 DEF ClusterSafety
  <1>2. CASE UnitFails(u)
    <2>1. ClusterTypeOK'
      BY <1>0, <1>2 DEF UnitFails, Disrupt, ClusterTypeOK
    <2>2. ASSUME NEW w \in Units PROVE UnitFollows(w)'
      <3>1. Input(w)' = Input(w)
        BY <1>2 DEF UnitFails, vars, Input, Joined
      <3> QED
        BY <1>0, <1>2, <3>1 DEF UnitFails, UnitFollows, ClusterSafety
    <2> QED
      BY <2>1, <2>2 DEF ClusterSafety
  <1>3. CASE UnitFinishes(u)
    <2> PICK left \in {LeftFiles(u)} \cup (IF lost[u] THEN {EmptyDisk} ELSE {}) :
          files' = [files EXCEPT ![u] = left]
      BY <1>3 DEF UnitFinishes
    <2>1. LeftFiles(u) \in Disks /\ EmptyDisk \in Disks
      BY <1>0, <1>3, WantedTyped
         DEF UnitFinishes, LeftFiles, EmptyDisk, Disks, ClusterSafety, UnitFollows
    <2>2. ClusterTypeOK'
      BY <1>0, <1>3, <2>1 DEF UnitFinishes, ClusterTypeOK
    <2>3. ASSUME NEW w \in Units PROVE UnitFollows(w)'
      <3>1. Input(w)' = Input(w)
        BY <1>3, PublishingIsUnread
      <3>2. CASE w = u
        <4>1. ~stale[u] /\ ~lost[u] => files'[u] = WantedFiles[Input(u)]
          BY <1>0, <1>3 DEF UnitFinishes, LeftFiles, ClusterSafety, UnitFollows
        <4> QED
          BY <1>0, <1>3, <3>1, <3>2, <4>1 DEF UnitFinishes, UnitFollows
      <3>3. CASE w # u
        BY <1>0, <1>3, <3>1, <3>3 DEF UnitFinishes, UnitFollows, ClusterSafety
      <3> QED
        BY <3>2, <3>3
    <2> QED
      BY <2>2, <2>3 DEF ClusterSafety
  <1> QED
    BY <1>1, <1>2, <1>3 DEF UnitStep

LEMMA ClusterStepFollows ==
    Typed /\ Typed' /\ ClusterSafety /\ [ClusterNext]_clusterVars => ClusterSafety'
  <1> SUFFICES ASSUME Typed, Typed', ClusterSafety, [ClusterNext]_clusterVars
               PROVE  ClusterSafety'
    OBVIOUS
  <1>1. ASSUME NEW c \in Peers, CoordinatorStep(c) PROVE ClusterSafety'
    <2>1. Aside
      BY <1>1 DEF CoordinatorStep, Handle, Proceed, Resume
    <2> QED
      BY <2>1, ToldSafe DEF Aside, Told, ClusterSafety, ClusterTypeOK
  <1>2. CASE UNCHANGED clusterVars
    <2>1. ASSUME NEW u \in Units PROVE UnitFollows(u)'
      <3>1. Input(u)' = Input(u)
        BY <1>2 DEF clusterVars, vars, Input, Joined
      <3> QED
        BY <1>2, <3>1 DEF clusterVars, ClusterSafety, UnitFollows
    <2> QED
      BY <1>2, <2>1 DEF clusterVars, ClusterSafety, ClusterTypeOK, Typed
  <1> QED
    BY <1>1, <1>2, SurroundingsFollowed, UnitStepFollows DEF ClusterNext

LEMMA ClusterTyped == ClusterSpec => []Typed
  BY ClusterImplementsCoordinator, InitTyped, NextTyped, PTL DEF Spec

\* ClusterSafety: what a unit is behind with is in its queue, and its files are those of
\* the databag and the options otherwise.
THEOREM UnitsFollow == ClusterSpec => []ClusterSafety
  BY ClusterTyped, InitFollows, ClusterStepFollows, PTL DEF ClusterSpec

-----------------------------------------------------------------------------
(* Every unit keeps the promise of Unit. *)

LEMMA UnitBegins == ASSUME ClusterInit, NEW u \in Units PROVE U(u)!Init
  <1>1. TypeOK /\ options \in [Apps -> SUBSET Roles]
    BY InitTyped DEF ClusterInit, Typed
  <1>2. Input(u) \in Inputs
    BY <1>1, InputTyped
  <1> QED
    BY <1>2 DEF ClusterInit, U!Init

LEMMA ToldChanges ==
    ASSUME Typed', ClusterSafety, ClusterSafety', NEW u \in Units, TellUnits,
           UNCHANGED <<lost, phase, seen, files>>
    PROVE  [U(u)!Next]_(U(u)!vars)
  <1>1. Input(u)' \in Inputs
    BY DEF ClusterSafety, ClusterTypeOK, Typed, TypeOK, Input, Inputs
  <1>2. /\ stale[u] \in BOOLEAN
        /\ stale'[u] = (stale[u] \/ Input(u)' # Input(u))
        /\ UNCHANGED <<lost[u], phase[u], seen[u], files[u]>>
    BY DEF TellUnits, ClusterSafety, ClusterTypeOK
  <1>3. CASE stale'[u] = TRUE
    <2>1. U(u)!Change
      BY <1>1, <1>2, <1>3 DEF U!Change
    <2> QED
      BY <2>1 DEF U!Next
  <1>4. CASE stale'[u] # TRUE
    <2>1. stale'[u] = stale[u] /\ Input(u)' = Input(u)
      BY <1>2, <1>4
    <2> QED
      BY <1>2, <2>1 DEF U!vars
  <1> QED
    BY <1>3, <1>4

\* Whatever leaves a unit and what it reads alone is nothing to it.
LEMMA NotItsStep ==
    ASSUME NEW u \in Units, Input(u)' = Input(u),
           UNCHANGED <<stale[u], lost[u], phase[u], seen[u], files[u]>>
    PROVE  [U(u)!Next]_(U(u)!vars)
  BY DEF U!vars

LEMMA DisruptionsSimulate ==
    ASSUME Typed, Typed', ClusterSafety, ClusterSafety', Surroundings, NEW w \in Units
    PROVE  [U(w)!Next]_(U(w)!vars)
  <1>1. ASSUME NEW a \in Apps, ConfigureRoles(a) \/ AppIsRelated(a) \/ AppIsRemoved(a)
        PROVE  [U(w)!Next]_(U(w)!vars)
    BY <1>1, ToldChanges DEF ConfigureRoles, AppIsRelated, AppIsRemoved, Told, Aside
  <1>2. ASSUME NEW u \in Units, UnitComes(u) \/ UnitGoes(u)
        PROVE  [U(w)!Next]_(U(w)!vars)
    BY <1>2, ToldChanges DEF UnitComes, UnitGoes, Told, Aside
  <1>3. ASSUME NEW u \in Units, ContainerLost(u) PROVE [U(w)!Next]_(U(w)!vars)
    <2>1. Input(w)' = Input(w)
      BY <1>3 DEF ContainerLost, vars, Input, Joined
    <2>2. CASE w = u
      <3>1. U(w)!Lose
        BY <1>3, <2>1, <2>2 DEF ContainerLost, U!Lose, ClusterSafety, ClusterTypeOK
      <3> QED
        BY <3>1 DEF U!Next
    <2>3. CASE w # u
      <3>1. UNCHANGED <<stale[w], lost[w], phase[w], seen[w], files[w]>>
        BY <1>3, <2>3 DEF ContainerLost, ClusterSafety, ClusterTypeOK
      <3> QED
        BY <2>1, <3>1, NotItsStep
    <2> QED
      BY <2>2, <2>3
  <1>4. CASE CoordinatorDisturbed
    BY <1>4, ToldChanges DEF CoordinatorDisturbed, Told
  <1> QED
    BY <1>1, <1>2, <1>3, <1>4 DEF Surroundings

LEMMA UnitStepSimulates ==
    ASSUME Typed, Typed', ClusterSafety, ClusterSafety',
           NEW u \in Units, UnitStep(u), NEW w \in Units
    PROVE  [U(w)!Next]_(U(w)!vars)
  <1>0. /\ stale \in [Units -> BOOLEAN] /\ lost \in [Units -> BOOLEAN]
        /\ phase \in [Units -> {"rest", "hook", "failed"}]
        /\ seen \in [Units -> Inputs \cup {NoInput}]
        /\ files \in [Units -> Disks \cup {InFlux}]
        /\ UnitFollows(w)
    BY DEF ClusterSafety, ClusterTypeOK
  <1>1. Input(w)' = Input(w)
    <2>1. CASE UnitFinishes(u)
      BY <2>1, PublishingIsUnread
    <2>2. CASE ~UnitFinishes(u)
      BY <2>2 DEF UnitStep, UnitStarts, UnitRetries, UnitFails, Read, vars, Input, Joined
    <2> QED
      BY <2>1, <2>2
  <1>2. CASE w # u
    <2>1. UNCHANGED <<stale[w], lost[w], phase[w], seen[w], files[w]>>
      BY <1>0, <1>2 DEF UnitStep, UnitStarts, UnitRetries, UnitFails, UnitFinishes, Read
    <2> QED
      BY <1>1, <2>1, NotItsStep
  <1>3. CASE w = u /\ Read(w)
    <2>1. U(w)!Read
      <3>1. stale'[w] = FALSE /\ lost'[w] \in {lost[w], FALSE}
        BY <1>0, <1>3 DEF Read
      <3>2. seen'[w] = Input(w) /\ phase'[w] = "hook" /\ files'[w] = InFlux
        BY <1>0, <1>3 DEF Read
      <3> QED
        BY <1>1, <3>1, <3>2 DEF U!Read
    <2>2. phase[w] \in {"rest", "failed"}
      <3>1. phase'[w] = "hook"
        BY <1>0, <1>3 DEF Read
      <3>2. ~UnitFails(w) /\ ~UnitFinishes(w)
        BY <1>0, <3>1 DEF UnitFails, UnitFinishes
      <3> QED
        BY <1>3, <3>2 DEF UnitStep, UnitStarts, UnitRetries
    <2> QED
      BY <2>1, <2>2 DEF U!Next, U!Start, U!Retry
  <1>4. CASE w = u /\ UnitFails(w)
    <2>1. U(w)!Fail
      BY <1>0, <1>1, <1>4 DEF UnitFails, U!Fail
    <2> QED
      BY <2>1 DEF U!Next
  <1>5. CASE w = u /\ UnitFinishes(w)
    <2> PICK left \in {LeftFiles(w)} \cup (IF lost[w] THEN {EmptyDisk} ELSE {}) :
          files' = [files EXCEPT ![w] = left]
      BY <1>5 DEF UnitFinishes
    <2>1. LeftFiles(w) \in Disks /\ EmptyDisk \in Disks
      BY <1>0, <1>5, WantedTyped DEF UnitFinishes, LeftFiles, EmptyDisk, Disks, UnitFollows
    <2>2. /\ phase[w] = "hook" /\ phase'[w] = "rest" /\ seen'[w] = NoInput
          /\ stale'[w] = stale[w] /\ lost'[w] = lost[w]
          /\ files'[w] \in IF lost[w] THEN Disks ELSE {WantedFiles[seen[w]]}
      BY <1>0, <1>5, <2>1 DEF UnitFinishes, LeftFiles
    <2>3. stale[w] \/ seen[w] = Input(w)
      BY <1>0, <2>2 DEF UnitFollows
    <2>4. U(w)!Finish
      BY <1>0, <1>1, <2>2, <2>3 DEF U!Finish
    <2> QED
      BY <2>4 DEF U!Next
  <1> QED
    BY <1>2, <1>3, <1>4, <1>5 DEF UnitStep, UnitStarts, UnitRetries

LEMMA StepKeepsPromise ==
    Typed /\ Typed' /\ ClusterSafety /\ ClusterSafety' /\ [ClusterNext]_clusterVars =>
        \A u \in Units : [U(u)!Next]_(U(u)!vars)
  <1> SUFFICES ASSUME Typed, Typed', ClusterSafety, ClusterSafety', [ClusterNext]_clusterVars,
                      NEW w \in Units
               PROVE  [U(w)!Next]_(U(w)!vars)
    OBVIOUS
  <1>1. ASSUME NEW c \in Peers, CoordinatorStep(c) PROVE [U(w)!Next]_(U(w)!vars)
    BY <1>1, ToldChanges DEF CoordinatorStep, Handle, Proceed, Resume, Aside, Told
  <1>2. CASE UNCHANGED clusterVars
    BY <1>2, NotItsStep DEF clusterVars, vars, Input, Joined
  <1> QED
    BY <1>1, <1>2, DisruptionsSimulate, UnitStepSimulates DEF ClusterNext

\* UnitsKeepPromise: in the cluster each unit does what Unit says, which is what Worker
\* does step by step; so the composition rests on what the code of a unit was shown to do.
THEOREM UnitsImplementUnit == ClusterSpec => UnitsKeepPromise
  <1>1. ClusterInit => \A u \in Units : U(u)!Init
    BY UnitBegins
  <1>2. Typed /\ Typed' /\ ClusterSafety /\ ClusterSafety' /\ [ClusterNext]_clusterVars =>
            [\A u \in Units : [U(u)!Next]_(U(u)!vars)]_clusterVars
    BY StepKeepsPromise
  <1> QED
    BY <1>1, <1>2, ClusterTyped, UnitsFollow, PTL DEF ClusterSpec, UnitsKeepPromise

-----------------------------------------------------------------------------
(* From the databags of all units to the files of each. *)

LEMMA QuietIsDelivered ==
    Typed /\ ClusterSafety /\ PublishedIsCurrent => DeliveredWhenQuiet
  <1> SUFFICES ASSUME Typed, ClusterSafety, PublishedIsCurrent,
                      AllQuiet, CanHandleEvents(Present),
                      NEW u \in Units, HasRoles(u), RemoteDataReady(Present, AppOf[u])
               PROVE  UpToDate(u)
    BY DEF DeliveredWhenQuiet
  <1> DEFINE a == AppOf[u]
  <1>1. leader \in Peers /\ a \in Apps
    BY DEF Typed, TypeOK
  <1>2. databag[a] = Publication(leader, Present, a)
    BY <1>1 DEF PublishedIsCurrent, AllQuiet, Present
  <1>3. databag[a] \in Publications
    <2>1. Present \in Views
      BY <1>1, NowTyped DEF Present, Typed
    <2>2. a \in Related(Present)
      BY DEF RemoteDataReady
    <2> QED
      BY <1>1, <1>2, <2>1, <2>2, PublicationTyped
  <1>4. Input(u) = [view |-> databag[a], roles |-> options[a]] /\ options[a] # {}
    BY DEF HasRoles, Input
  <1>5. Input(u) \in Inputs
    BY InputTyped DEF ClusterSafety, ClusterTypeOK
  <1>6. files[u] = WantedFiles[Input(u)]
    BY DEF AllQuiet, UnitIsQuiet, ClusterSafety, UnitFollows
  <1>7. databag[a] \notin {NoData, NoRelation}
    BY <1>3
  <1>8. files[u] = [config |-> databag[a].worker_config, tls |-> databag[a].tls]
    BY <1>4, <1>5, <1>6, <1>7 DEF WantedFiles
  <1> QED
    BY <1>2, <1>8 DEF UpToDate

\* DeliveredWhenQuiet: with nothing left to do, every worker runs with what the coordinator
\* computes from the cluster as it is now.
THEOREM QuietClustersAreDelivered == ClusterSpec => []DeliveredWhenQuiet
  BY ClusterImplementsCoordinator, PublicationsConverge, ClusterTyped, UnitsFollow,
     QuietIsDelivered, PTL
=============================================================================
