----------------------------- MODULE ProbeProofs -----------------------------
(***************************************************************************)
(* What the consistency probe accepts is what the coordinator sees, for    *)
(* every set of applications, units and roles.  Both count: the probe the  *)
(* units of an export, the coordinator those whose application has         *)
(* published a role.  The proof maps each unit that the probe counts to    *)
(* one of its own that the coordinator counts.                             *)
(***************************************************************************)
EXTENDS ClusterProofs, FiniteSetTheorems

-----------------------------------------------------------------------------
(* Counting.  D is a set of applications, own what each of them has of its own. *)

\* The members of a finite set T, numbered.
Numbering(T) == CHOOSE f : f \in Bijection(1..Cardinality(T), T)

LEMMA NumberingCounts ==
    ASSUME NEW T, IsFiniteSet(T)
    PROVE  /\ Numbering(T) \in [1..Cardinality(T) -> T]
           /\ \A i, j \in 1..Cardinality(T) : Numbering(T)[i] = Numbering(T)[j] => i = j
  <1>1. \E f : f \in Bijection(1..Cardinality(T), T)
    BY FS_CardinalityType DEF ExistsBijection
  <1>2. Numbering(T) \in Bijection(1..Cardinality(T), T)
    BY <1>1 DEF Numbering
  <1> QED
    BY <1>2 DEF Bijection, Injection, IsInjective

\* The numbers of the members of own[a], for each a in D; and with each of them what on[a] has.
Numbers(D, own) == UNION {{a} \X (1..Cardinality(own[a])) : a \in D}
Pairs(D, own, on) == UNION {({a} \X (1..Cardinality(own[a]))) \X on[a] : a \in D}

\* What is numbered in each application is no more than all that they have together.
LEMMA CountedOnce ==
    ASSUME NEW D, NEW own, NEW S, IsFiniteSet(S), \A a \in D : own[a] \subseteq S,
           \A a, b \in D : own[a] \cap own[b] # {} => a = b
    PROVE  /\ Cardinality(Numbers(D, own)) \in Nat
           /\ Cardinality(Numbers(D, own)) <= Cardinality(S)
  <1> DEFINE numbers == Numbers(D, own)
  <1>1. \A a \in D : IsFiniteSet(own[a])
    BY FS_Subset
  <1> DEFINE g == [x \in numbers |-> Numbering(own[x[1]])[x[2]]]
  <1>2. \A x \in numbers : x = <<x[1], x[2]>> /\ x[1] \in D /\ x[2] \in 1..Cardinality(own[x[1]])
    BY DEF Numbers
  <1> HIDE DEF numbers
  <1>3. \A x \in numbers : g[x] = Numbering(own[x[1]])[x[2]] /\ g[x] \in own[x[1]]
    <2> TAKE x \in numbers
    <2>1. x[1] \in D /\ x[2] \in 1..Cardinality(own[x[1]])
      BY <1>2
    <2>2. Numbering(own[x[1]]) \in [1..Cardinality(own[x[1]]) -> own[x[1]]]
      BY <1>1, <2>1, NumberingCounts
    <2>3. Numbering(own[x[1]])[x[2]] \in own[x[1]]
      BY <2>1, <2>2
    <2> QED
      BY <2>3
  <1>4. \A a \in D : \A i, j \in 1..Cardinality(own[a]) :
           Numbering(own[a])[i] = Numbering(own[a])[j] => i = j
    BY <1>1, NumberingCounts
  <1> HIDE DEF g
  <1>5. g \in [numbers -> S]
    BY <1>2, <1>3 DEF g
  <1>6. ASSUME NEW x \in numbers, NEW y \in numbers, g[x] = g[y] PROVE x = y
    <2>1. x[1] = y[1]
      BY <1>2, <1>3, <1>6
    <2>2. x[2] = y[2]
      BY <1>2, <1>3, <1>4, <1>6, <2>1
    <2> QED
      BY <1>2, <2>1, <2>2
  <1>7. g \in Injection(numbers, S)
    BY <1>5, <1>6 DEF Injection, IsInjective
  <1>8. IsFiniteSet(numbers) /\ Cardinality(numbers) <= Cardinality(S)
    BY <1>7, FS_Injection
  <1> QED
    BY <1>8, FS_CardinalityType DEF numbers

\* Nor is it when each number is paired with one option at most.
LEMMA CountedOnceWithOptions ==
    ASSUME NEW D, NEW own, NEW on, NEW S, IsFiniteSet(S), \A a \in D : IsFiniteSet(own[a]),
           \A a \in D : on[a] # {} => own[a] \subseteq S,
           \A a, b \in D : own[a] \cap own[b] # {} => a = b,
           \A a \in D : \A o, p \in on[a] : o = p
    PROVE  /\ Cardinality(Pairs(D, own, on)) \in Nat
           /\ Cardinality(Pairs(D, own, on)) <= Cardinality(S)
  <1> DEFINE pairs == Pairs(D, own, on)
  <1> DEFINE g == [x \in pairs |-> Numbering(own[x[1][1]])[x[1][2]]]
  <1>1. \A x \in pairs :
           /\ x = <<x[1], x[2]>> /\ x[1] = <<x[1][1], x[1][2]>>
           /\ x[1][1] \in D /\ x[1][2] \in 1..Cardinality(own[x[1][1]])
           /\ x[2] \in on[x[1][1]]
    BY DEF Pairs
  <1> HIDE DEF pairs
  <1>2. \A x \in pairs : g[x] = Numbering(own[x[1][1]])[x[1][2]] /\ g[x] \in own[x[1][1]]
    <2> TAKE x \in pairs
    <2>1. x[1][1] \in D /\ x[1][2] \in 1..Cardinality(own[x[1][1]])
      BY <1>1
    <2>2. Numbering(own[x[1][1]]) \in [1..Cardinality(own[x[1][1]]) -> own[x[1][1]]]
      BY <2>1, NumberingCounts
    <2>3. Numbering(own[x[1][1]])[x[1][2]] \in own[x[1][1]]
      BY <2>1, <2>2
    <2> QED
      BY <2>3
  <1>3. \A a \in D : \A i, j \in 1..Cardinality(own[a]) :
           Numbering(own[a])[i] = Numbering(own[a])[j] => i = j
    BY NumberingCounts
  <1> HIDE DEF g
  <1>4. g \in [pairs -> S]
    <2>1. \A x \in pairs : g[x] \in S
      BY <1>1, <1>2
    <2> QED
      BY <2>1 DEF g
  <1>5. ASSUME NEW x \in pairs, NEW y \in pairs, g[x] = g[y] PROVE x = y
    <2>1. x[1][1] = y[1][1]
      BY <1>1, <1>2, <1>5
    <2>2. x[1][2] = y[1][2]
      BY <1>1, <1>2, <1>3, <1>5, <2>1
    <2>3. x[2] = y[2]
      BY <1>1, <2>1
    <2> QED
      BY <1>1, <2>1, <2>2, <2>3
  <1>6. g \in Injection(pairs, S)
    BY <1>4, <1>5 DEF Injection, IsInjective
  <1>7. IsFiniteSet(pairs) /\ Cardinality(pairs) <= Cardinality(S)
    BY <1>6, FS_Injection
  <1> QED
    BY <1>7, FS_CardinalityType DEF pairs

USE ClusterAssumption, CoordinatorAssumption

-----------------------------------------------------------------------------
(* Which units have joined, and what is published for them. *)

\* The units of a relation are those of its application.
JoinedAreOwn ==
    \A a \in Apps : cluster[a] # NoRelation =>
        cluster[a].joined \subseteq {u \in Units : AppOf[u] = a}

LEMMA ChangedAlone ==
    ASSUME TypeOK, NEW a \in Apps, NEW data \in ClusterData \cup {NoRelation},
           ClusterChanges(a, data)
    PROVE  /\ cluster'[a] = data
           /\ \A b \in Apps \ {a} : cluster'[b] = cluster[b]
  BY DEF TypeOK, ClusterChanges

LEMMA JoinedStep == Typed /\ JoinedAreOwn /\ [Next]_vars => JoinedAreOwn'
  <1> SUFFICES ASSUME Typed, JoinedAreOwn, [Next]_vars PROVE JoinedAreOwn'
    OBVIOUS
  <1>0. TypeOK /\ cluster \in [Apps -> ClusterData \cup {NoRelation}]
    BY DEF Typed, TypeOK
  <1>1. ASSUME NEW a \in Apps, NEW data \in ClusterData \cup {NoRelation},
               ClusterChanges(a, data),
               data # NoRelation => data.joined \subseteq {u \in Units : AppOf[u] = a}
        PROVE  JoinedAreOwn'
    BY <1>0, <1>1, ChangedAlone DEF JoinedAreOwn
  <1>2. ASSUME NEW a \in Apps, Relate(a) PROVE JoinedAreOwn'
    <2> DEFINE data == [roles |-> {}, joined |-> {}, published |-> {}]
    <2>1. data \in ClusterData /\ data.joined = {}
      BY DEF ClusterData
    <2>2. ClusterChanges(a, data)
      BY <1>2 DEF Relate
    <2> HIDE DEF data
    <2> QED
      BY <1>1, <2>1, <2>2
  <1>3. ASSUME NEW a \in Apps, RemoveRelation(a) PROVE JoinedAreOwn'
    BY <1>1, <1>3 DEF RemoveRelation
  <1>4. ASSUME NEW u \in Units, UnitJoins(u) PROVE JoinedAreOwn'
    <2> DEFINE a == AppOf[u]
               data == [cluster[a] EXCEPT !.joined = @ \cup {u}]
    <2>1. a \in Apps /\ cluster[a] \in ClusterData
      BY <1>0, <1>4 DEF UnitJoins
    <2>2. data \in ClusterData /\ data.joined = cluster[a].joined \cup {u}
      BY <2>1 DEF ClusterData
    <2>3. data.joined \subseteq {w \in Units : AppOf[w] = a}
      BY <1>4, <2>1, <2>2 DEF JoinedAreOwn, UnitJoins
    <2>4. ClusterChanges(a, data)
      BY <1>4 DEF UnitJoins
    <2> HIDE DEF a, data
    <2> QED
      BY <1>1, <2>1, <2>2, <2>3, <2>4
  <1>5. ASSUME NEW u \in Units, UnitDeparts(u) PROVE JoinedAreOwn'
    <2> DEFINE a == AppOf[u]
               data == [cluster[a] EXCEPT !.joined = @ \ {u}, !.published = @ \ {u}]
    <2>1. a \in Apps /\ cluster[a] \in ClusterData
      BY <1>0, <1>5 DEF UnitDeparts
    <2>2. data \in ClusterData /\ data.joined = cluster[a].joined \ {u}
      BY <2>1 DEF ClusterData
    <2>3. data.joined \subseteq {w \in Units : AppOf[w] = a}
      BY <1>5, <2>1, <2>2 DEF JoinedAreOwn, UnitDeparts
    <2>4. ClusterChanges(a, data)
      BY <1>5 DEF UnitDeparts
    <2> HIDE DEF a, data
    <2> QED
      BY <1>1, <2>1, <2>2, <2>3, <2>4
  <1>6. ASSUME NEW u \in Units, NEW R \in SUBSET Roles, UnitPublishes(u, R)
        PROVE  JoinedAreOwn'
    <2> DEFINE a == AppOf[u]
               data == [cluster[a] EXCEPT !.published = @ \cup {u}, !.roles = R]
    <2>1. a \in Apps /\ cluster[a] \in ClusterData
      BY <1>0, <1>6 DEF UnitPublishes
    <2>2. data \in ClusterData /\ data.joined = cluster[a].joined
      BY <2>1 DEF ClusterData
    <2>3. data.joined \subseteq {w \in Units : AppOf[w] = a}
      BY <1>6, <2>1, <2>2 DEF JoinedAreOwn, UnitPublishes
    <2>4. ClusterChanges(a, data)
      BY <1>6 DEF UnitPublishes
    <2> HIDE DEF a, data
    <2> QED
      BY <1>1, <2>1, <2>2, <2>3, <2>4
  <1>7. CASE UNCHANGED cluster
    BY <1>7 DEF JoinedAreOwn
  <1>8. ASSUME NEW c \in Peers,
               \/ ElectLeader(c) \/ NginxRestarts(c) \/ Issue(c)
               \/ \E e \in Events : Dispatch(c, e)
               \/ Retry(c) \/ HookStep(c) \/ KubernetesFails(c)
        PROVE  UNCHANGED cluster
    BY <1>8 DEF ElectLeader, NginxRestarts, Issue, Dispatch, Retry, HookStep, Reconcile,
         ReconcilePolicies, Commit, CommitRefused, KubernetesFails, surroundings
  <1>9. CASE S3Changes \/ AuthorityChanges \/ MeshChanges \/ OtherRelationChanges
             \/ UNCHANGED vars
    BY <1>7, <1>9 DEF S3Changes, AuthorityChanges, MeshChanges, OtherRelationChanges,
         surroundings, vars
  <1> QED
    BY <1>2, <1>3, <1>4, <1>5, <1>6, <1>7, <1>8, <1>9 DEF Next, SurroundingsChange

LEMMA JoinedInit == Init => JoinedAreOwn
  BY DEF Init, JoinedAreOwn

LEMMA JoinedInvariant == ClusterSpec => []JoinedAreOwn
  <1>1. Spec => []JoinedAreOwn
    BY JoinedInit, JoinedStep, InitTyped, NextTyped, PTL DEF Spec
  <1> QED
    BY <1>1, ClusterImplementsCoordinator, PTL

\* The steps of Coordinator but those in which a unit publishes.
OtherStep ==
    \/ \E a \in Apps : Relate(a) \/ RemoveRelation(a)
    \/ \E u \in Units : UnitJoins(u) \/ UnitDeparts(u)
    \/ S3Changes \/ AuthorityChanges \/ MeshChanges \/ OtherRelationChanges
    \/ \E c \in Peers :
          \/ ElectLeader(c) \/ NginxRestarts(c) \/ Issue(c)
          \/ \E e \in Events : Dispatch(c, e)
          \/ Retry(c) \/ HookStep(c) \/ KubernetesFails(c)
    \/ UNCHANGED vars

\* They leave the roles of a relation as they are.
LEMMA OthersKeepRoles ==
    ASSUME Typed, NEW a \in Apps, cluster[a] # NoRelation, cluster'[a] # NoRelation,
           OtherStep
    PROVE  cluster'[a].roles = cluster[a].roles
  <1>0. TypeOK /\ cluster \in [Apps -> ClusterData \cup {NoRelation}]
    BY DEF Typed, TypeOK
  <1>1. ASSUME NEW b \in Apps, Relate(b) \/ RemoveRelation(b)
        PROVE  cluster'[a].roles = cluster[a].roles
    <2>1. a # b /\ (cluster' = [cluster EXCEPT ![b] = [roles |-> {}, joined |-> {}, published |-> {}]]
                    \/ cluster' = [cluster EXCEPT ![b] = NoRelation])
      BY <1>0, <1>1 DEF Relate, RemoveRelation, ClusterChanges
    <2> QED
      BY <1>0, <2>1
  <1>2. ASSUME NEW u \in Units, UnitJoins(u) PROVE cluster'[a].roles = cluster[a].roles
    <2>1. cluster' = [cluster EXCEPT ![AppOf[u]] =
                        [cluster[AppOf[u]] EXCEPT !.joined = @ \cup {u}]]
      BY <1>2 DEF UnitJoins, ClusterChanges
    <2> QED
      BY <1>0, <2>1 DEF ClusterData
  <1>3. ASSUME NEW u \in Units, UnitDeparts(u) PROVE cluster'[a].roles = cluster[a].roles
    <2>1. cluster' = [cluster EXCEPT ![AppOf[u]] =
                        [cluster[AppOf[u]] EXCEPT !.joined = @ \ {u}, !.published = @ \ {u}]]
      BY <1>3 DEF UnitDeparts, ClusterChanges
    <2> QED
      BY <1>0, <2>1 DEF ClusterData
  <1>4. CASE UNCHANGED cluster
    BY <1>4
  <1>5. ASSUME NEW c \in Peers,
               \/ ElectLeader(c) \/ NginxRestarts(c) \/ Issue(c)
               \/ \E e \in Events : Dispatch(c, e)
               \/ Retry(c) \/ HookStep(c) \/ KubernetesFails(c)
        PROVE  UNCHANGED cluster
    BY <1>5 DEF ElectLeader, NginxRestarts, Issue, Dispatch, Retry, HookStep, Reconcile,
         ReconcilePolicies, Commit, CommitRefused, KubernetesFails, surroundings
  <1>6. CASE S3Changes \/ AuthorityChanges \/ MeshChanges \/ OtherRelationChanges
             \/ UNCHANGED vars
    BY <1>4, <1>6 DEF S3Changes, AuthorityChanges, MeshChanges, OtherRelationChanges,
         surroundings, vars
  <1> QED
    BY <1>1, <1>2, <1>3, <1>4, <1>5, <1>6 DEF OtherStep

\* A unit that is told of nothing was in its relation before, with the same options.
LEMMA UntoldIsThere ==
    ASSUME TypeOK, TypeOK', NEW u \in Units, Input(u)' = Input(u), Joined(u)'
    PROVE  Joined(u) /\ options'[AppOf[u]] = options[AppOf[u]]
  <1>1. Input(u)'.view = Input(u).view /\ Input(u)'.roles = Input(u).roles
    OBVIOUS
  <1>2. databag'[AppOf[u]] # NoRelation
    BY DEF TypeOK
  <1>3. Input(u)'.view = databag'[AppOf[u]] /\ Input(u)'.roles = options'[AppOf[u]]
    BY DEF Input
  <1> QED
    BY <1>1, <1>2, <1>3 DEF Input

\* What was published before a step that tells the units is published after it.
LEMMA ToldArePublished ==
    ASSUME Typed, Typed', ClusterSafety, RolesArePublished, OtherStep, TellUnits,
           UNCHANGED phase
    PROVE  RolesArePublished'
  <1> SUFFICES ASSUME NEW a \in Apps,
                      phase'[Lead[a]] = "rest", ~stale'[Lead[a]], HasRoles(Lead[a])'
               PROVE  cluster'[a].roles = options'[a]
    BY DEF RolesArePublished
  <1> DEFINE u == Lead[a]
  <1>0. u \in Units /\ AppOf[u] = a /\ TypeOK /\ TypeOK'
    BY DEF Typed
  <1>1. ~stale[u] /\ Input(u)' = Input(u)
    BY <1>0 DEF TellUnits, ClusterSafety, ClusterTypeOK
  <1>2. Joined(u) /\ options'[a] = options[a]
    BY <1>0, <1>1, UntoldIsThere DEF HasRoles
  <1>3. cluster[a].roles = options[a]
    BY <1>0, <1>1, <1>2 DEF RolesArePublished, HasRoles
  <1>4. cluster[a] # NoRelation /\ cluster'[a] # NoRelation
    BY <1>0, <1>2 DEF HasRoles, Joined
  <1> QED
    BY <1>2, <1>3, <1>4, OthersKeepRoles

LEMMA SurroundingsPublished ==
    ASSUME Typed, Typed', ClusterSafety, RolesArePublished, Surroundings
    PROVE  RolesArePublished'
  <1>1. ASSUME NEW a \in Apps, ConfigureRoles(a) \/ AppIsRelated(a) \/ AppIsRemoved(a)
        PROVE  RolesArePublished'
    BY <1>1, ToldArePublished
       DEF ConfigureRoles, AppIsRelated, AppIsRemoved, Told, Aside, OtherStep
  <1>2. ASSUME NEW u \in Units, UnitComes(u) \/ UnitGoes(u) PROVE RolesArePublished'
    BY <1>2, ToldArePublished DEF UnitComes, UnitGoes, Told, Aside, OtherStep
  <1>3. ASSUME NEW u \in Units, ContainerLost(u) PROVE RolesArePublished'
    BY <1>3 DEF ContainerLost, vars, RolesArePublished, HasRoles, Joined
  <1>4. CASE CoordinatorDisturbed
    BY <1>4, ToldArePublished DEF CoordinatorDisturbed, Told, OtherStep
  <1> QED
    BY <1>1, <1>2, <1>3, <1>4 DEF Surroundings

\* What the hook of unit u publishes at its end: nothing new but for what it leads.
LEMMA FinishPublishes ==
    ASSUME Typed, NEW u \in Units, UnitFinishes(u), NEW a \in Apps, cluster[a] # NoRelation
    PROVE  cluster'[a] # NoRelation /\
           cluster'[a].roles = IF Lead[a] = u /\ seen[u].view # NoRelation /\ seen[u].roles # {}
                               THEN seen[u].roles ELSE cluster[a].roles
  <1>0. cluster \in [Apps -> ClusterData \cup {NoRelation}] /\ AppOf[u] \in Apps
    BY DEF Typed, TypeOK
  <1>1. CASE Publishes(u)
    <2>1. UnitPublishes(u, PublishedRoles(u))
      BY <1>1 DEF UnitFinishes
    <2> DEFINE R == PublishedRoles(u)
    <2>2. /\ cluster[AppOf[u]] \in ClusterData
          /\ cluster' = [cluster EXCEPT ![AppOf[u]] =
                           [cluster[AppOf[u]] EXCEPT !.published = @ \cup {u}, !.roles = R]]
      BY <1>0, <2>1 DEF UnitPublishes, ClusterChanges
    <2>3. R \in SUBSET Roles
      BY <1>0, <2>1, <2>2 DEF UnitPublishes, ClusterData
    <2>4. CASE AppOf[u] = a
      <3>1. cluster'[a] \in ClusterData /\ cluster'[a].roles = R
        BY <1>0, <2>2, <2>3, <2>4 DEF ClusterData
      <3>2. cluster'[a] # NoRelation
        BY <3>1 DEF ClusterData
      <3> QED
        BY <1>1, <2>4, <3>1, <3>2 DEF Publishes, PublishedRoles
    <2>5. CASE AppOf[u] # a
      BY <1>0, <2>2, <2>5
    <2> QED
      BY <2>4, <2>5
  <1>2. CASE ~Publishes(u)
    <2>1. UNCHANGED cluster
      BY <1>2 DEF UnitFinishes, vars
    <2>2. seen[u].view = NoRelation \/ PublishedRoles(u) = cluster[AppOf[u]].roles
      BY <1>2 DEF Publishes
    <2> QED
      BY <2>1, <2>2 DEF PublishedRoles
  <1> QED
    BY <1>1, <1>2

LEMMA UnitStepPublished ==
    ASSUME Typed, Typed', ClusterSafety, RolesArePublished, NEW w \in Units, UnitStep(w)
    PROVE  RolesArePublished'
  <1> SUFFICES ASSUME NEW a \in Apps,
                      phase'[Lead[a]] = "rest", ~stale'[Lead[a]], HasRoles(Lead[a])'
               PROVE  cluster'[a].roles = options'[a]
    BY DEF RolesArePublished
  <1> DEFINE u == Lead[a]
  <1>0. /\ u \in Units /\ AppOf[u] = a
        /\ stale \in [Units -> BOOLEAN]
        /\ phase \in [Units -> {"rest", "hook", "failed"}]
    BY DEF ClusterSafety, ClusterTypeOK
  <1>1. UNCHANGED options
    BY DEF UnitStep, UnitStarts, UnitRetries, UnitFails, UnitFinishes, Read
  <1>2. CASE UnitFinishes(w)
    <2>1. Input(u)' = Input(u) /\ ~stale[u]
      BY <1>0, <1>2, PublishingIsUnread DEF UnitFinishes
    <2>2. Joined(u)
      BY <1>0, <2>1, UntoldIsThere DEF HasRoles, Typed
    <2>3. cluster[a] # NoRelation /\ options[a] # {}
      BY <1>0, <1>1, <2>2 DEF HasRoles, Joined
    <2>4. CASE w = u
      <3>1. seen[u] = Input(u)
        BY <1>2, <2>1, <2>4 DEF UnitFinishes, ClusterSafety, UnitFollows
      <3>2. databag[a] # NoRelation
        BY <1>0 DEF Typed, TypeOK
      <3>3. seen[u].view # NoRelation /\ seen[u].roles = options[a]
        BY <1>0, <2>2, <3>1, <3>2 DEF Input
      <3> QED
        BY <1>1, <1>2, <2>3, <2>4, <3>3, FinishPublishes
    <2>5. CASE w # u
      <3>1. phase[u] = "rest"
        BY <1>0, <1>2, <2>5 DEF UnitFinishes
      <3>2. cluster[a].roles = options[a]
        BY <1>0, <2>1, <2>2, <2>3, <3>1 DEF RolesArePublished, HasRoles
      <3> QED
        BY <1>1, <1>2, <2>3, <2>5, <3>2, FinishPublishes
    <2> QED
      BY <2>4, <2>5
  <1>3. CASE ~UnitFinishes(w)
    <2>1. UNCHANGED <<cluster, options>>
      BY <1>3 DEF UnitStep, UnitStarts, UnitRetries, UnitFails, Read, vars
    <2>2. phase[u] = "rest" /\ ~stale[u]
      BY <1>0, <1>3 DEF UnitStep, UnitStarts, UnitRetries, UnitFails, Read
    <2> QED
      BY <1>0, <2>1, <2>2 DEF RolesArePublished, HasRoles, Joined
  <1> QED
    BY <1>2, <1>3

LEMMA ClusterStepPublished ==
    Typed /\ Typed' /\ ClusterSafety /\ RolesArePublished /\ [ClusterNext]_clusterVars
        => RolesArePublished'
  <1> SUFFICES ASSUME Typed, Typed', ClusterSafety, RolesArePublished,
                      [ClusterNext]_clusterVars
               PROVE  RolesArePublished'
    OBVIOUS
  <1>1. ASSUME NEW c \in Peers, CoordinatorStep(c) PROVE RolesArePublished'
    <2>1. OtherStep /\ TellUnits /\ UNCHANGED phase
      BY <1>1 DEF CoordinatorStep, Handle, Proceed, Resume, Aside, Told, OtherStep
    <2> QED
      BY <2>1, ToldArePublished
  <1>2. CASE UNCHANGED clusterVars
    BY <1>2 DEF clusterVars, vars, RolesArePublished, HasRoles, Joined
  <1> QED
    BY <1>1, <1>2, SurroundingsPublished, UnitStepPublished DEF ClusterNext

\* RolesArePublished: an application whose leader is not behind has published the roles
\* that its operator has switched on.
THEOREM PublishedRolesFollow == ClusterSpec => []RolesArePublished
  <1>1. ClusterInit => RolesArePublished
    BY DEF ClusterInit, Init, RolesArePublished, HasRoles, Joined
  <1> QED
    BY <1>1, ClusterStepPublished, ClusterTyped, UnitsFollow, PTL DEF ClusterSpec

\* The applications that are related have their leader and, each, a role.
RolesStay == \A a \in Related(Present) : Joined(Lead[a]) /\ options[a] # {}

\* A coordinator with nothing left to do that goes on has applications configured to take on
\* each role of minimal_deployment, as its docstring has it, as long as no operator switches
\* all the roles of an application off and no application loses its leader: nothing else parts
\* the roles that are published from those that are run.  The run cluster_roles_kept shows
\* that the first does.
THEOREM CoherentIsAllocatedWhileRolesStay ==
    ClusterSpec => [](RolesStay => CoherentIsAllocated)
  <1>1. RolesArePublished => (RolesStay => CoherentIsAllocated)
    <2> SUFFICES ASSUME RolesArePublished, RolesStay, AllQuiet, CanHandleEvents(Present)
                 PROVE  Allocated
      BY DEF CoherentIsAllocated
    <2>1. Present.cluster = cluster /\ Present.s3 = s3
      BY DEF Present, Now
    <2>2. ASSUME NEW a \in Related(Present)
          PROVE  a \in Apps /\ Joined(Lead[a]) /\ Present.cluster[a].roles = options[a]
      <3>1. a \in Apps /\ Lead[a] \in Units /\ AppOf[Lead[a]] = a
        BY ClusterAssumption DEF Related
      <3>2. phase[Lead[a]] = "rest" /\ ~stale[Lead[a]] /\ HasRoles(Lead[a])
        BY <3>1 DEF AllQuiet, UnitIsQuiet, RolesStay, HasRoles
      <3> QED
        BY <2>1, <3>1, <3>2 DEF RolesArePublished, HasRoles
    <2>3. s3 # NoS3 /\ Minimal \subseteq GatherRoles(Present)
      BY <2>1 DEF CanHandleEvents, IsCoherent
    <2>4. GatherRoles(Present)
             \subseteq UNION {ExpandRoles(options[a]) : a \in {b \in Apps : Joined(Lead[b])}}
      BY <2>2 DEF GatherRoles
    <2> QED
      BY <2>3, <2>4 DEF Allocated
  <1> QED
    BY <1>1, PublishedRolesFollow, PTL

-----------------------------------------------------------------------------
(* What the probe counts, the coordinator counts. *)

\* The deployments that the probe is made for: each application is there with its leader
\* and one role, and has published it.
Expected ==
    \A a \in Apps :
        /\ cluster[a] # NoRelation /\ cluster[a].roles = options[a]
        /\ \E o \in Roles : options[a] = {o}

\* Probe counts with the same function.
LEMMA SameCardinality == \A S : P!Cardinality(S) = Cardinality(S)
  BY DEF P!Cardinality, Cardinality

\* The options of an application in the export, when it has one role.
LEMMA ExportedOptions ==
    ASSUME NEW a \in Apps, NEW o \in Roles, options[a] = {o}
    PROVE  /\ a \in P!Defaults(Bundle) => o = DefaultRole
           /\ \A r : P!RolesOn(Bundle[a], r) \subseteq {n \in {o} : r \in ExpandRoles({n})}
  <1>1. Bundle[a].options = [r \in {n \in Roles : (n = o) # (n = DefaultRole)} |-> r = o]
    BY DEF Bundle
  <1>2. a \in P!Defaults(Bundle) => o = DefaultRole
    BY <1>1 DEF P!Defaults
  <1>3. ASSUME NEW r, NEW n \in P!RolesOn(Bundle[a], r) PROVE n = o /\ r \in ExpandRoles({n})
    <2>1. /\ n \in DOMAIN Bundle[a].options /\ Bundle[a].options[n]
          /\ r \in IF n \in DOMAIN MetaRoles THEN MetaRoles[n] ELSE {n}
      BY <1>3 DEF P!RolesOn
    <2>2. n \in Roles /\ n = o
      BY <1>1, <2>1
    <2>3. r \in ExpandRoles({n})
      BY <2>1 DEF ExpandRoles
    <2> QED
      BY <2>2, <2>3
  <1> QED
    BY <1>2, <1>3

\* The assumption of the probe: the default role is a meta role that stands for all those
\* of which it counts the units.
DefaultMeansAll ==
    DefaultRole \in DOMAIN MetaRoles /\ DOMAIN Recommended \subseteq MetaRoles[DefaultRole]

LEMMA CountedAreThere ==
    ASSUME IsFiniteSet(Units), DefaultMeansAll, Typed, JoinedAreOwn, Expected,
           NEW r \in DOMAIN Recommended
    PROVE  /\ {UnitsWithRole(r), P!AllRolesCount(Bundle), P!Count(Bundle, r)} \subseteq Nat
           /\ P!AllRolesCount(Bundle) + P!Count(Bundle, r) <= UnitsWithRole(r)
  <1> DEFINE own == [a \in Apps |-> cluster[a].joined]
             on  == [a \in Apps |-> P!RolesOn(Bundle[a], r)]
             D   == P!Defaults(Bundle)
             W   == {u \in Units : Joined(u) /\ r \in ExpandRoles(cluster[AppOf[u]].roles)}
             W1  == {u \in W : AppOf[u] \in D}
             W2  == {u \in W : AppOf[u] \notin D}
  <1>1. DOMAIN Bundle = Apps /\ D \subseteq Apps
    BY DEF Bundle, P!Defaults
  <1>2. /\ IsFiniteSet(W) /\ IsFiniteSet(W1) /\ IsFiniteSet(W2)
        /\ Cardinality(W1) \in Nat /\ Cardinality(W2) \in Nat
        /\ Cardinality(W1) + Cardinality(W2) = Cardinality(W)
    <2>1. IsFiniteSet(W) /\ IsFiniteSet(W1) /\ IsFiniteSet(W2)
      BY FS_Subset
    <2>2. W = W1 \cup W2 /\ W1 \cap W2 = {}
      OBVIOUS
    <2>3. Cardinality(W) = Cardinality(W1) + Cardinality(W2) - Cardinality({})
      BY <2>1, <2>2, FS_Union
    <2> QED
      BY <2>1, <2>3, FS_CardinalityType, FS_EmptySet
  <1>3. ASSUME NEW a \in Apps
        PROVE  /\ \A u \in own[a] : u \in Units /\ AppOf[u] = a /\ Joined(u)
               /\ IsFiniteSet(own[a])
    <2>1. \A u \in own[a] : u \in Units /\ AppOf[u] = a /\ Joined(u)
      BY DEF JoinedAreOwn, Joined, Expected
    <2> QED
      BY <2>1, FS_Subset
  <1>4. ASSUME NEW a \in D PROVE own[a] \subseteq W1
    <2>1. PICK o \in Roles : options[a] = {o}
      BY <1>1 DEF Expected
    <2>2. o = DefaultRole
      BY <1>1, <2>1, ExportedOptions
    <2>3. r \in ExpandRoles(cluster[a].roles)
      BY <1>1, <2>1, <2>2 DEF Expected, DefaultMeansAll, ExpandRoles
    <2> QED
      BY <1>1, <1>3, <2>3
  <1>5. ASSUME NEW a \in Apps \ D PROVE /\ on[a] # {} => own[a] \subseteq W2
                                       /\ \A o, p \in on[a] : o = p
    <2>1. PICK o \in Roles : options[a] = {o}
      BY DEF Expected
    <2>2. on[a] \subseteq {n \in {o} : r \in ExpandRoles({n})}
      BY <2>1, ExportedOptions
    <2>3. on[a] # {} => r \in ExpandRoles(cluster[a].roles)
      BY <2>1, <2>2 DEF Expected
    <2>4. on[a] # {} => own[a] \subseteq W2
      BY <1>3, <2>3
    <2> QED
      BY <2>2, <2>4
  <1> HIDE DEF D, W1, W2
  <1>6. \A a, b \in Apps : own[a] \cap own[b] # {} => a = b
    BY <1>3
  <1> HIDE DEF own, on
  <1>7. P!AllRolesCount(Bundle) = Cardinality(Numbers(D, own))
    <2>1. \A a \in D : P!UnitsOf(Bundle, a) = {a} \X (1..Cardinality(own[a]))
      BY <1>1 DEF P!UnitsOf, Bundle, own
    <2>2. P!AllRolesUnits(Bundle) = Numbers(D, own)
      BY <2>1 DEF P!AllRolesUnits, Numbers, D
    <2> QED
      BY <2>2, SameCardinality DEF P!AllRolesCount
  <1>8. P!Count(Bundle, r) = Cardinality(Pairs(Apps \ D, own, on))
    <2>1. \A a \in Apps \ D : P!UnitsOf(Bundle, a) = {a} \X (1..Cardinality(own[a]))
      BY DEF P!UnitsOf, Bundle, own
    <2>2. P!RoleUnits(Bundle, r) = Pairs(Apps \ D, own, on)
      BY <1>1, <2>1 DEF P!RoleUnits, Pairs, on, D
    <2> QED
      BY <2>2, SameCardinality DEF P!Count
  <1>9. /\ Cardinality(Numbers(D, own)) \in Nat
        /\ Cardinality(Numbers(D, own)) <= Cardinality(W1)
    <2>1. \A a, b \in D : own[a] \cap own[b] # {} => a = b
      BY <1>1, <1>6
    <2> QED
      BY <1>2, <1>4, <2>1, CountedOnce
  <1>10. /\ Cardinality(Pairs(Apps \ D, own, on)) \in Nat
         /\ Cardinality(Pairs(Apps \ D, own, on)) <= Cardinality(W2)
    BY <1>2, <1>3, <1>5, <1>6, CountedOnceWithOptions
  <1> QED
    BY <1>2, <1>7, <1>8, <1>9, <1>10 DEF UnitsWithRole

\* ProbeAgrees: what the probe accepts has the recommended units in the eyes of the
\* coordinator, if the default role is what the probe takes it for.
THEOREM ProbeIsRight ==
    ASSUME IsFiniteSet(Units), IsFiniteSet(Roles), DefaultMeansAll
    PROVE  ClusterSpec => []ProbeAgrees
  <1>1. Typed /\ ClusterSafety /\ JoinedAreOwn /\ RolesArePublished => ProbeAgrees
    <2> SUFFICES ASSUME Typed, ClusterSafety, JoinedAreOwn, RolesArePublished, AllQuiet,
                        \A a \in Apps : Joined(Lead[a]) /\ Cardinality(options[a]) = 1,
                        P!Accepts(Bundle), NEW r \in DOMAIN Recommended
                 PROVE  UnitsWithRole(r) >= Recommended[r]
      BY DEF ProbeAgrees
    <2>1. Expected
      <3> SUFFICES ASSUME NEW a \in Apps
                   PROVE  /\ cluster[a] # NoRelation /\ cluster[a].roles = options[a]
                          /\ \E o \in Roles : options[a] = {o}
        BY DEF Expected
      <3>1. options[a] \in SUBSET Roles /\ Lead[a] \in Units /\ AppOf[Lead[a]] = a
        BY DEF ClusterSafety, ClusterTypeOK
      <3>2. IsFiniteSet(options[a])
        BY <3>1, FS_Subset
      <3>3. \E o \in Roles : options[a] = {o}
        BY <3>1, <3>2, FS_Singleton
      <3>4. phase[Lead[a]] = "rest" /\ ~stale[Lead[a]]
        BY <3>1 DEF AllQuiet, UnitIsQuiet
      <3>5. HasRoles(Lead[a])
        BY <3>1, <3>3 DEF HasRoles
      <3> QED
        BY <3>1, <3>3, <3>4, <3>5 DEF RolesArePublished, HasRoles, Joined
    <2>2. P!AllRolesCount(Bundle) + P!Count(Bundle, r) >= Recommended[r]
      BY DEF P!Accepts
    <2>3. Recommended[r] \in Nat
      OBVIOUS
    <2> HIDE ClusterAssumption, CoordinatorAssumption
    <2> QED
      BY <2>1, <2>2, <2>3, CountedAreThere
  <1> QED
    BY <1>1, ClusterTyped, UnitsFollow, JoinedInvariant, PublishedRolesFollow, PTL
=============================================================================
