-------------------------------- MODULE Probe --------------------------------
(***************************************************************************)
(* probes/cluster_consistency.py: what an exported bundle tells of a       *)
(* deployment.  A bundle is a function from the applications of the worker *)
(* charm to their scale and to those role-X options that are exported, as  *)
(* they differ from their default.                                         *)
(***************************************************************************)
EXTENDS Naturals, FiniteSets

CONSTANTS
    MetaRoles,      \* meta_roles
    Recommended     \* recommended_deployment: how many units of each role

\* Mutant: an option counts when it is exported, on or off.
RolesOn_any(app, r) ==
    {o \in DOMAIN app.options : r \in IF o \in DOMAIN MetaRoles THEN MetaRoles[o] ELSE {o}}

\* _get_roles_from_config: the options that are True and expand to role r.
RolesOn(app, r) ==
    {o \in DOMAIN app.options :
        app.options[o] /\ r \in IF o \in DOMAIN MetaRoles THEN MetaRoles[o] ELSE {o}}

\* No exported option is taken for the default, all the roles.
Defaults(bundle) == {a \in DOMAIN bundle : DOMAIN bundle[a].options = {}}

UnitsOf(bundle, a) == {a} \X (1..bundle[a].scale)

\* n_all_roles: each unit counts once.
AllRolesUnits(bundle) == UNION {UnitsOf(bundle, a) : a \in Defaults(bundle)}
AllRolesCount(bundle) == Cardinality(AllRolesUnits(bundle))

\* roles: each unit counts once for every option that is on.
RoleUnits(bundle, r) ==
    UNION {UnitsOf(bundle, a) \X RolesOn(bundle[a], r) :
              a \in DOMAIN bundle \ Defaults(bundle)}
Count(bundle, r) == Cardinality(RoleUnits(bundle, r))

\* bundle: the probe finds the charm and raises no error.
Accepts(bundle) ==
    /\ DOMAIN bundle # {}
    /\ \A r \in DOMAIN Recommended :
          /\ AllRolesCount(bundle) > 0 \/ \E a \in DOMAIN bundle : RolesOn(bundle[a], r) # {}
          /\ AllRolesCount(bundle) + Count(bundle, r) >= Recommended[r]
=============================================================================
