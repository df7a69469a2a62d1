------------------------ MODULE TelemetryCorrelation ------------------------
(***************************************************************************)
(* telemetry_correlation.py: which datasource of another charm, found      *)
(* through grafana_datasource_exchange, belongs to this charm's own.       *)
(*                                                                         *)
(* A relation is the record of its id, of the remote application and of    *)
(* its databag: a list of datasources, NoDatabag, or one that cannot be    *)
(* loaded.  A datasource has a type and a Grafana it is connected to.      *)
(***************************************************************************)
EXTENDS Naturals, FiniteSets

CONSTANTS
    Ids,            \* the ids that relations may have
    ExchangeApps,   \* the applications this charm may exchange datasources with
    Databags,       \* what their databags may be, NoDatabag and Invalid apart
    Grafanas,       \* the Grafanas an application may be connected to
    NoDatabag, Invalid, NoDatasource, NoFilter

Datasources == UNION {{b[k] : k \in DOMAIN b} : b \in Databags}

ASSUME CorrelationAssumption ==
    /\ Ids \subseteq Nat /\ IsFiniteSet(Ids)
    /\ \A b \in Databags : DOMAIN b \subseteq Nat
    /\ {NoDatabag, Invalid} \cap Databags = {}
    /\ NoDatasource \notin Datasources

\* filtered_dsx_relations, without those whose databag cannot be loaded.  apps are the
\* applications of the endpoint_relations.
Searched(r, apps) ==
    /\ r.databag \notin {NoDatabag, Invalid}
    /\ apps = NoFilter \/ r.app \in apps

\* Where the matching datasources are: the place of the relation in the listing of all of
\* them, and the place in its databag.
Places(relations, apps, type, uids) ==
    UNION {{<<i, k>> : k \in {n \in DOMAIN relations[i].databag :
                                 /\ relations[i].databag[n].type = type
                                 /\ relations[i].databag[n].grafana \in uids}} :
              i \in {n \in DOMAIN relations : Searched(relations[n], apps)}}

\* Mutant: the relations are taken as Juju lists them.
Precedes_listed(relations, p, q) == p[1] < q[1] \/ (p[1] = q[1] /\ p[2] < q[2])

\* The relations are sorted by their id, and a databag's datasources keep their order.
Precedes(relations, p, q) ==
    \/ relations[p[1]].id < relations[q[1]].id
    \/ relations[p[1]].id = relations[q[1]].id /\ p[2] < q[2]

\* find_correlated_datasource: the first one left is taken for all of them.
FindCorrelated(relations, apps, type, uids) ==
    LET places == Places(relations, apps, type, uids)
        first  == CHOOSE p \in places : \A q \in places \ {p} : Precedes(relations, p, q)
    IN IF places = {} THEN NoDatasource ELSE relations[first[1]].databag[first[2]]

-----------------------------------------------------------------------------
\* The same without any order: the datasources that may be taken.
Eligible(relations, apps, type, uids) ==
    {ds \in UNION {{r.databag[k] : k \in DOMAIN r.databag} :
                      r \in {q \in relations :
                                /\ q.databag \notin {NoDatabag, Invalid}
                                /\ apps = NoFilter \/ q.app \in apps}} :
        ds.type = type /\ ds.grafana \in uids}

Exchanged == [app: ExchangeApps, databag: Databags \cup {NoDatabag, Invalid}]

\* What may be related, under which ids.
Exchanges ==
    UNION {{[i \in I |-> [id |-> i, app |-> x[i].app, databag |-> x[i].databag]] :
               x \in [I -> Exchanged]} : I \in SUBSET Ids}

\* The listings of some relations: Juju's has no particular order.
Listings(f) ==
    LET places == 1..Cardinality(DOMAIN f)
    IN {[i \in places |-> f[p[i]]] :
           p \in {q \in [places -> DOMAIN f] : \A i, j \in places : q[i] = q[j] => i = j}}

Types == {ds.type : ds \in Datasources}

Found(f, apps, type, uids) == {FindCorrelated(l, apps, type, uids) : l \in Listings(f)}

\* Those of the relations f that are older than n.
Older(f, n) == [i \in {j \in DOMAIN f : j < n} |-> f[i]]

\* "Any datasource is a valid datasource to use" (the comment at the end of the search),
\* but the charm's config must not flap: one is found if there is one, and the one that
\* was found stays, in whichever order Juju lists the relations at the next hook, and
\* when newer relations come.  apps is what the search is narrowed to.
Stable(apps) ==
    \A f \in Exchanges, type \in Types, uids \in SUBSET Grafanas :
        LET found    == Found(f, apps, type, uids)
            eligible == Eligible({f[i] : i \in DOMAIN f}, apps, type, uids)
        IN /\ IF eligible = {} THEN found = {NoDatasource} ELSE \E ds \in eligible : found = {ds}
           /\ \A n \in Ids :
                 LET before == Found(Older(f, n), apps, type, uids)
                 IN before # {NoDatasource} => found = before
=============================================================================
