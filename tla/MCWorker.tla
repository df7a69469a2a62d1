------------------------------ MODULE MCWorker ------------------------------
(* Constants of Worker for TLC. *)
EXTENDS WorkerUnit

CONSTANTS c1, c2, t1, t2, l1, l2, p1, k1, a, b, s1

Bag(config, tls, loki, ports, lab) ==
    [worker_config |-> config, tls |-> tls, loki_endpoints |-> loki,
     worker_ports |-> ports, worker_labels |-> lab]

\* A databag with all that the worker reads of one.
FullBag == {Bag(c1, t1, {l1}, p1, k1)}

\* Two versions of everything that is written to disk.
FileBags == {Bag(c1, NoTLS, {}, NoPorts, NoLabels), Bag(c2, t1, {}, NoPorts, NoLabels)}

\* The same config with a certificate and with its successor.
TwoBags == {Bag(c1, t1, {}, NoPorts, NoLabels), Bag(c1, t2, {}, NoPorts, NoLabels)}

\* Databags that differ in what concerns the unit rather than the workload.
UnitBags == {Bag(c1, NoTLS, {l1}, NoPorts, NoLabels),
             Bag(c1, NoTLS, {l2}, p1, k1)}

OneBag == {Bag(c1, NoTLS, {}, NoPorts, NoLabels)}

NoPlan == [s \in Services |-> NoSpec]

\* Every role runs the same service, as in the charms that pass -target to it.
OneServiceLayer ==
    [x \in (SUBSET Roles) \X Bags |-> [s \in Services |-> s1]]

\* Every role has a service of its own.
ServicePerRoleLayer ==
    [x \in (SUBSET Roles) \X Bags |-> [s \in Services |-> IF s \in x[1] THEN s1 ELSE NoSpec]]
=============================================================================
