--------------------------- MODULE CoordinatorInv ---------------------------
(***************************************************************************)
(* The inductive strengthening of the safety properties of Coordinator:    *)
(* what a hook with no event queued behind it has seen and done.  TLC      *)
(* checks it on the instances of MCCoordinator, CoordinatorProofs proves   *)
(* it.                                                                     *)
(***************************************************************************)
EXTENDS Coordinator

Running(c) == pc[c] \in {"reconcile", "policies", "commit"}

\* A running hook has read something.
Typed == TypeOK /\ \A c \in Peers : Running(c) => view[c] \in Views

\* With no event queued, a running hook has read what is there.
ViewIsFresh(c) == Running(c) /\ pending[c] = {} => view[c] = Now(c)

\* A leader that was not elected since has decided to publish.
LeaderPublishes(c) ==
    pc[c] \in {"policies", "commit"} /\ pending[c] = {} /\ leader = c => publishing[c]

\* Once a hook has reconciled nginx it runs with what the hook read.
NginxFollows(c) ==
    /\ pc[c] \in {"policies", "commit"} /\ pending[c] = {} => nginx[c] = NginxConfig(c, view[c])
    /\ Quiet(c) /\ CanHandleEvents(Now(c)) => nginx[c] = NginxConfig(c, Now(c))

\* No other peer writes what the quiet leader has published.
PublicationHolds(c) ==
    Quiet(c) /\ leader = c /\ CanHandleEvents(Now(c)) =>
        \A a \in Apps : RemoteDataReady(Now(c), a) => databag[a] = Publication(c, Now(c), a)

PeerInv(c) == ViewIsFresh(c) /\ LeaderPublishes(c) /\ NginxFollows(c) /\ PublicationHolds(c)

\* Whatever was read at the start of a hook: what the peers do in it and leave behind
\* when they have nothing left to handle.
CoordinatorSafety == Typed /\ CertificateNamesWorkers /\ \A c \in Peers : PeerInv(c)

\* A peer that has nothing left to write to Kubernetes or to its files.
Done(c) == pending[c] = {} /\ pc[c] \in {"commit", "idle"}

\* The rules are a peer's own.  The policies are what the last peer to be done wrote:
\* while one is not, whatever the others wrote may have been overwritten from an old view.
RulesFollow(c) ==
    Done(c) /\ CanHandleEvents(Now(c)) => rules[c] = GatherTopology(Now(c))
PoliciesFollow ==
    (\A c \in Peers : Done(c)) /\ CanHandleEvents(Now(leader)) => policies = MeshPolicies(Now(leader))

\* What the peers share in Kubernetes follows the cluster once all of them are done.
MeshSafety == CoordinatorSafety /\ PoliciesFollow /\ \A c \in Peers : RulesFollow(c)

\* A quiet peer has asked for the certificate it needs: whether it is served by TLS is then
\* a matter of whether the authority has answered.
RequestFollows(c) == Quiet(c) /\ CanHandleEvents(Now(c)) => request[c] = Request(c, Now(c))

\* A leader that is told of nothing, has done what the cluster calls for and, if it runs a
\* hook, has read the cluster as it is.
HasPublished(c) ==
    /\ leader = c
    /\ pending[c] = {}
    /\ Running(c) => view[c] = Now(c)
    /\ request[c] = Request(c, Now(c))
    /\ nginx[c] = NginxConfig(c, Now(c))
    /\ \A a \in Apps : RemoteDataReady(Now(c), a) => databag[a] = Publication(c, Now(c), a)
=============================================================================
