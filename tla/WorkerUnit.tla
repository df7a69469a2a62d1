----------------------------- MODULE WorkerUnit -----------------------------
(***************************************************************************)
(* Worker implements Unit: the steps of a hook are one step to whoever     *)
(* looks at the files of a unit at rest.                                   *)
(***************************************************************************)
EXTENDS WorkerInv

CONSTANTS InFlux, NoInput

Inputs == [view: Bags \cup {NoData, NoRelation}, roles: SUBSET Roles]

\* What a hook that starts now reads.  A relation that is being removed counts as gone:
\* a hook before the one of its breaking still reads it, with that one queued.
Input == [view |-> IF link = "up" THEN remote ELSE NoRelation, roles |-> roles]

WantedFiles ==
    [i \in Inputs |-> IF i.view \in Bags /\ i.roles # {}
                      THEN [config |-> i.view.worker_config, tls |-> i.view.tls]
                      ELSE EmptyDisk]

Disks == [config: Configs \cup {NoConfig}, tls: Bundles \cup {NoTLS, Torn}]

Stale == pending \ {"pebble_ready"} # {} \/ link = "dying"
Lost  == ~up \/ "pebble_ready" \in pending
Phase == IF pc = "failed" THEN "failed" ELSE IF AtRest THEN "rest" ELSE "hook"
Seen  == IF Phase = "hook" THEN [view |-> hook.view, roles |-> hook.roles] ELSE NoInput
Files == IF Phase = "rest" THEN disk ELSE InFlux

U == INSTANCE Unit WITH
        Results <- Disks, Wanted <- WantedFiles, Nothing <- EmptyDisk,
        input <- Input, stale <- Stale, lost <- Lost, phase <- Phase, seen <- Seen,
        files <- Files

\* A unit is a function of one snapshot: whatever steps its hook is made of, wherever they
\* fail and whenever the container goes, the files it leaves behind are those of the
\* databag and the roles that this hook, and no other, has read.
ImplementsUnit == U!Spec

-----------------------------------------------------------------------------
\* A running hook has read the roles there are, unless the change of them is queued.
RolesAreFresh ==
    pc \notin {"idle", "failed"} /\ "config_changed" \notin pending => hook.roles = roles

\* A container that is there, and was there when its last event was handled.
Present == ~Lost

\* What a hook has done to the container it found, whatever else is queued.
HookFiles ==
    Present =>
        /\ pc \in TeardownSteps => ~HookReady
        /\ pc \in {"trust", "config", "layer", "restart"} => disk.tls = hook.view.tls
        /\ pc \in {"layer", "restart"} => disk.config = hook.view.worker_config
        /\ Reconciled /\ HookReady =>
              disk = [config |-> hook.view.worker_config, tls |-> hook.view.tls]

UnitParts == RolesAreFresh /\ HookFiles
UnitSafety == FileSafety /\ UnitParts
=============================================================================
