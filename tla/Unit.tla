-------------------------------- MODULE Unit --------------------------------
(***************************************************************************)
(* What a worker unit promises to the rest of the cluster, whatever goes   *)
(* on inside of its hooks: at rest its files are those that one input      *)
(* calls for, never a mix of two, and every change of the input is         *)
(* followed by a hook that reads it.                                       *)
(*                                                                         *)
(* Worker implements it step by step, and so does each unit of Cluster.    *)
(***************************************************************************)
CONSTANTS
    Inputs,     \* what a hook can read: databag and role options
    Results,    \* what the files of the container can be
    Wanted,     \* the files that an input calls for
    Nothing,    \* no file, as in a fresh container
    InFlux,     \* files that a hook is working on, or has left half done
    NoInput     \* no hook has read anything

VARIABLES
    input,      \* what a hook that starts now would read
    stale,      \* an event is queued as the input may have changed
    lost,       \* the container is away, or it is new and its event queued
    phase,      \* "rest", "hook" or "failed"
    seen,       \* what the hook has read
    files       \* the files in the container

vars == <<input, stale, lost, phase, seen, files>>

Init ==
    /\ input \in Inputs
    /\ stale = FALSE
    /\ lost \in BOOLEAN
    /\ phase = "rest"
    /\ seen = NoInput
    /\ files = Nothing

\* Whoever changes the input queues an event.
Change ==
    /\ input' \in Inputs
    /\ stale' = TRUE
    /\ UNCHANGED <<lost, phase, seen, files>>

\* The container goes, alone or while a hook works on it.
Lose ==
    /\ lost' = TRUE
    /\ files' = IF phase = "rest" THEN Nothing ELSE files
    /\ UNCHANGED <<input, stale, phase, seen>>

\* A hook reads all of the input.  It may take an event off the queue, and it may read
\* something else than the present while another one is still queued.
Read ==
    /\ stale' \in {stale, FALSE}
    /\ lost' \in {lost, FALSE}
    /\ seen' \in IF stale' THEN Inputs ELSE {input}
    /\ phase' = "hook"
    /\ files' = InFlux
    /\ UNCHANGED input

Start == phase = "rest" /\ Read
Retry == phase = "failed" /\ Read

Fail ==
    /\ phase = "hook"
    /\ phase' = "failed"
    /\ seen' = NoInput
    /\ UNCHANGED <<input, stale, lost, files>>

\* The files are what the input calls for, unless the container was replaced in the hook.
Finish ==
    /\ phase = "hook"
    /\ phase' = "rest"
    /\ files' \in IF lost THEN Results ELSE {Wanted[seen]}
    /\ seen' = NoInput
    /\ stale' \in {stale, FALSE}
    /\ stale' = stale \/ seen = input
    /\ UNCHANGED <<input, lost>>

Next == Change \/ Lose \/ Start \/ Retry \/ Fail \/ Finish

Spec == Init /\ [][Next]_vars
-----------------------------------------------------------------------------
\* With nothing queued, the files are what the input calls for: what the promise is for.
Settled == phase = "rest" /\ ~stale /\ ~lost => files = Wanted[input]
=============================================================================
