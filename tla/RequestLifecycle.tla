-------------------------- MODULE RequestLifecycle --------------------------
(***************************************************************************)
(* What a user of the scheduler may rely on, without queues, bins, budgets *)
(* and loops: the life of a request from its arrival to its end, where its *)
(* KV cache is meanwhile, and how its output grows.  SLOScheduler          *)
(* implements it (SchedulerRefinement).                                    *)
(*                                                                         *)
(* The phases are those of SequenceStatus (vllm/sequence.py).  One step is *)
(* one event in the life of one request.                                   *)
(***************************************************************************)
EXTENDS Naturals

CONSTANTS
    Requests,
    Late          \* a BOOLEAN: outputs are processed a step after they were computed

VARIABLES
    phase,        \* the status of the request
    place,        \* the device its KV cache is on, "none" for none
    tokens        \* the tokens generated so far

lifeVars == <<phase, place, tokens>>

Live == {"waiting", "running", "swapped"}

Init ==
    /\ phase = [r \in Requests |-> "new"]
    /\ place = [r \in Requests |-> "none"]
    /\ tokens = [r \in Requests |-> 0]

\* A request in phase from, with its cache on device at, changes both.
Pass(r, from, at, to, on) ==
    /\ phase[r] = from /\ place[r] = at
    /\ phase' = [phase EXCEPT ![r] = to]
    /\ place' = [place EXCEPT ![r] = on]
    /\ UNCHANGED tokens

Arrive(r) == Pass(r, "new", "none", "waiting", "none")
Admit(r) == Pass(r, "waiting", "none", "running", "gpu")
SwapOut(r) == Pass(r, "running", "gpu", "swapped", "cpu")
SwapIn(r) == Pass(r, "swapped", "cpu", "running", "gpu")

\* Preemption by recomputation: the output is kept, the cache is not.
Recompute(r) == Pass(r, "running", "gpu", "waiting", "none")

\* Only a running request gets a token, and one at a time.
Generate(r) ==
    /\ phase[r] = "running" /\ place[r] = "gpu"
    /\ tokens' = [tokens EXCEPT ![r] = @ + 1]
    /\ UNCHANGED <<phase, place>>

\* The output ends with a token: the request stops where it runs, or wherever
\* it has got to when its output is late.
Stop(r) ==
    /\ phase[r] = "running" \/ (Late /\ phase[r] \in Live)
    /\ tokens[r] > 0
    /\ \E end \in {"stopped", "capped"} : phase' = [phase EXCEPT ![r] = end]
    /\ place' = [place EXCEPT ![r] = "none"]
    /\ UNCHANGED tokens

\* The scheduler, or a client, gives the request up.
Drop(r) ==
    /\ phase[r] \in Live
    /\ \E end \in {"aborted", "ignored"} : phase' = [phase EXCEPT ![r] = end]
    /\ place' = [place EXCEPT ![r] = "none"]
    /\ UNCHANGED tokens

\* With late outputs a request that has reached the length limit is marked
\* while it runs, and gives up its cache some time later.
Mark(r) == Late /\ Pass(r, "running", "gpu", "aborted", "gpu")
Release(r) == Late /\ Pass(r, "aborted", "gpu", "aborted", "none")

\* A request that was preempted before its late output ended it is in a queue
\* still, and may be given up once more.
DropEnded(r) ==
    /\ Late
    /\ phase[r] \in {"stopped", "capped"} /\ place[r] = "none"
    /\ \E end \in {"aborted", "ignored"} : phase' = [phase EXCEPT ![r] = end]
    /\ UNCHANGED <<place, tokens>>

Next ==
    \E r \in Requests :
        \/ Arrive(r) \/ Admit(r) \/ SwapOut(r) \/ SwapIn(r) \/ Recompute(r)
        \/ Generate(r) \/ Stop(r) \/ Drop(r) \/ Mark(r) \/ Release(r)
        \/ DropEnded(r)

Spec == Init /\ [][Next]_lifeVars
=============================================================================
