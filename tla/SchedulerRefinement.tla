------------------------ MODULE SchedulerRefinement ------------------------
(* SLOScheduler implements RequestLifecycle.                                *)
EXTENDS MCSLOScheduler

Lifecycle == INSTANCE RequestLifecycle
    WITH Requests <- Groups, Late <- AsyncOutput,
         phase <- status, place <- device, tokens <- outLen

\* Every loop, list and queue of the scheduler comes down to the life of the
\* requests: whatever the interleaving of clients, swaps, preemptions, late
\* outputs and aborts, a request takes only the steps of RequestLifecycle
\* (slo_scheduler.py, vllm/core/scheduler.py, vllm/engine/llm_engine.py).
ImplementsLifecycle == Lifecycle!Spec
=============================================================================
