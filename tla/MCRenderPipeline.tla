-------------------------- MODULE MCRenderPipeline --------------------------
(* RenderPipeline for TLC: executions, sweeps and calls are interchangeable. *)
EXTENDS RenderPipeline, TLC

Symmetry == Permutations(Exec) \cup Permutations(Sweeper)
            \cup Permutations(Canceller) \cup Permutations(Failer)
=============================================================================
