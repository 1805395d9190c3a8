-------------------------- MODULE MCAgentPipeline --------------------------
(* One job, with plans of one or two steps: a condition that is looked     *)
(* at, a file that is written without an approval, commands that need one, *)
(* with an effect that can be tested for and without.  The probes add the  *)
(* steps of the third type.                                                *)
EXTENDS AgentPipeline

MCTools == {Inspect, WriteFile, Command, KindOf("run_command", "make")}

(* Every set of up to three keywords with their own words and any of those *)
(* of the two phrases, beside no, one or three other words.                *)
MCObjectives ==
    {o \in [found : {s \in SUBSET AllKeywords : Cardinality(s) <= 3},
            words : {s \in SUBSET AllWords : Cardinality(s) <= 3},
            others : {0, 1, 3}] : IsObjective(o)}
=============================================================================
