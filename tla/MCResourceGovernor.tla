------------------------ MODULE MCResourceGovernor --------------------------
(* An instance of ResourceGovernor for TLC: the modes and profiles of        *)
(* configs/modes with memory in units of half a GiB, and one request of each *)
(* kind that some rule tells apart.                                          *)
EXTENDS ResourceGovernor, TLC

Mode(ceiling, llm, hermes, cpu, gpu) ==
    [ceiling |-> ceiling, headroom |-> 3, gpu |-> gpu,
     limit |-> [remote_llm |-> llm, hermes_skill_foundry |-> hermes, heavy_duckdb |-> 2,
                cpu_bound |-> cpu]]

MCModes == {"trade_fast", "standard", "deep", "builder", "recovery"}
MCConfig == [trade_fast |-> Mode(13, 0, 0, 1, 1), standard |-> Mode(17, 2, 0, 2, 1),
             deep |-> Mode(18, 4, 1, 2, 1), builder |-> Mode(18, 0, 1, 2, 1),
             recovery |-> Mode(16, 0, 1, 1, 0)]
MCModeOf == [trade_fast |-> "trade_fast", standard |-> "standard", deep_builder |-> "deep",
             browser |-> "deep", train |-> "deep", archive |-> "trade_fast"]
MCEnvelope == [trade_fast |-> 13, standard |-> 17, deep_builder |-> 18, browser |-> 16,
               train |-> 18, archive |-> 13]

Request(workload, memory, gpu) ==
    [workload |-> workload, memory |-> memory, gpu |-> gpu, profile |-> "none",
     frozen |-> FALSE, reviewed |-> FALSE]

MCRequests ==
    {Request("cpu_bound", 8, FALSE), Request("hermes_skill_foundry", 2, FALSE),
     Request("browser", 4, FALSE), Request("gpu", 2, TRUE),
     Request("training_backtests", 4, TRUE), Request("training_backtests", 4, FALSE)}
    \cup {[Request("browser", 4, FALSE) EXCEPT !.reviewed = TRUE],
          [Request("gpu", 2, TRUE) EXCEPT !.frozen = TRUE, !.profile = "archive"],
          [Request("browser", 4, FALSE) EXCEPT !.profile = "browser"]}

\* A 12 GiB machine, idle or with 7 GiB in use, with or without a GPU reading.
MCMeasures ==
    {[used |-> u, available |-> 24 - u, gpuMeasured |-> g, gpuFree |-> IF g THEN 1 ELSE 0] :
        u \in {0, 14}, g \in BOOLEAN}

CONSTANTS l1, l2, l3
MCIds == {l1, l2, l3}
MCSymmetry == Permutations(MCIds)
=============================================================================
