------------------------------ MODULE MCLongRun ------------------------------
EXTENDS LongRun

Contract(cutoffs, terminal, check, cast, weak) ==
    [cutoff |-> cutoffs, terminal |-> terminal, check |-> check, minClean |-> 1,
     roles |-> cast, fallible |-> weak, faults |-> 1]

\* Two cutoffs, of which one may be lost, and a candidate that may fail or crash;
\* one cutoff and a watchdog that may crash; one cutoff and a source or a linker
\* that may.  Without a watchdog: nobody started it.
MCScenarios == {
    Contract(<<1, 2>>, 4, 4, Processes \ {"watchdog"}, {"candidate"}),
    Contract(<<1>>, 3, 3, Processes, {"watchdog"}),
    Contract(<<1>>, 3, 4, Processes \ {"watchdog"}, {"collector", "linker"})}

==============================================================================
