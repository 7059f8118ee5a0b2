-------------------------- MODULE ResourceGovernor --------------------------
(***************************************************************************)
(* The resource governor of one process (resources/governor.py): leases    *)
(* for work that needs memory, the GPU or one of a few workers, granted    *)
(* from what a probe measures and from the leases already held.            *)
(*                                                                         *)
(* Every public method runs under one lock, so each is one step; a probe   *)
(* is asked up to three times in a step and may answer differently each    *)
(* time. Leases live in memory only: a restart forgets them.               *)
(***************************************************************************)
EXTENDS Naturals, FiniteSets, Functions

CONSTANTS
    Ids,         \* lease identities
    Modes,       \* mission modes
    Config,      \* ModeConfig of each mode
    Requests,    \* the requests callers make
    ModeOf,      \* mode_by_profile
    Envelope,    \* upper_bounds of each profile
    Measures,    \* what the probe may answer
    MaxFailures  \* bound on ledger appends that raise

Limits == {"remote_llm", "hermes_skill_foundry", "heavy_duckdb", "cpu_bound"}
Profiles == DOMAIN ModeOf

\* ModeConfig allows at most one GPU job in any mode; "none" marks a free slot.
ASSUME ConfigAssumption ==
    /\ IsFiniteSet(Ids)
    /\ {"trade_fast", "deep"} \subseteq Modes /\ "none" \notin Modes
    /\ Config \in [Modes -> [ceiling : Nat, headroom : Nat, gpu : {0, 1},
                             limit : [Limits -> Nat]]]
    /\ ModeOf \in [Profiles -> Modes]
    /\ MaxFailures \in Nat

\* GPU work asks for the GPU (ResourceRequest.__post_init__). A request may name any
\* profile, whether it is made through admit_profile or not.
ASSUME RequestAssumption ==
    /\ \A r \in Requests : r.gpu \in BOOLEAN /\ r.memory \in Nat
    /\ \A r \in Requests : r.workload = "gpu" => r.gpu
    /\ \A r \in Requests : r.profile \in Profiles \cup {"none"}
    /\ \A m \in Measures : m.used \in Nat /\ m.available \in Nat /\ m.gpuFree \in Nat

Workloads == {r.workload : r \in Requests}
Lease == [mode : Modes, profile : Profiles \cup {"none"}, workload : Workloads,
          memory : Nat, gpu : BOOLEAN]
Free == [mode |-> "none", profile |-> "none", workload |-> "none", memory |-> 0, gpu |-> FALSE]

VARIABLES
    leases,  \* _leases: the lease of each identity, or Free
    held,    \* identities a granted decision has handed to a caller
    direct,  \* history: the leases of admit, with the profile the request named
    failures

vars == <<leases, held, direct, failures>>

Active(ls) == {i \in Ids : ls[i] # Free}
Running(ls, w) == {i \in Active(ls) : ls[i].workload = w}
OnGpu(ls) == {i \in Active(ls) : ls[i].gpu}
InProfile(ls, p) == {i \in Active(ls) : ls[i].profile = p}
Reserved(ls) == SumFunctionOnSet([i \in Ids |-> ls[i].memory], Active(ls))

-----------------------------------------------------------------------------
(* Admission.                                                              *)

\* browser_limit is 0 in every mode: browser work needs the Browser profile.
ConcurrencyAllowsPerMode(ls, mode, profile, r) ==
    /\ r.workload \in Limits => Cardinality(Running(ls, r.workload)) < Config[mode].limit[r.workload]
    /\ r.workload = "browser" => profile = "browser"
    /\ r.gpu => Cardinality({i \in OnGpu(ls) : ls[i].mode = mode}) < Config[mode].gpu
    /\ r.workload = "training_backtests" => Running(ls, r.workload) = {}

ConcurrencyAllows(ls, mode, profile, r) ==
    /\ r.workload \in Limits => Cardinality(Running(ls, r.workload)) < Config[mode].limit[r.workload]
    /\ r.workload = "browser" => profile = "browser"
    /\ r.gpu => Cardinality(OnGpu(ls)) < Config[mode].gpu
    /\ r.workload = "training_backtests" => Running(ls, r.workload) = {}

MemoryAllowsUnreserved(ls, mode, r, measured) ==
    /\ measured.used + r.memory <= Config[mode].ceiling
    /\ measured.available >= Config[mode].headroom + r.memory

MemoryAllows(ls, mode, r, measured) ==
    /\ measured.used + Reserved(ls) + r.memory <= Config[mode].ceiling
    /\ measured.available >= Config[mode].headroom + Reserved(ls) + r.memory

Admissible(ls, mode, profile, r, measured) ==
    /\ ConcurrencyAllows(ls, mode, profile, r)
    /\ MemoryAllows(ls, mode, r, measured)
    /\ r.gpu => measured.gpuMeasured
    /\ mode = "trade_fast" /\ r.gpu => r.frozen

Grant(mode, profile, r) ==
    [mode |-> mode, profile |-> profile, workload |-> r.workload, memory |-> r.memory, gpu |-> r.gpu]

\* The lease is stored before its ledger row: when the append raises the lease
\* stays and no caller learns its identity.
Admit ==
    \E mode \in Modes, r \in Requests, measured \in Measures, i \in Ids \ Active(leases) :
        /\ Admissible(leases, mode, r.profile, r, measured)
        /\ leases' = [leases EXCEPT ![i] = Grant(mode, r.profile, r)]
        /\ direct' = direct \cup {i}
        /\ \/ held' = held \cup {i} /\ UNCHANGED failures
           \/ failures < MaxFailures /\ failures' = failures + 1 /\ UNCHANGED held

\* What a profile asks for beyond the caps of its mode.
ProfileAllows(ls, p, r, measured) ==
    /\ r.profile \in {"none", p}
    /\ p = "browser" =>
          /\ InProfile(ls, "browser") = {}
          /\ OnGpu(ls) # {} =>
                /\ r.reviewed
                /\ measured.available >= Config["deep"].headroom + Reserved(ls) + r.memory
                /\ measured.gpuMeasured /\ measured.gpuFree > 0
          /\ r.workload = "browser" /\ ~r.gpu
    /\ p = "train" =>
          /\ InProfile(ls, "browser") \cup InProfile(ls, "train") = {}
          /\ Running(ls, "hermes_skill_foundry") = {}
          /\ r.workload = "training_backtests" /\ r.gpu
    /\ p = "archive" => ~r.gpu

\* The envelope is measured after the lease was granted, without the other
\* reservations; a lease outside it is released again before the lock is. The
\* append of the grant or the last measurement may raise and leave the lease.
AdmitProfile ==
    \E p \in Profiles, r \in Requests, m1, m2, m3 \in Measures, i \in Ids \ Active(leases) :
        /\ ProfileAllows(leases, p, r, m1)
        /\ Admissible(leases, ModeOf[p], p, r, m2)
        /\ \/ /\ m3.used + r.memory <= Envelope[p]
              /\ leases' = [leases EXCEPT ![i] = Grant(ModeOf[p], p, r)]
              /\ held' = held \cup {i}
              /\ UNCHANGED <<direct, failures>>
           \/ m3.used + r.memory > Envelope[p] /\ UNCHANGED vars
           \/ /\ failures < MaxFailures /\ failures' = failures + 1
              /\ leases' = [leases EXCEPT ![i] = Grant(ModeOf[p], p, r)]
              /\ UNCHANGED <<held, direct>>

\* The lease is dropped before its row is written, so it is gone also when the
\* append raises; releasing it again does nothing.
Release ==
    \E i \in held :
        /\ leases' = [leases EXCEPT ![i] = Free]
        /\ held' = held \ {i} /\ direct' = direct \ {i}
        /\ UNCHANGED failures

Restart ==
    /\ leases' = [i \in Ids |-> Free]
    /\ held' = {} /\ direct' = {}
    /\ UNCHANGED failures

Init ==
    /\ leases = [i \in Ids |-> Free]
    /\ held = {} /\ direct = {}
    /\ failures = 0

Next == Admit \/ AdmitProfile \/ Release \/ Restart

Spec == Init /\ [][Next]_vars

-----------------------------------------------------------------------------
(* Properties.                                                             *)

\* Every variable keeps its type.
TypeOK ==
    /\ leases \in [Ids -> Lease \cup {Free}]
    /\ held \subseteq Ids /\ direct \subseteq Ids
    /\ failures \in 0..MaxFailures

\* "GPU jobs: one global lease" and one heavy trainer at a time, whatever the modes
\* the leases were granted in and in whatever order admit, admit_profile and release
\* were called; and of the Browser profiles granted by admit_profile one at a time.
\* admit compares a request that names the Browser profile with nothing.
ExclusiveWork ==
    \A i, j \in Active(leases) :
        (\/ leases[i].gpu /\ leases[j].gpu
         \/ leases[i].workload = "training_backtests" /\ leases[j].workload = "training_backtests"
         \/ {i, j} \subseteq InProfile(leases, "browser") \ direct) => i = j

\* "browser: one page/context-heavy job" among the initial concurrency caps. The code
\* keeps it only for admit_profile.
OneBrowserJob == Cardinality(Running(leases, "browser")) <= 1

\* The reservations of all leases together fit under the largest ceiling, even
\* when every measurement was taken before the work it admitted used any memory.
ReservationsFit == \E mode \in Modes : Reserved(leases) <= Config[mode].ceiling

\* A lease that exists can be released by the caller it was granted to, a refused
\* profile leaves none behind, and an append that raises leaks at most one.
LeasesAreHeld ==
    /\ held \subseteq Active(leases)
    /\ Cardinality(Active(leases) \ held) <= failures

\* "Train: exclusive GPU lease; browsers and Hermes off", for as long as the
\* lease of the Train profile lasts.
TrainIsExclusive ==
    InProfile(leases, "train") # {} =>
        InProfile(leases, "browser") \cup Running(leases, "hermes_skill_foundry") = {}

\* What was granted is backed by memory and in somebody's hands.
GrantsAreBacked == ReservationsFit /\ LeasesAreHeld
=============================================================================
