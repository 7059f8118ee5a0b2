----------------------- MODULE ResourceGovernorProofs -----------------------
(***************************************************************************)
(* ExclusiveWork and GrantsAreBacked for every set of modes, requests,     *)
(* measurements and leases. With TypeOK each is inductive: a grant that    *)
(* would break the first is refused because the leases it is compared with *)
(* are those of all modes, and one that would break the second because the *)
(* reservation of every lease counts as memory in use.                     *)
(***************************************************************************)
EXTENDS ResourceGovernor, SharedLemmas

Inv == TypeOK /\ ExclusiveWork

\* _concurrency_rejection lets GPU work in only when no lease is on the GPU:
\* a mode allows at most one GPU job and the count is over all leases.
LEMMA GpuIsFree ==
    ASSUME NEW ls, NEW mode \in Modes, NEW profile, NEW r \in Requests,
           ConcurrencyAllows(ls, mode, profile, r), r.gpu
    PROVE  OnGpu(ls) = {}
<1>1. OnGpu(ls) \subseteq Ids
  BY DEF OnGpu, Active
<1>2. IsFiniteSet(OnGpu(ls))
  BY <1>1, FS_Subset, ConfigAssumption
<1>3. Cardinality(OnGpu(ls)) \in Nat
  BY <1>2, FS_CardinalityType
<1>4. Config[mode].gpu \in {0, 1}
  BY ConfigAssumption
<1>5. Cardinality(OnGpu(ls)) < Config[mode].gpu
  BY DEF ConcurrencyAllows
<1>6. Cardinality(OnGpu(ls)) = 0
  BY <1>3, <1>4, <1>5
<1> QED
  BY <1>2, <1>6, FS_EmptySet

\* A grant that passed admission (and, for a profile, the profile's own rules)
\* keeps the exclusive work exclusive.
LEMMA GrantPreserves ==
    ASSUME Inv, NEW mode \in Modes, NEW profile \in Profiles \cup {"none"},
           NEW r \in Requests, NEW i \in Ids \ Active(leases),
           ConcurrencyAllows(leases, mode, profile, r),
           leases' = [leases EXCEPT ![i] = Grant(mode, profile, r)],
           direct' \in SUBSET Ids, direct \subseteq direct',
           profile = "browser" => i \in direct' \/ InProfile(leases, "browser") = {}
    PROVE  /\ leases' \in [Ids -> Lease \cup {Free}]
           /\ ExclusiveWork'
<1> DEFINE g == Grant(mode, profile, r)
<1>1. g \in Lease
  BY RequestAssumption DEF Grant, Lease, Workloads
<1>2. leases' \in [Ids -> Lease \cup {Free}]
  BY <1>1 DEF Inv, TypeOK
<1>3. leases'[i] = g /\ \A k \in Ids \ {i} : leases'[k] = leases[k]
  BY DEF Inv, TypeOK
<1>4. \A k \in Active(leases)' : k # i => k \in Active(leases)
  BY <1>3 DEF Active
<1>5. g.gpu = r.gpu /\ g.workload = r.workload /\ g.profile = profile
  BY DEF Grant
<1>6. ASSUME NEW k \in Active(leases)
      PROVE  /\ ~(g.gpu /\ leases[k].gpu)
             /\ ~(g.workload = "training_backtests" /\ leases[k].workload = "training_backtests")
             /\ ~(g.profile = "browser" /\ i \notin direct' /\ leases[k].profile = "browser")
  <2>1. ~(g.gpu /\ leases[k].gpu)
    BY <1>5, GpuIsFree DEF OnGpu
  <2>2. ~(g.workload = "training_backtests" /\ leases[k].workload = "training_backtests")
    BY <1>5 DEF ConcurrencyAllows, Running
  <2>3. ~(g.profile = "browser" /\ i \notin direct' /\ leases[k].profile = "browser")
    BY <1>5 DEF InProfile
  <2> QED
    BY <2>1, <2>2, <2>3
<1>7. ASSUME NEW j \in Active(leases)', NEW k \in Active(leases)',
             \/ leases'[j].gpu /\ leases'[k].gpu
             \/ leases'[j].workload = "training_backtests" /\ leases'[k].workload = "training_backtests"
             \/ {j, k} \subseteq InProfile(leases, "browser")' \ direct'
      PROVE  j = k
  <2>1. CASE j = i /\ k = i
    BY <2>1
  <2>2. CASE j = i /\ k # i
    <3>1. k \in Active(leases) /\ leases'[k] = leases[k] /\ leases'[j] = g
      BY <1>3, <1>4, <2>2 DEF Active
    <3> QED
      BY <1>6, <1>7, <3>1, <2>2 DEF InProfile
  <2>3. CASE j # i /\ k = i
    <3>1. j \in Active(leases) /\ leases'[j] = leases[j] /\ leases'[k] = g
      BY <1>3, <1>4, <2>3 DEF Active
    <3> QED
      BY <1>6, <1>7, <3>1, <2>3 DEF InProfile
  <2>4. CASE j # i /\ k # i
    <3>1. {j, k} \subseteq Active(leases) /\ leases'[j] = leases[j] /\ leases'[k] = leases[k]
      BY <1>3, <1>4, <2>4 DEF Active
    <3> QED
      BY <1>7, <3>1 DEF Inv, ExclusiveWork, InProfile
  <2> QED
    BY <2>1, <2>2, <2>3, <2>4
<1>8. ExclusiveWork'
  BY <1>7 DEF ExclusiveWork
<1> QED
  BY <1>2, <1>8

\* Dropping leases cannot create a second one.
LEMMA DropPreserves ==
    ASSUME Inv, leases' \in [Ids -> Lease \cup {Free}],
           \A k \in Ids : leases'[k] \in {leases[k], Free},
           direct \cap Active(leases)' \subseteq direct'
    PROVE  ExclusiveWork'
<1>1. \A k \in Active(leases)' : k \in Active(leases) /\ leases'[k] = leases[k]
  BY DEF Active
<1> QED
  BY <1>1 DEF Inv, ExclusiveWork, InProfile

\* The first state satisfies the invariant.
LEMMA InitEstablishes == Init => Inv
<1> SUFFICES ASSUME Init PROVE Inv
  OBVIOUS
<1>1. TypeOK
  BY ConfigAssumption DEF Init, TypeOK
<1>2. Active(leases) = {}
  BY DEF Init, Active
<1> QED
  BY <1>1, <1>2 DEF Inv, ExclusiveWork

\* Every method of the governor, and a restart, preserves the invariant.
LEMMA NextPreserves == Inv /\ [Next]_vars => Inv'
<1> SUFFICES ASSUME Inv, [Next]_vars PROVE Inv'
  OBVIOUS
<1>1. CASE Admit
  <2>1. PICK mode \in Modes, r \in Requests, m \in Measures, i \in Ids \ Active(leases) :
          /\ Admissible(leases, mode, r.profile, r, m)
          /\ leases' = [leases EXCEPT ![i] = Grant(mode, r.profile, r)]
          /\ direct' = direct \cup {i}
          /\ \/ held' = held \cup {i} /\ UNCHANGED failures
             \/ failures < MaxFailures /\ failures' = failures + 1 /\ UNCHANGED held
    BY <1>1 DEF Admit
  <2>2. ConcurrencyAllows(leases, mode, r.profile, r)
    BY <2>1 DEF Admissible
  <2>3. r.profile \in Profiles \cup {"none"} /\ direct' \in SUBSET Ids /\ i \in direct' /\ direct \subseteq direct'
    BY <2>1, RequestAssumption DEF Inv, TypeOK
  <2>4. leases' \in [Ids -> Lease \cup {Free}] /\ ExclusiveWork'
    BY <2>1, <2>2, <2>3, GrantPreserves
  <2>5. held' \subseteq Ids /\ failures' \in 0..MaxFailures
    BY <2>1, ConfigAssumption DEF Inv, TypeOK
  <2> QED
    BY <2>3, <2>4, <2>5 DEF Inv, TypeOK
<1>2. CASE AdmitProfile
  <2>1. PICK p \in Profiles, r \in Requests, m1 \in Measures, m2 \in Measures, m3 \in Measures,
             i \in Ids \ Active(leases) :
          /\ ProfileAllows(leases, p, r, m1)
          /\ Admissible(leases, ModeOf[p], p, r, m2)
          /\ \/ /\ m3.used + r.memory <= Envelope[p]
                /\ leases' = [leases EXCEPT ![i] = Grant(ModeOf[p], p, r)]
                /\ held' = held \cup {i}
                /\ UNCHANGED <<direct, failures>>
             \/ m3.used + r.memory > Envelope[p] /\ UNCHANGED vars
             \/ /\ failures < MaxFailures /\ failures' = failures + 1
                /\ leases' = [leases EXCEPT ![i] = Grant(ModeOf[p], p, r)]
                /\ UNCHANGED <<held, direct>>
    BY <1>2 DEF AdmitProfile
  <2>2. ConcurrencyAllows(leases, ModeOf[p], p, r) /\ ModeOf[p] \in Modes
    BY <2>1, ConfigAssumption DEF Admissible
  <2>3. p = "browser" => InProfile(leases, "browser") = {}
    BY <2>1 DEF ProfileAllows
  <2>4. CASE leases' = [leases EXCEPT ![i] = Grant(ModeOf[p], p, r)]
             /\ held' \in {held, held \cup {i}} /\ direct' = direct
             /\ (failures' = failures \/ (failures < MaxFailures /\ failures' = failures + 1))
    <3> direct' \in SUBSET Ids /\ direct \subseteq direct'
      BY <2>4 DEF Inv, TypeOK
    <3>1. leases' \in [Ids -> Lease \cup {Free}] /\ ExclusiveWork'
      BY <2>2, <2>3, <2>4, GrantPreserves
    <3>2. held' \subseteq Ids /\ failures' \in 0..MaxFailures
      BY <2>4, ConfigAssumption DEF Inv, TypeOK
    <3> QED
      BY <3>1, <3>2 DEF Inv, TypeOK
  <2>5. CASE UNCHANGED vars
    BY <2>5 DEF vars, Inv, TypeOK, ExclusiveWork, Active, InProfile
  <2> QED
    BY <2>1, <2>4, <2>5
<1>3. CASE Release
  <2>1. PICK i \in held : leases' = [leases EXCEPT ![i] = Free] /\ held' = held \ {i}
                          /\ direct' = direct \ {i} /\ UNCHANGED failures
    BY <1>3 DEF Release
  <2>2. TypeOK'
    BY <2>1 DEF Inv, TypeOK
  <2>3. /\ \A k \in Ids : leases'[k] \in {leases[k], Free}
        /\ direct \cap Active(leases)' \subseteq direct'
    BY <2>1 DEF Inv, TypeOK, Active
  <2> QED
    BY <2>2, <2>3, DropPreserves DEF Inv, TypeOK
<1>4. CASE Restart
  <2>1. TypeOK' /\ (\A k \in Ids : leases'[k] \in {leases[k], Free}) /\ Active(leases)' = {}
    BY <1>4 DEF Inv, TypeOK, Restart, Active
  <2> QED
    BY <2>1, DropPreserves DEF Inv, TypeOK
<1>5. CASE UNCHANGED vars
  BY <1>5 DEF vars, Inv, TypeOK, ExclusiveWork, Active, InProfile
<1> QED
  BY <1>1, <1>2, <1>3, <1>4, <1>5 DEF Next

\* In every reachable state at most one lease is on the GPU, at most one trainer
\* runs and at most one Browser profile is open that admit_profile granted.
THEOREM ExclusiveWorkHolds == Spec => []ExclusiveWork
<1>1. Inv => ExclusiveWork
  BY DEF Inv
<1> QED
  BY InitEstablishes, NextPreserves, <1>1, PTL DEF Spec

\* Every state of the governor is well typed.
THEOREM GovernorTypeCorrect == Spec => []TypeOK
<1>1. Inv => TypeOK
  BY DEF Inv
<1> QED
  BY InitEstablishes, NextPreserves, <1>1, PTL DEF Spec

---------------------------------------------------------------------------
(* Memory and ownership. *)

\* The leases of this process are finitely many, and each reserves a natural number.
LEMMA ReservedType ==
    ASSUME NEW ls \in [Ids -> Lease \cup {Free}]
    PROVE  /\ IsFiniteSet(Active(ls))
           /\ \A i \in Ids : ls[i].memory \in Nat
           /\ Reserved(ls) \in Int
<1>1. IsFiniteSet(Active(ls)) /\ Active(ls) \subseteq Ids
  BY FS_Subset, ConfigAssumption DEF Active
<1>2. \A i \in Ids : ls[i].memory \in Nat
  BY DEF Lease, Free
<1> DEFINE q == [i \in Ids |-> ls[i].memory]
<1>3. \A i \in Active(ls) : q[i] \in Int
  BY <1>1, <1>2
<1> HIDE DEF q
<1>4. SumFunctionOnSet(q, Active(ls)) \in Int
  BY <1>1, <1>3, SumIsInt
<1> QED
  BY <1>1, <1>2, <1>4 DEF Reserved, q

\* A lease that is granted adds its reservation to those that stand.
LEMMA GrantReserves ==
    ASSUME NEW ls \in [Ids -> Lease \cup {Free}], NEW i \in Ids \ Active(ls), NEW lease \in Lease,
           NEW new, new = [ls EXCEPT ![i] = lease]
    PROVE  /\ Active(new) = Active(ls) \cup {i}
           /\ Reserved(new) = Reserved(ls) + lease.memory
<1> DEFINE q == [j \in Ids |-> ls[j].memory]
           r == [j \in Ids |-> new[j].memory]
<1>1. lease # Free
  <2>1. lease.mode \in Modes /\ Free.mode = "none"
    BY DEF Lease, Free
  <2> QED
    BY <2>1, ConfigAssumption
<1>2. new[i] = lease /\ \A j \in Ids \ {i} : new[j] = ls[j]
  OBVIOUS
<1>3. Active(new) = Active(ls) \cup {i}
  BY <1>1, <1>2 DEF Active
<1>4. /\ IsFiniteSet(Active(ls)) /\ lease.memory \in Nat
      /\ \A j \in Ids : ls[j].memory \in Nat
  BY ReservedType DEF Lease
<1>5. /\ Active(ls) \subseteq Ids
      /\ \A j \in Active(ls) : q[j] = r[j]
      /\ \A j \in Active(ls) \cup {i} : r[j] \in Int
      /\ r[i] = lease.memory
  <2>1. Active(ls) \subseteq Ids /\ i \in Ids /\ i \notin Active(ls)
    BY DEF Active
  <2> QED
    BY <1>2, <1>4, <2>1
<1> HIDE DEF q, r
<1>6. SumFunctionOnSet(q, Active(ls)) = SumFunctionOnSet(r, Active(ls))
  BY <1>4, <1>5, SumAgrees
<1>7. SumFunctionOnSet(r, Active(ls) \cup {i}) = SumFunctionOnSet(r, Active(ls)) + r[i]
  BY <1>4, <1>5, SumAdd
<1>8. Reserved(new) = SumFunctionOnSet(r, Active(new)) /\ Reserved(ls) = SumFunctionOnSet(q, Active(ls))
  BY DEF Reserved, q, r
<1>9. Reserved(new) = Reserved(ls) + lease.memory
  BY <1>3, <1>5, <1>6, <1>7, <1>8
<1> QED
  BY <1>3, <1>9

\* A lease that is released takes its reservation away.
LEMMA ReleaseFrees ==
    ASSUME NEW ls \in [Ids -> Lease \cup {Free}], NEW i \in Active(ls),
           NEW new, new = [ls EXCEPT ![i] = Free]
    PROVE  /\ Active(new) = Active(ls) \ {i}
           /\ Reserved(new) \in Int /\ Reserved(ls) \in Int
           /\ Reserved(new) <= Reserved(ls)
<1> DEFINE q == [j \in Ids |-> ls[j].memory]
           r == [j \in Ids |-> new[j].memory]
<1>1. i \in Ids /\ new \in [Ids -> Lease \cup {Free}]
  BY DEF Active
<1>2. new[i] = Free /\ \A j \in Ids \ {i} : new[j] = ls[j]
  BY <1>1
<1>3. Active(new) = Active(ls) \ {i}
  BY <1>2 DEF Active
<1>4. /\ IsFiniteSet(Active(ls)) /\ IsFiniteSet(Active(new))
      /\ \A j \in Ids : ls[j].memory \in Nat
      /\ Reserved(ls) \in Int /\ Reserved(new) \in Int
  BY <1>1, ReservedType
<1>5. /\ \A j \in Active(new) : q[j] = r[j]
      /\ \A j \in Active(ls) : q[j] \in Int
      /\ q[i] \in Nat
  <2>1. Active(ls) \subseteq Ids
    BY DEF Active
  <2>2. \A j \in Active(new) : j \in Ids \ {i}
    BY <1>3, <2>1
  <2>3. \A j \in Active(new) : q[j] = r[j]
    BY <1>2, <2>2
  <2>4. \A j \in Ids : q[j] \in Nat
    BY <1>4
  <2> HIDE DEF q, r
  <2>5. q[i] \in Nat /\ \A j \in Active(ls) : q[j] \in Int
    BY <1>1, <2>1, <2>4
  <2> QED
    BY <2>3, <2>5
<1> HIDE DEF q, r
<1>6. SumFunctionOnSet(q, Active(new)) = SumFunctionOnSet(r, Active(new))
  BY <1>4, <1>5, SumAgrees
<1>7. SumFunctionOnSet(q, Active(ls)) = q[i] + SumFunctionOnSet(q, Active(ls) \ {i})
  BY <1>4, <1>5, SumRemove
<1>8. Reserved(new) = SumFunctionOnSet(r, Active(new)) /\ Reserved(ls) = SumFunctionOnSet(q, Active(ls))
  BY DEF Reserved, q, r
<1>9. Reserved(ls) = q[i] + Reserved(new)
  BY <1>3, <1>6, <1>7, <1>8
<1>10. q[i] \in Nat /\ Reserved(ls) \in Int /\ Reserved(new) \in Int
  BY <1>4, <1>5
<1>11. Reserved(new) <= Reserved(ls)
  BY <1>9, <1>10
<1> QED
  BY <1>3, <1>10, <1>11

\* A grant, held by its caller or lost to a failed append, stays backed.
LEMMA GrantIsBacked ==
    ASSUME Inv, GrantsAreBacked, NEW mode \in Modes, NEW profile \in Profiles \cup {"none"},
           NEW r \in Requests, NEW i \in Ids \ Active(leases), NEW m \in Measures,
           MemoryAllows(leases, mode, r, m),
           leases' = [leases EXCEPT ![i] = Grant(mode, profile, r)],
           \/ held' = held \cup {i} /\ failures' = failures
           \/ held' = held /\ failures' = failures + 1
    PROVE  GrantsAreBacked'
<1>1. Grant(mode, profile, r) \in Lease /\ Grant(mode, profile, r).memory = r.memory
  BY RequestAssumption DEF Grant, Lease, Workloads
<1>2. leases \in [Ids -> Lease \cup {Free}]
  BY DEF Inv, TypeOK
<1>3. Active(leases') = Active(leases) \cup {i} /\ Reserved(leases') = Reserved(leases) + r.memory
  <2> DEFINE lease == Grant(mode, profile, r)
  <2>1. lease \in Lease /\ leases' = [leases EXCEPT ![i] = lease]
    BY <1>1
  <2> HIDE DEF lease
  <2>2. \A new : new = [leases EXCEPT ![i] = lease] =>
                Active(new) = Active(leases) \cup {i} /\ Reserved(new) = Reserved(leases) + lease.memory
    BY <1>2, <2>1, GrantReserves, ZenonT(60)
  <2>3. Active(leases') = Active(leases) \cup {i} /\ Reserved(leases') = Reserved(leases) + lease.memory
    BY <2>1, <2>2
  <2> QED
    BY <1>1, <2>3 DEF lease
<1>4. ReservationsFit'
  <2>1. Reserved(leases') <= Config[mode].ceiling
    <3>1. m.used + Reserved(leases) + r.memory <= Config[mode].ceiling
      BY DEF MemoryAllows
    <3>2. m.used \in Nat /\ r.memory \in Nat /\ Reserved(leases) \in Int /\ Config[mode].ceiling \in Nat
      BY <1>2, ReservedType, RequestAssumption, ConfigAssumption
    <3> QED
      BY <1>3, <3>1, <3>2
  <2> QED
    BY <2>1 DEF ReservationsFit
<1>5. LeasesAreHeld'
  <2> DEFINE A == Active(leases)
  <2>1. IsFiniteSet(A) /\ failures \in Nat /\ held \subseteq A /\ Cardinality(A \ held) <= failures
    BY <1>2, ReservedType DEF GrantsAreBacked, LeasesAreHeld, Inv, TypeOK
  <2>2. IsFiniteSet(A \ held) /\ Cardinality(A \ held) \in Nat
    BY <2>1, FS_Subset, FS_CardinalityType
  <2>3. held' \subseteq A \cup {i}
    BY <2>1
  <2>4. i \notin A
    BY DEF Active
  <2> HIDE DEF A
  <2>5. CASE held' = held \cup {i} /\ failures' = failures
    <3>1. (A \cup {i}) \ held' = A \ held
      BY <2>4, <2>5
    <3> QED
      BY <1>3, <2>1, <2>3, <2>5, <3>1 DEF LeasesAreHeld, A
  <2>6. CASE held' = held /\ failures' = failures + 1
    <3>1. (A \cup {i}) \ held' = (A \ held) \cup {i} /\ i \notin A \ held
      BY <2>1, <2>4, <2>6
    <3>2. Cardinality((A \ held) \cup {i}) = Cardinality(A \ held) + 1
      BY <2>2, <3>1, FS_AddElement
    <3>3. Cardinality((A \cup {i}) \ held') <= failures'
      BY <2>1, <2>2, <2>6, <3>1, <3>2
    <3> QED
      BY <1>3, <2>3, <3>3 DEF LeasesAreHeld, A
  <2> QED
    BY <2>5, <2>6
<1> QED
  BY <1>4, <1>5 DEF GrantsAreBacked

\* Nothing is granted in the first state.
LEMMA InitBacks == Init => GrantsAreBacked
<1> SUFFICES ASSUME Init PROVE GrantsAreBacked
  OBVIOUS
<1>1. Active(leases) = {} /\ held = {} /\ failures = 0
  BY DEF Init, Active
<1>2. Reserved(leases) = 0 /\ Cardinality({}) = 0
  BY <1>1, SumOfNone, FS_EmptySet DEF Reserved
<1>3. "deep" \in Modes /\ Config["deep"].ceiling \in Nat
  BY ConfigAssumption
<1>4. ReservationsFit
  BY <1>2, <1>3 DEF ReservationsFit
<1>5. LeasesAreHeld
  BY <1>1, <1>2 DEF LeasesAreHeld
<1> QED
  BY <1>4, <1>5 DEF GrantsAreBacked

\* Every method of the governor, and a restart, keeps what is granted backed.
LEMMA NextBacks == Inv /\ GrantsAreBacked /\ [Next]_vars => GrantsAreBacked'
<1> SUFFICES ASSUME Inv, GrantsAreBacked, [Next]_vars PROVE GrantsAreBacked'
  OBVIOUS
<1>1. CASE Admit
  <2>1. PICK mode \in Modes, r \in Requests, m \in Measures, i \in Ids \ Active(leases) :
          /\ Admissible(leases, mode, r.profile, r, m)
          /\ leases' = [leases EXCEPT ![i] = Grant(mode, r.profile, r)]
          /\ direct' = direct \cup {i}
          /\ \/ held' = held \cup {i} /\ UNCHANGED failures
             \/ failures < MaxFailures /\ failures' = failures + 1 /\ UNCHANGED held
    BY <1>1 DEF Admit
  <2>2. MemoryAllows(leases, mode, r, m) /\ r.profile \in Profiles \cup {"none"}
    BY <2>1, RequestAssumption DEF Admissible
  <2> QED
    BY <2>1, <2>2, GrantIsBacked
<1>2. CASE AdmitProfile
  <2>1. PICK p \in Profiles, r \in Requests, m2 \in Measures, i \in Ids \ Active(leases) :
          /\ Admissible(leases, ModeOf[p], p, r, m2)
          /\ \/ /\ leases' = [leases EXCEPT ![i] = Grant(ModeOf[p], p, r)]
                /\ held' = held \cup {i}
                /\ UNCHANGED <<direct, failures>>
             \/ UNCHANGED vars
             \/ /\ failures' = failures + 1
                /\ leases' = [leases EXCEPT ![i] = Grant(ModeOf[p], p, r)]
                /\ UNCHANGED <<held, direct>>
    BY <1>2 DEF AdmitProfile
  <2>2. MemoryAllows(leases, ModeOf[p], r, m2) /\ ModeOf[p] \in Modes
    BY <2>1, ConfigAssumption DEF Admissible
  <2>3. CASE UNCHANGED vars
    BY <2>3 DEF vars, GrantsAreBacked, ReservationsFit, LeasesAreHeld
  <2>4. CASE /\ leases' = [leases EXCEPT ![i] = Grant(ModeOf[p], p, r)]
             /\ \/ held' = held \cup {i} /\ failures' = failures
                \/ held' = held /\ failures' = failures + 1
    BY <2>1, <2>2, <2>4, GrantIsBacked
  <2> QED
    BY <2>1, <2>3, <2>4
<1>3. CASE Release
  <2>1. PICK i \in held : leases' = [leases EXCEPT ![i] = Free] /\ held' = held \ {i}
                          /\ UNCHANGED failures
    BY <1>3 DEF Release
  <2>2. i \in Active(leases) /\ leases \in [Ids -> Lease \cup {Free}]
    BY <2>1 DEF GrantsAreBacked, LeasesAreHeld, Inv, TypeOK
  <2>3. /\ Active(leases') = Active(leases) \ {i}
        /\ Reserved(leases') \in Int /\ Reserved(leases) \in Int
        /\ Reserved(leases') <= Reserved(leases)
    BY <2>1, <2>2, ReleaseFrees
  <2>4. ReservationsFit'
    <3>1. PICK mode \in Modes : Reserved(leases) <= Config[mode].ceiling
      BY DEF GrantsAreBacked, ReservationsFit
    <3>2. Config[mode].ceiling \in Nat
      BY ConfigAssumption
    <3>3. Reserved(leases') <= Config[mode].ceiling
      BY <2>3, <3>1, <3>2
    <3> QED
      BY <3>3 DEF ReservationsFit
  <2>5. LeasesAreHeld'
    <3>1. Active(leases') \ held' = Active(leases) \ held
      BY <2>1, <2>3
    <3> QED
      BY <2>1, <2>3, <3>1 DEF GrantsAreBacked, LeasesAreHeld
  <2> QED
    BY <2>4, <2>5 DEF GrantsAreBacked
<1>4. CASE Restart
  <2>1. Active(leases') = {} /\ held' = {} /\ failures' \in Nat
    BY <1>4 DEF Restart, Active, Inv, TypeOK
  <2>2. Reserved(leases') = 0 /\ Cardinality({}) = 0
    BY <2>1, SumOfNone, FS_EmptySet DEF Reserved
  <2>3. ReservationsFit'
    <3>1. "deep" \in Modes /\ Config["deep"].ceiling \in Nat
      BY ConfigAssumption
    <3> QED
      BY <2>2, <3>1 DEF ReservationsFit
  <2>4. LeasesAreHeld'
    BY <2>1, <2>2 DEF LeasesAreHeld
  <2> QED
    BY <2>3, <2>4 DEF GrantsAreBacked
<1>5. CASE UNCHANGED vars
  BY <1>5 DEF vars, GrantsAreBacked, ReservationsFit, LeasesAreHeld
<1> QED
  BY <1>1, <1>2, <1>3, <1>4, <1>5 DEF Next

\* In every reachable state the reservations of the leases fit under the largest
\* ceiling, and only an append that raised has left a lease in nobody's hands.
THEOREM GrantsAreBackedTheorem == Spec => []GrantsAreBacked
<1>1. Init => Inv /\ GrantsAreBacked
  BY InitEstablishes, InitBacks
<1>2. Inv /\ GrantsAreBacked /\ [Next]_vars => (Inv /\ GrantsAreBacked)'
  BY NextPreserves, NextBacks
<1> QED
  BY <1>1, <1>2, PTL DEF Spec
=============================================================================
