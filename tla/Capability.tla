----------------------------- MODULE Capability -----------------------------
(***************************************************************************)
(* The capability registry and broker: a card climbs a fixed ladder, each  *)
(* step a ledger row before it is a change in memory; the broker hands out *)
(* executors of active cards.  Several processes may hold a registry over  *)
(* one ledger and see each other's rows only when they start.              *)
(*                                                                         *)
(* One name and version; two cards that claim it, since a card built again *)
(* from the same candidate has a fresh artifact id and compares unequal.   *)
(***************************************************************************)
EXTENDS Naturals, Sequences, FiniteSets

CONSTANTS
    CardIds,        \* the cards that claim the one name:version
    References,     \* CardIds -> the kinds of test its references name
    Registries,     \* the processes, each operated by an actor of its own
    MaxCardRows,    \* CardIds -> bound on a card's rows
    MaxRegistryDeaths \* bound on deaths, and on changes of gate 8

LifecycleOrder ==
    <<"gap", "scout", "pin", "inspect", "sandbox", "wrap_build", "contract_tested", "security_tested",
      "performance_benchmarked", "shadow", "active_read", "active_write_limited", "deprecated">>
Lifecycle == {LifecycleOrder[i] : i \in DOMAIN LifecycleOrder}
Rank(s) == CHOOSE i \in DOMAIN LifecycleOrder : LifecycleOrder[i] = s
Active == {"active_read", "active_write_limited"}
TestKinds == {"contract", "security", "performance"}

ASSUME CapabilityAssumption ==
    /\ References \in [CardIds -> SUBSET TestKinds]
    /\ MaxCardRows \in [CardIds -> Nat] /\ MaxRegistryDeaths \in Nat

NoCard == [card |-> 0, stage |-> "none"]

VARIABLES
    capRows,   \* the ledger's rows; by and gated are not columns but remember the writer and gate 8
    shelf,     \* registry -> the card in its memory
    registry,  \* registry -> "down", "up" or "refused" by its own ledger
    gate8,     \* "absent" (no gate registry), "open" or "closed"
    lent,      \* the cards, at their stage, whose executor was handed out
    capMishaps

capVars == <<capRows, shelf, registry, gate8, lent, capMishaps>>

CapTypeOK ==
    /\ capRows \in Seq([card : CardIds, stage : Lifecycle, by : Registries, approval : BOOLEAN, gated : BOOLEAN])
    /\ shelf \in [Registries -> [card : CardIds, stage : Lifecycle] \cup {NoCard}]
    /\ registry \in [Registries -> {"down", "up", "refused"}]
    /\ gate8 \in {"absent", "open", "closed"}
    /\ lent \subseteq [card : CardIds, stage : Active]
    /\ capMishaps \in 0..MaxRegistryDeaths

CapInit ==
    /\ capRows = <<>> /\ shelf = [r \in Registries |-> NoCard]
    /\ registry = [r \in Registries |-> "up"]
    /\ gate8 \in {"absent", "open", "closed"} /\ lent = {} /\ capMishaps = 0

CapMishap == capMishaps < MaxRegistryDeaths /\ capMishaps' = capMishaps + 1

---------------------------------------------------------------------------
\* A plausible slip: a later stage is as good as the next one.
AnyLaterStage(s, t) == Rank(t) > Rank(s)

\* _validate_transition: the next stage, or retirement from anywhere.
ValidTransition(s, t) == Rank(t) = Rank(s) + 1 \/ t = "deprecated"

\* The idempotency key is the card at its stage; the payload adds the actor
\* (the word "registry" for a registration) and the approval.
Recorded(c, s) == {i \in DOMAIN capRows : capRows[i].card = c /\ capRows[i].stage = s}
SamePayload(i, r, approval) ==
    capRows[i].stage = "gap" \/ (capRows[i].by = r /\ capRows[i].approval = approval)

\* _record, then the memory, unless the process dies between the two.  A key
\* with another payload raises and changes nothing.
Record(r, c, s, approval) ==
    /\ \A i \in Recorded(c, s) : SamePayload(i, r, approval)
    /\ IF Recorded(c, s) # {} THEN UNCHANGED capRows
       ELSE /\ Cardinality({i \in DOMAIN capRows : capRows[i].card = c}) < MaxCardRows[c]
            /\ capRows' = Append(capRows, [card |-> c, stage |-> s, by |-> r, approval |-> approval,
                                           gated |-> gate8 # "closed"])
    /\ \/ /\ shelf' = [shelf EXCEPT ![r] = [card |-> c, stage |-> s]]
          /\ UNCHANGED <<registry, capMishaps>>
       \/ /\ CapMishap
          /\ registry' = [registry EXCEPT ![r] = "down"] /\ shelf' = [shelf EXCEPT ![r] = NoCard]
    /\ UNCHANGED <<gate8, lent>>

\* register: a card the memory already has, in any stage, is either returned
\* or refused.
Register(r, c) ==
    /\ registry[r] = "up" /\ shelf[r] = NoCard
    /\ Record(r, c, "gap", FALSE)

\* The reference a stage asks for.
Tested(c, t) ==
    /\ t = "contract_tested" => "contract" \in References[c]
    /\ t = "security_tested" => "security" \in References[c]
    /\ t = "performance_benchmarked" => "performance" \in References[c]

PromoteCard(r, t, approval) ==
    /\ registry[r] = "up" /\ shelf[r] # NoCard
    /\ t = "active_write_limited" => approval
    /\ t \in Active => gate8 # "closed"
    /\ ValidTransition(shelf[r].stage, t) /\ Tested(shelf[r].card, t)
    /\ Record(r, shelf[r].card, t, approval)

---------------------------------------------------------------------------
\* _hydrate: each row against the one before it, which is what the memory
\* then holds.  Neither the references nor gate 8 are looked at again.
RowReplays(i) ==
    LET row == capRows[i] IN
    IF row.stage = "gap" THEN i = 1 \/ (capRows[i - 1].card = row.card /\ capRows[i - 1].stage = "gap")
    ELSE /\ i > 1
         /\ row.stage = "active_write_limited" => row.approval
         /\ ValidTransition(capRows[i - 1].stage, row.stage)
Replays == \A i \in DOMAIN capRows : RowReplays(i)

Hydrate(r) ==
    /\ registry[r] = "down"
    /\ registry' = [registry EXCEPT ![r] = IF Replays THEN "up" ELSE "refused"]
    /\ shelf' = [shelf EXCEPT ![r] = IF Replays /\ capRows # <<>>
                                     THEN [card |-> capRows[Len(capRows)].card, stage |-> capRows[Len(capRows)].stage]
                                     ELSE NoCard]
    /\ UNCHANGED <<capRows, gate8, lent, capMishaps>>

RegistryDies(r) ==
    /\ registry[r] = "up" /\ CapMishap
    /\ registry' = [registry EXCEPT ![r] = "down"] /\ shelf' = [shelf EXCEPT ![r] = NoCard]
    /\ UNCHANGED <<capRows, gate8, lent>>

\* Phase 8 is admitted, or its evidence expires.
GateMoves ==
    /\ gate8 # "absent" /\ CapMishap
    /\ gate8' = IF gate8 = "open" THEN "closed" ELSE "open"
    /\ UNCHANGED <<capRows, shelf, registry, lent>>

\* expose: the executor of an active card, for a declared action in a deep
\* mode.  It is returned as it is: what becomes of the card later, or of gate
\* 8, no longer matters to who holds it.
Expose(r) ==
    /\ registry[r] = "up" /\ shelf[r].stage \in Active
    /\ lent' = lent \cup {shelf[r]}
    /\ UNCHANGED <<capRows, shelf, registry, gate8, capMishaps>>

CapNext ==
    \E r \in Registries :
        \/ \E c \in CardIds : Register(r, c)
        \/ \E t \in Lifecycle \ {"gap"}, approval \in BOOLEAN :
              (approval => t = "active_write_limited") /\ PromoteCard(r, t, approval)
        \/ Hydrate(r) \/ RegistryDies(r) \/ GateMoves \/ Expose(r)

CapSpec == CapInit /\ [][CapNext]_capVars

---------------------------------------------------------------------------
\* An executor is handed out only for a card that climbed the whole ladder in
\* the ledger, whoever wrote the rows and whatever died in between.
\* - every stage has its row, in order; the tests are named, the write stage
\*   was approved, and gate 8 was not closed when an active row was written.
\* - a memory never runs ahead of the ledger.
\* - a ledger that replays never brings a deprecated card back.
\* - a registry refuses its own ledger only if two registries wrote to it.
Climbed(c, s) ==
    \A k \in 2..Rank(s) : \E i, j \in DOMAIN capRows :
        /\ i < j /\ capRows[i].card = c /\ capRows[j].card = c
        /\ capRows[i].stage = LifecycleOrder[k - 1] /\ capRows[j].stage = LifecycleOrder[k]

ActiveIsEarned ==
    /\ \A l \in lent :
          /\ Climbed(l.card, l.stage) /\ References[l.card] = TestKinds
          /\ \A i \in DOMAIN capRows : capRows[i].card = l.card =>
                /\ capRows[i].stage \in Active => capRows[i].gated
                /\ capRows[i].stage = "active_write_limited" => capRows[i].approval
    /\ \A r \in Registries : shelf[r] # NoCard =>
          \E i \in DOMAIN capRows : capRows[i].card = shelf[r].card /\ capRows[i].stage = shelf[r].stage
    /\ Replays /\ (\E i \in DOMAIN capRows : capRows[i].stage = "deprecated") =>
          capRows[Len(capRows)].stage = "deprecated"
    /\ (\E r \in Registries : registry[r] = "refused") =>
          \E i, j \in DOMAIN capRows : capRows[i].by # capRows[j].by
=============================================================================
