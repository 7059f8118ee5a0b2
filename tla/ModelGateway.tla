---------------------------- MODULE ModelGateway ----------------------------
(***************************************************************************)
(* The policy gateway in front of the language-model providers: a request  *)
(* is redacted, classified and assigned a route tier; the admitted route   *)
(* profiles of that tier and its permitted fallbacks are tried in order    *)
(* through an adapter that repeats busy requests until its budget or its   *)
(* deadline is spent; every attempt is recorded under an idempotency key   *)
(* that a retry of the same request uses again.                            *)
(***************************************************************************)
EXTENDS Naturals, Sequences

CONSTANTS
    MaxAttempts,    \* generation_budget.maximum_attempts, at most 3
    Rounds          \* how often the caller submits the same request

ASSUME GatewayAssumption == MaxAttempts \in 1..3 /\ Rounds \in Nat

VARIABLES
    admitted,   \* the route profiles and their terms, as the constructors admitted them
    request,    \* the request being completed
    decision,   \* tier and class decided for it, NoDecision before
    queue,      \* candidate profiles not tried yet
    posts,      \* requests the current adapter has sent for the profile at the head
    tried,      \* <<profile, how its turn ended>> of this completion
    attempts,   \* recorder.attempts: profiles with a record in this completion
    calls,      \* keys of gateway_call_recorded rows in the model ledger
    round,
    answer,     \* the answer handed out, NoAnswer before
    outcome     \* "none" while a completion runs, else what complete returned or raised

gatewayVars == <<admitted, request, decision, queue, posts, tried, attempts, calls, round, answer, outcome>>

NoRequest == [task |-> "none"]
NoDecision == [tier |-> "none"]
NoAnswer == [endpoint |-> "none"]

Tiers == {"public", "worker", "reviewer"}
Profiles == Tiers                              \* one profile per tier, named after it
Rank == [unclassified |-> 0, public |-> 1, internal |-> 2, confidential |-> 3, secret |-> 4]
Stronger(a, b) == IF Rank[a] >= Rank[b] THEN a ELSE b

\* What the constructors accept: a private policy is pinned to ZDR without silent
\* fallback, a public one has no price and denies collection.
PolicyValid(p) ==
    /\ p.tier = "public" => ~ p.collects /\ p.price = 0 /\ (p.dynamic => p.fallbacks)
    /\ p.tier # "public" => p.zdr /\ ~ p.collects /\ ~ p.fallbacks /\ ~ p.dynamic

\* An endpoint admission names the policy's selector, model, ZDR and data policy, and
\* its capabilities are consistent.
EndpointValid(p) == p.pinned => (p.tools \/ ~ p.toolChoice) /\ (p.tier # "public" => p.zdr)

\* Terms never cover secret or execution data.
TermsValid(p) == p.allowed # {} /\ "secret" \notin p.allowed

\* The configuration keeps confidential data from contributors and wants a no-training
\* contract of the private tier.
ConfigValid(c) == "confidential" \notin c["public"].allowed /\ \A t \in Tiers \ {"public"} : c[t].zdr

\* A gateway over remote adapters is built from profiles whose tiers match their
\* policies; every fallback and the route order name known profiles.
Admissible(c) == ConfigValid(c) /\ \A t \in Profiles : PolicyValid(c[t]) /\ EndpointValid(c[t]) /\ TermsValid(c[t])

\* A profile of the shape the reviewed configurations use; fallbacks name all others.
Profile(t, classes, isPinned) ==
    [tier |-> t, allowed |-> classes, pinned |-> isPinned, zdr |-> t # "public", collects |-> FALSE,
     price |-> 0, dynamic |-> FALSE, fallbacks |-> FALSE, tools |-> t = "reviewer", toolChoice |-> t = "reviewer"]

Reviewed(publicClasses, isPinned) ==
    [t \in Profiles |-> IF t = "public" THEN Profile(t, publicClasses, FALSE)
                       ELSE Profile(t, {"public", "internal", "confidential"}, isPinned)]
Configurations ==
    {c \in {Reviewed(publicClasses, isPinned) :
              publicClasses \in {{"public"}, {"public", "internal"}, {"public", "confidential"}}, isPinned \in BOOLEAN} :
       Admissible(c)}

Requests == [declared : {"unclassified", "public", "internal", "confidential"},
             payload  : {"public", "confidential", "secret"},  \* what its keys and text give away
             text     : {"clean", "listed", "credential"},     \* credentials in the messages
             task     : {"neutral", "private", "blocked"},
             doubtful : BOOLEAN,                                \* conflicting evidence or low confidence
             tools    : BOOLEAN,                                \* approved read-only tools, required
             affordable : BOOLEAN]                              \* its worst cost is inside the budget

\* classify and classify_payload: a caller may only strengthen the class.
Classified(r) == IF r.declared = "unclassified" THEN r.declared ELSE Stronger(r.declared, r.payload)

\* redact_request removes the credentials the caller lists; credential-like text that
\* remains, or that nobody listed, blocks the request.
StillSecret(r) == r.text = "credential"

Impact(r) == [neutral |-> "none", private |-> "portfolio", blocked |-> "execution"][r.task]

\* decide: the tier of a request that may leave the process.
Decide(r) ==
    LET class == Classified(r)
        critical == Impact(r) = "portfolio" \/ r.doubtful
    IN  [class |-> class,
         tier  |-> IF class \in {"unclassified", "secret"} \/ Impact(r) = "execution" THEN "blocked"
                   ELSE IF critical THEN "reviewer"
                   ELSE IF class \in {"internal", "confidential"} THEN "worker" ELSE "public"]

FallbackTiersAll(tier) == Tiers

\* _profile_candidates: the first profile of the tier, then its fallbacks in tiers the
\* configuration lets it fall back to.
FallbackTiers(tier) == {tier} \cup (IF tier = "public" THEN {"worker"} ELSE IF tier = "worker" THEN {"reviewer"} ELSE {})
FallbackTo(t, tier) == IF t \in FallbackTiers(tier) \ {tier} THEN <<t>> ELSE <<>>
Candidates(tier) ==
    <<tier>> \o FallbackTo("worker", tier) \o FallbackTo("reviewer", tier) \o FallbackTo("public", tier)

\* Terms and tools are checked for every candidate again.
ToolsAllowed(r, t) == r.tools => t # "public"
Eligible(r, t) == decision.class \in admitted[t].allowed /\ ToolsAllowed(r, t)

\* The invocation mode must be admitted for the endpoint; outside the try, so a
\* mismatch leaves complete as an error.
Misaligned(r, t) == admitted[t].pinned /\ r.tools /\ ~ (admitted[t].tools /\ admitted[t].toolChoice)

\* A submission: blocked before anything is sent, or queued for its candidates.
Complete(r) ==
    LET d == Decide(r) IN
    /\ outcome # "none" /\ round < Rounds /\ (round > 0 => r = request)
    /\ request' = r /\ round' = round + 1 /\ decision' = d /\ posts' = 0 /\ tried' = {} /\ attempts' = {}
    /\ IF StillSecret(r) \/ d.tier = "blocked"
       THEN outcome' = "blocked" /\ queue' = <<>>
       ELSE outcome' = "none" /\ queue' = Candidates(d.tier)
    /\ answer' = NoAnswer /\ UNCHANGED <<admitted, calls>>

Running == outcome = "none" /\ queue # <<>>
Current == Head(queue)
Turn(ending) == tried' = tried \cup {<<Current, ending>>}

\* A candidate that is not eligible is passed over without a call.
PassOver ==
    /\ Running /\ posts = 0 /\ ~ Eligible(request, Current)
    /\ queue' = Tail(queue)
    /\ UNCHANGED <<admitted, request, decision, posts, tried, attempts, calls, round, outcome, answer>>

Misalign ==
    /\ Running /\ posts = 0 /\ Eligible(request, Current) /\ Misaligned(request, Current)
    /\ outcome' = "raised"
    /\ UNCHANGED <<admitted, request, decision, queue, posts, tried, attempts, calls, round, answer>>

Dispatchable == Running /\ Eligible(request, Current) /\ ~ (posts = 0 /\ Misaligned(request, Current))

\* record_call: one row per key; a key that exists conflicts unless the content, with
\* its latency, happens to be the same.
Keys(succeeded) == {<<Current, n, succeeded /\ n = posts + 1>> : n \in 1..(posts + 1)}
OneKey == {<<Current, 1, FALSE>>}
Conflict(keys, clash) == clash /\ keys \cap calls # {}

\* Every error of the adapter forbids another provider, and so does a pinned private
\* endpoint.
StopsHere(transport) == transport \/ (admitted[Current].pinned /\ Current # "public")

\* The except branch: the failure is recorded, then the next candidate or abstention.  A
\* conflict of the record leaves complete as an error.
Failed(transport, keys, clash) ==
    LET last == StopsHere(transport) \/ Tail(queue) = <<>> IN
    /\ Turn(IF transport THEN "transport" ELSE "rejected")
    /\ attempts' = attempts \cup {Current} /\ posts' = 0
    /\ IF Conflict(keys, clash)
       THEN outcome' = "raised" /\ UNCHANGED <<calls, queue>>
       ELSE /\ calls' = calls \cup keys
            /\ outcome' = IF last THEN "abstained" ELSE "none"
            /\ queue' = IF last THEN <<>> ELSE Tail(queue)
    /\ UNCHANGED <<admitted, request, decision, round, answer>>

\* _build_payload: no override of the routing, and a required tool needs an admission
\* that offers it.
Builds(r, t) == ~ admitted[t].fallbacks /\ (r.tools => admitted[t].pinned)

\* Nothing is sent when the payload is refused or when the most it may cost, at the
\* admitted prices, exceeds the budget.
NotSent(clash) ==
    /\ Dispatchable /\ posts = 0 /\ ~ (Builds(request, Current) /\ request.affordable)
    /\ Failed(TRUE, OneKey, clash)

Sendable == Dispatchable /\ Builds(request, Current) /\ request.affordable

\* The adapter's retry: only a busy answer (429, 503) is repeated, while attempts and
\* time are left.
Repeat429 ==
    /\ Sendable /\ posts + 1 < MaxAttempts
    /\ posts' = posts + 1
    /\ UNCHANGED <<admitted, request, decision, queue, tried, attempts, calls, round, outcome, answer>>

\* An HTTP error, a timeout or the total deadline.
Lost(clash) == Sendable /\ Failed(TRUE, Keys(FALSE), clash)

\* _parse_routing_identity and _parse_success: an identified endpoint, a reviewed tool
\* call where one was required, typed output otherwise, and tokens and cost inside the
\* budget; a private route must state its bill.
Parses(r, t, a) ==
    /\ a.endpoint # "silent"
    /\ a.body \in (IF r.tools THEN {"tool"} ELSE {"typed", "authority"})
    /\ a.cost # "overbudget" /\ (admitted[t].zdr => a.cost # "omitted")

\* The typed adapter and validate_response: the reviewed endpoint at no more than the
\* reviewed price, with its bill.
RouteAccepts(a) == a.endpoint = "reviewed" /\ a.cost \notin {"overcap", "omitted"}

\* _validate_response: nothing that claims authority, no tool call from the public tier.
OutputAccepts(t, a) == a.body # "authority" /\ (t = "public" => a.body # "tool")

Answers == [endpoint : {"reviewed", "other", "silent"}, cost : {"within", "omitted", "overcap", "overbudget"},
            body : {"typed", "tool", "foreign tool", "authority", "prose"}]

\* An answer that cannot be parsed is an error of the adapter; one the policies refuse,
\* or whose row conflicts, is a rejection that may fall over; else it is recorded, the
\* repeated posts before it, and returned.
Responds(a, clash) ==
    /\ Sendable
    /\ IF ~ Parses(request, Current, a) THEN Failed(TRUE, Keys(FALSE), clash)
       ELSE IF ~ (RouteAccepts(a) /\ OutputAccepts(Current, a)) THEN Failed(FALSE, OneKey, clash)
       ELSE IF Conflict(Keys(TRUE), clash) THEN \E again \in BOOLEAN : Failed(FALSE, OneKey, again)
       ELSE /\ Turn("answered") /\ attempts' = attempts \cup {Current} /\ calls' = calls \cup Keys(TRUE)
            /\ outcome' = "answered" /\ posts' = 0 /\ queue' = <<Current>> /\ answer' = a
            /\ UNCHANGED <<admitted, request, decision, round>>

\* Nobody was eligible.
AbstainWithoutRoute ==
    /\ outcome = "none" /\ queue = <<>> /\ outcome' = "abstained"
    /\ UNCHANGED <<admitted, request, decision, queue, posts, tried, attempts, calls, round, answer>>

GatewayInit ==
    /\ admitted \in Configurations /\ request = NoRequest /\ decision = NoDecision /\ queue = <<>> /\ posts = 0
    /\ tried = {} /\ attempts = {} /\ calls = {} /\ round = 0 /\ outcome = "idle" /\ answer = NoAnswer

GatewayNext ==
    \/ \E r \in Requests : Complete(r)
    \/ PassOver \/ Misalign \/ Repeat429 \/ AbstainWithoutRoute
    \/ \E clash \in BOOLEAN : NotSent(clash) \/ Lost(clash) \/ \E a \in Answers : Responds(a, clash)

GatewaySpec == GatewayInit /\ [][GatewayNext]_gatewayVars

-----------------------------------------------------------------------------
\* What a tier may be told: nothing that is secret or unclassified leaves, confidential
\* and sanitized data and doubtful or portfolio questions never reach the public tier,
\* and the latter only the reviewer, through every fallback and every retry.
SensitiveStaysPrivate ==
    \A turn \in tried :
        /\ ~ StillSecret(request) /\ Classified(request) \notin {"unclassified", "secret"}
        /\ turn[1] = "public" => Classified(request) = "public" /\ ~ request.tools
        /\ request.doubtful \/ request.task = "private" => turn[1] = "reviewer"

\* Once a prompt was lost in transit or refused by a pinned private endpoint, no other
\* provider receives it in the same completion.
NoSecondProviderAfterFailure ==
    \A turn \in tried :
        (turn[2] = "transport" \/ (admitted[turn[1]].pinned /\ turn[1] # "public")) =>
            /\ \A other \in tried : other[1] # turn[1] => other[2] = "rejected" /\ ~ admitted[other[1]].pinned
            /\ outcome # "none"

\* An answer is handed out only with its row in the ledger, and every provider that was
\* called has a record, whatever conflicted; it comes from the reviewed endpoint, with
\* its bill, as typed output or the tool call that was asked for.
AnswersAreRecorded ==
    /\ outcome = "answered" => answer.endpoint = "reviewed" /\ answer.cost = "within"
                               /\ answer.body = (IF request.tools THEN "tool" ELSE "typed")
    /\ outcome = "answered" => \E n \in 1..MaxAttempts : <<Current, n, TRUE>> \in calls
    /\ \A turn \in tried : turn[1] \in attempts

\* Who was asked and who answered: one provider after a failure, and a record for
\* everything that was sent and returned.
CallsAreAccountedFor == NoSecondProviderAfterFailure /\ AnswersAreRecorded

\* Where a prompt may go, where it went, and what was written down about it.
PromptsAreAccountedFor == SensitiveStaysPrivate /\ CallsAreAccountedFor
=============================================================================
