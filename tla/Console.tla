------------------------------ MODULE Console ------------------------------
(***************************************************************************)
(* The operator console: api/security.py (limiter, sessions, step-up       *)
(* tokens), the handlers of api/dashboard.py with the configuration        *)
(* commands, and config/bundles.py.  One event loop runs the handlers;     *)
(* their dependencies run in a thread of the pool before them, so a        *)
(* request may meet another session state than the one that admitted it.   *)
(* A handler is atomic but may raise or die with the process at any of its *)
(* writes.  Halt and resume are in PaperControl.                           *)
(***************************************************************************)
EXTENDS Integers, Sequences, FiniteSets, SequencesExt

CONSTANTS SessionIds, CommandKeys, Settings,
          SessionTtl, StepUpTtl,                      \* of AuthConfiguration, in ticks
          LoginAttempts, LoginWindow, LoginBlock,     \* of LoginRateLimiter
          MaxConsoleClock, MaxTokens, MaxCuts   \* bounds

ASSUME ConsoleAssumption == LoginAttempts \in Nat \ {0} /\ {SessionTtl, StepUpTtl, LoginWindow, LoginBlock} \subseteq Nat

VARIABLES consoleClock, sessions,   \* per session id: its record, Unused, Ended or Forgotten
          tokens,            \* the step-up tokens issued, with the session and the end of each
          loginFailures, blockedUntil,                     \* the limiter of the one client
          receipts,          \* _receipts of the process
          receiptRows,       \* the receipts in the INCIDENT ledger
          bundles,           \* per content: "absent", "torn" or "whole"
          activationLog, activePointer,
          spent,             \* history: the tokens commands were executed under
          cuts               \* history: the keys whose execution raised or died

consoleVars == <<consoleClock, sessions, tokens, loginFailures, blockedUntil, receipts, receiptRows,
                 bundles, activationLog, activePointer, spent, cuts>>
access == <<sessions, tokens, loginFailures, blockedUntil>>
store  == <<bundles, activationLog, activePointer>>

NoReceipt == [status |-> "none", kind |-> "none", content |-> {}]
Unused    == [state |-> "unused", expires |-> 0, token |-> 0]
Ended     == [Unused EXCEPT !.state = "ended"]      \* signed out or expired
Forgotten      == [Unused EXCEPT !.state = "gone"]       \* lost with the process
NoPointer == {0}

ConsoleInit ==
    /\ consoleClock = 0 /\ sessions = [s \in SessionIds |-> Unused] /\ tokens = <<>>
    /\ loginFailures = <<>> /\ blockedUntil = 0
    /\ receipts = [k \in CommandKeys |-> NoReceipt] /\ receiptRows = receipts
    /\ bundles = [c \in SUBSET Settings |-> "absent"] /\ activationLog = <<>> /\ activePointer = NoPointer
    /\ spent = <<>> /\ cuts = {}

ConsoleTick == /\ consoleClock < MaxConsoleClock /\ consoleClock' = consoleClock + 1
               /\ UNCHANGED <<access, receipts, receiptRows, store, spent, cuts>>

(************************* LoginRateLimiter ********************************)
\* _prune: failures are in the order of the clock, so the old ones come first.
Recent == LET old == {i \in DOMAIN loginFailures : consoleClock - loginFailures[i] >= LoginWindow}
          IN  SubSeq(loginFailures, Cardinality(old) + 1, Len(loginFailures))
Allowed == consoleClock >= blockedUntil /\ Len(Recent) < LoginAttempts
RecordFailure ==
    /\ loginFailures' = Append(Recent, consoleClock)
    /\ blockedUntil' = IF Len(loginFailures') >= LoginAttempts THEN consoleClock + LoginBlock ELSE blockedUntil
ResetLimiter == loginFailures' = <<>> /\ blockedUntil' = 0

(*************************** SessionStore **********************************)
\* The idle time is the session's whole time, as it is by default: last_seen_at decides nothing.
Live(s) == sessions[s].state = "open" /\ consoleClock < sessions[s].expires
\* get drops an expired session.
Get(s) == IF sessions[s].state = "open" /\ ~Live(s) THEN Ended ELSE sessions[s]
\* The request brings the session's token, and in time; any other is refused.
TokenFits(s) == Live(s) /\ sessions[s].token # 0 /\ consoleClock < tokens[sessions[s].token].expires
\* Mutant: the token stays in the session until its time is over.
ConsumeKeeps(s) == sessions[s]
Consume(s) == [sessions[s] EXCEPT !.token = 0]

(***************************** handlers ************************************)
\* login: a wrong password or code is a failure of the client, and so the limiter's.
Login(s, right) ==
    /\ sessions[s] = Unused /\ \A earlier \in SessionIds : earlier < s => sessions[earlier] # Unused
    /\ Allowed
    /\ IF right THEN /\ ResetLimiter
                     /\ sessions' = [sessions EXCEPT ![s] = [state |-> "open", expires |-> consoleClock + SessionTtl, token |-> 0]]
       ELSE RecordFailure /\ UNCHANGED sessions
    /\ UNCHANGED <<consoleClock, tokens, receipts, receiptRows, store, spent, cuts>>

\* require_csrf runs in its own thread: the session of a request it let pass may have
\* ended before the handler runs.
Admitted(s) == sessions[s].state \in {"open", "ended"}

StepUp(s, right) ==
    /\ Admitted(s)
    /\ IF ~Allowed THEN UNCHANGED access
       ELSE IF ~right THEN RecordFailure /\ UNCHANGED <<sessions, tokens>>
       ELSE /\ ResetLimiter
            /\ Live(s) => Len(tokens) < MaxTokens
            /\ tokens' = IF Live(s) THEN Append(tokens, [session |-> s, expires |-> consoleClock + StepUpTtl]) ELSE tokens
            /\ sessions' = [sessions EXCEPT ![s] = IF Live(s) THEN [Get(s) EXCEPT !.token = Len(tokens) + 1] ELSE Get(s)]
    /\ UNCHANGED <<consoleClock, receipts, receiptRows, store, spent, cuts>>

Logout(s) ==
    /\ sessions[s].state = "open" /\ sessions' = [sessions EXCEPT ![s] = Ended]
    /\ UNCHANGED <<consoleClock, tokens, loginFailures, blockedUntil, receipts, receiptRows, store, spent, cuts>>

(*********************** configuration bundles *****************************)
Active == IF activePointer = NoPointer THEN {} ELSE activePointer
\* create opens the file exclusively and then writes it; a file that is there stays.
Create(c, end) ==
    bundles' = IF bundles[c] # "absent" THEN bundles ELSE [bundles EXCEPT ![c] = IF end = "opened" THEN "torn" ELSE "whole"]
\* get reads the file and compares its hash.
Readable(c) == bundles[c] = "whole"
\* activate: the log row, then the pointer by way of a temporary file.
Activate(k, c, end) ==
    /\ activationLog' = Append(activationLog, [key |-> k, content |-> c])
    /\ activePointer' = IF end = "logged" THEN activePointer ELSE c

\* A proposal is the active content with the patch; a rollback names any content.
Named(kind) == CASE kind = "propose"  -> {Active \cup {p} : p \in Settings}
                 [] kind = "rollback" -> SUBSET Settings
                 [] OTHER             -> {{}}

(* Where an execution may end: at a failed write of a new bundle ("opened") without
   an answer, at a failed write of the pointer ("logged") with a rejection, at the
   ledger's append ("remembered"), or at its end ("recorded"). *)
Possible(kind, c, end) == /\ end = "opened" => kind = "propose" /\ bundles[c] = "absent"
                          /\ end = "logged" => kind = "rollback" /\ Readable(c)
Execute(k, kind, c, end) ==
    LET refused  == kind = "rollback" /\ (~Readable(c) \/ end = "logged")
        receipt  == [status |-> IF refused THEN "rejected" ELSE "accepted", kind |-> kind, content |-> c]
        remember == end \in {"logged", "remembered", "recorded"}
    IN  /\ CASE kind = "propose"  -> Create(c, end) /\ UNCHANGED <<activationLog, activePointer>>
             [] kind = "rollback" /\ Readable(c) -> Activate(k, c, end) /\ UNCHANGED bundles
             [] OTHER -> UNCHANGED store
        /\ Possible(kind, c, end)
        /\ receipts' = IF remember THEN [receipts EXCEPT ![k] = receipt] ELSE receipts
        /\ receiptRows' = IF end \in {"recorded", "logged"} THEN [receiptRows EXCEPT ![k] = receipt] ELSE receiptRows
        /\ end # "recorded" => Cardinality(cuts) < MaxCuts
        /\ cuts' = IF end = "recorded" THEN cuts ELSE cuts \cup {k}

\* The process: sessions, limiter and what it remembered are gone, receipts are read back.
Forget == /\ sessions' = [s \in SessionIds |-> IF sessions[s] = Unused THEN Unused ELSE Forgotten]
          /\ loginFailures' = <<>> /\ blockedUntil' = 0

\* command: a known key is answered from memory and changes nothing; a sensitive command
\* whose token does not fit is refused, and any other is executed.
Forbidden(s) == /\ Admitted(s) /\ sessions' = [sessions EXCEPT ![s] = Get(s)]
                /\ UNCHANGED <<consoleClock, tokens, loginFailures, blockedUntil, receipts, receiptRows, store, spent, cuts>>
Sensitive(kind) == kind # "refresh"
Pay(s, kind) ==
    IF Sensitive(kind)
    THEN /\ TokenFits(s) /\ sessions' = [sessions EXCEPT ![s] = Consume(s)]
         /\ spent' = Append(spent, [token |-> sessions[s].token, session |-> s, at |-> consoleClock])
    ELSE UNCHANGED <<sessions, spent>>
Command(s, k, kind) ==
    /\ Admitted(s) /\ receipts[k] = NoReceipt /\ Pay(s, kind)
    /\ \E c \in Named(kind), end \in {"opened", "logged", "remembered", "recorded"} : Execute(k, kind, c, end)
    /\ UNCHANGED <<consoleClock, tokens, loginFailures, blockedUntil>>

\* The process dies at one of the writes of a command.
Dies(s, k, kind) ==
    /\ Admitted(s) /\ receipts[k] = NoReceipt
    /\ TokenFits(s)
    /\ Cardinality(cuts) < MaxCuts /\ cuts' = cuts \cup {k}
    /\ \E c \in Named(kind), end \in {"opened", "logged", "stored"} :
          /\ Possible(kind, c, end)
          /\ IF kind = "propose" THEN Create(c, end) /\ UNCHANGED <<activationLog, activePointer>>
             ELSE Readable(c) /\ Activate(k, c, end) /\ UNCHANGED bundles
    /\ Forget /\ receipts' = receiptRows
    /\ spent' = Append(spent, [token |-> sessions[s].token, session |-> s, at |-> consoleClock])
    /\ UNCHANGED <<consoleClock, tokens, receiptRows>>

ConsoleRestart == /\ \E s \in SessionIds : sessions[s].state = "open"
                  /\ Forget /\ receipts' = receiptRows
                  /\ UNCHANGED <<consoleClock, tokens, receiptRows, store, spent, cuts>>

ConsoleNext ==
    \/ ConsoleTick \/ ConsoleRestart
    \/ \E s \in SessionIds :
          \/ Logout(s) \/ Forbidden(s)
          \/ \E right \in BOOLEAN : Login(s, right) \/ StepUp(s, right)
          \/ \E k \in CommandKeys : \/ \E kind \in {"propose", "rollback", "refresh"} : Command(s, k, kind)
                                  \/ \E kind \in {"propose", "rollback"} : Dies(s, k, kind)

ConsoleSpec == ConsoleInit /\ [][ConsoleNext]_consoleVars

-----------------------------------------------------------------------------
(* What the operator is told is so, whatever raises, dies or is repeated.  Every
   sensitive command was executed under a token of that session, in time, and under
   one nobody used before.  The active configuration is readable and logged, and it is
   the last one logged unless that activation was cut short.  A receipt on file is the
   one that is answered, and a receipt that is only remembered, or a second activation
   under one key, is due to a cut; what was accepted is on disk.  The limiter never
   lets a client fail more often than its attempts within the window. *)
ReceiptsTellTheTruth ==
    /\ \A i \in DOMAIN spent : LET t == tokens[spent[i].token] IN
          /\ t.session = spent[i].session /\ spent[i].at < t.expires
          /\ \A j \in DOMAIN spent : spent[j].token = spent[i].token => j = i
    /\ activePointer # NoPointer => bundles[activePointer] = "whole" /\ \E i \in DOMAIN activationLog : activationLog[i].content = activePointer
    /\ activationLog # <<>> => activePointer = Last(activationLog).content \/ Last(activationLog).key \in cuts
    /\ \A i, j \in DOMAIN activationLog : i # j /\ activationLog[i].key = activationLog[j].key => activationLog[i].key \in cuts
    /\ \A k \in CommandKeys :
          /\ receipts[k] # receiptRows[k] => receiptRows[k] = NoReceipt /\ k \in cuts
          /\ receipts[k].status = "accepted" /\ receipts[k].kind = "propose" => bundles[receipts[k].content] # "absent"
          /\ receipts[k].status = "accepted" /\ receipts[k].kind = "rollback" =>
                \E i \in DOMAIN activationLog : activationLog[i] = [key |-> k, content |-> receipts[k].content]
    /\ Len(Recent) <= LoginAttempts
=============================================================================
