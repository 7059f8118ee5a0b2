------------------------------- MODULE Archive -------------------------------
(***************************************************************************)
(* One immutable artifact on its way through the lake, the archive with    *)
(* two encrypted providers and the rebuild.  The lake has no lock: writers *)
(* of the same content meet at one path, where the Parquet file appears by *)
(* a hard link and its manifest by an exclusive create that is then        *)
(* written.  The archive is a fixed script of provider commands, each of   *)
(* which a fault may turn into a failure the script writes down.           *)
(***************************************************************************)
EXTENDS Naturals, Sequences, FiniteSets

CONSTANTS
    LakeWriters,     \* processes that write the same rows
    SchemaVersions,  \* schema_version of a write; not part of the path
    Providers,       \* the two rclone remotes, naturals in roster order
    MaxArchiveRuns,  \* bound on runs of the script
    MaxStorageFaults \* bound on crashes, failed commands and lost objects

ASSUME ArchiveAssumption ==
    /\ IsFiniteSet(Providers) /\ Cardinality(Providers) = 2 /\ Providers \subseteq Nat
    /\ MaxArchiveRuns \in Nat /\ MaxStorageFaults \in Nat

VARIABLES
    linked,       \* the Parquet file is at its path
    manifest,     \* [st, schema, by] of the manifest file
    writers,      \* per writer: [pc, schema]
    store,        \* per provider: has it the payload under the key
    lossAt,       \* per provider: the line of the script at which it lost it, or 0
    script,       \* [line, failed, ledgered, runs]
    archiveVerdict, \* what the last run of the script concluded
    row,          \* archive_verification_recorded in the ledger
    rebuilt,      \* what RecoveryService.rebuild did
    storageFaults

lakeVars    == <<linked, manifest, writers>>
scriptVars  == <<store, lossAt, script, archiveVerdict, row>>
archiveVars == <<lakeVars, scriptVars, rebuilt, storageFaults>>

Fault == storageFaults < MaxStorageFaults /\ storageFaults' = storageFaults + 1
MayFault(bad) == IF bad THEN Fault ELSE UNCHANGED storageFaults

-----------------------------------------------------------------------------
(* DataLake._write_rows *)

\* DatasetManifest as it is on disk.
NoManifest == [st |-> "none", schema |-> 0, by |-> 0]
LakeReadable(schema) == linked /\ manifest.st = "whole" /\ manifest.schema = schema

LakeAt(w, label) == writers' = [writers EXCEPT ![w].pc = label]

\* An artifact or a manifest at the path is verified, never completed.
LakeLook(w, schema) ==
    /\ writers[w].pc = "idle"
    /\ writers' = [writers EXCEPT ![w] =
         [schema |-> schema,
          pc |-> IF ~ linked /\ manifest.st = "none" THEN "linking"
                 ELSE IF LakeReadable(schema) THEN "returned" ELSE "refused"]]
    /\ UNCHANGED <<linked, manifest, scriptVars, rebuilt, storageFaults>>

\* write_observations; write_bronze is the case of one schema for all writers.
WriteObservations(w) == \E schema \in SchemaVersions : LakeLook(w, schema)

\* _write_parquet_exclusive: the file appears whole, or is there already.
LakeLink(w) ==
    /\ writers[w].pc = "linking" /\ linked' = TRUE /\ LakeAt(w, "describing")
    /\ UNCHANGED <<manifest, scriptVars, rebuilt, storageFaults>>

\* _write_bytes_exclusive opens the manifest; one that exists is taken as it is.
LakeDescribe(w) ==
    /\ writers[w].pc = "describing"
    /\ IF manifest.st = "none"
       THEN /\ manifest' = [st |-> "torn", schema |-> writers[w].schema, by |-> w]
            /\ LakeAt(w, "writing")
       ELSE LakeAt(w, "returned") /\ UNCHANGED manifest
    /\ UNCHANGED <<linked, scriptVars, rebuilt, storageFaults>>

LakeDescribed(w) ==
    /\ writers[w].pc = "writing" /\ LakeAt(w, "returned")
    /\ manifest' = [manifest EXCEPT !.st = "whole"]
    /\ UNCHANGED <<linked, scriptVars, rebuilt, storageFaults>>

\* A writer dies, or comes back after a refusal or a death.
LakeDies(w) ==
    /\ writers[w].pc \in {"linking", "describing", "writing"} /\ Fault /\ LakeAt(w, "dead")
    /\ UNCHANGED <<linked, manifest, scriptVars, rebuilt>>

LakeRetries(w) ==
    /\ writers[w].pc \in {"dead", "refused"} /\ Fault /\ LakeAt(w, "idle")
    /\ UNCHANGED <<linked, manifest, scriptVars, rebuilt>>

-----------------------------------------------------------------------------
(* ArchiveAutomation.archive and the qualification around it *)

A == CHOOSE p \in Providers : \A q \in Providers : p <= q
B == CHOOSE p \in Providers : p # A

Command(op, p) == [op |-> op, p |-> p]

Automation == <<Command("put", A), Command("verify", A), Command("put", B), Command("verify", B),
                Command("restore", A), Command("restore", B)>>

\* _run_failure_drills: each provider alone, a missing key, an interrupted copy that is
\* repeated under another key, a wrong checksum, a corrupted restore.
Drills == <<Command("list", A), Command("list", B), Command("restore", B), Command("restore", A),
            Command("missing", A), Command("retry", B), Command("checksum", A),
            Command("restore", A)>>

Script == IF script.ledgered THEN Automation \o <<Command("record", A)>> ELSE Automation \o Drills
Line   == Script[script.line]
Running == script.line \in DOMAIN Script

\* The result of a line: a failed upload has no verification, everything else goes on.
Proceed(good, skipped) ==
    script' = [script EXCEPT !.line = @ + (IF skipped THEN 2 ELSE 1), !.failed = @ \/ ~ good]

\* RcloneCryptBackend.put: a command that fails may have stored the object.
Upload(bad, stored) ==
    /\ Running /\ Line.op = "put" /\ MayFault(bad) /\ (~ bad => stored)
    /\ store' = [store EXCEPT ![Line.p] = @ \/ stored]
    /\ lossAt' = [lossAt EXCEPT ![Line.p] = IF stored THEN 0 ELSE @]
    /\ Proceed(~ bad, bad)
    /\ UNCHANGED <<lakeVars, archiveVerdict, row, rebuilt>>

\* A restore that is not looked at.
RestoreTrusted(bad) ==
    /\ Running /\ Line.op \in {"verify", "restore"} /\ MayFault(bad)
    /\ Proceed(~ bad \/ Line.op = "restore", FALSE)
    /\ UNCHANGED <<lakeVars, store, lossAt, archiveVerdict, row, rebuilt>>

\* get and verify: the hash of what comes back decides.
Restore(bad) ==
    /\ Running /\ Line.op \in {"verify", "restore"} /\ MayFault(bad)
    /\ Proceed(store[Line.p] /\ ~ bad, FALSE)
    /\ UNCHANGED <<lakeVars, store, lossAt, archiveVerdict, row, rebuilt>>

\* _raw_result: the raw layer must show a new object.
List(bad) ==
    /\ Running /\ Line.op = "list" /\ MayFault(bad) /\ Proceed(store[Line.p] /\ ~ bad, FALSE)
    /\ UNCHANGED <<lakeVars, store, lossAt, archiveVerdict, row, rebuilt>>

\* The drills on other keys or with a wrong digest: the repeated copy must succeed, the
\* other two pass when the command fails, for whatever reason.
Drill(bad) ==
    /\ Running /\ Line.op \in {"missing", "retry", "checksum"} /\ MayFault(bad)
    /\ Proceed(Line.op = "retry" => ~ bad, FALSE)
    /\ UNCHANGED <<lakeVars, store, lossAt, archiveVerdict, row, rebuilt>>

Conclusion == IF script.failed THEN "failed" ELSE "passed"

\* The key of the row names archive key and content: a repeated run that concludes
\* otherwise conflicts with the row of the first.
RecordVerification ==
    /\ Running /\ Line.op = "record"
    /\ row' = IF row = "none" THEN Conclusion ELSE row
    /\ archiveVerdict' = IF row \in {"none", Conclusion} THEN Conclusion ELSE "raised"
    /\ Proceed(TRUE, FALSE)
    /\ UNCHANGED <<lakeVars, store, lossAt, rebuilt, storageFaults>>

Qualified ==
    /\ ~ Running /\ ~ script.ledgered /\ archiveVerdict = "none" /\ archiveVerdict' = Conclusion
    /\ UNCHANGED <<lakeVars, store, lossAt, script, row, rebuilt, storageFaults>>

\* An operator runs the archive again for the same key and payload.
ArchiveAgain ==
    /\ ~ Running /\ script.ledgered /\ script.runs < MaxArchiveRuns /\ rebuilt = "none"
    /\ script' = [script EXCEPT !.line = 1, !.failed = FALSE, !.runs = @ + 1]
    /\ archiveVerdict' = "none"
    /\ UNCHANGED <<lakeVars, store, lossAt, row, rebuilt, storageFaults>>

ProviderLoses(p) ==
    /\ store[p] /\ Running /\ Fault
    /\ store' = [store EXCEPT ![p] = FALSE] /\ lossAt' = [lossAt EXCEPT ![p] = script.line]
    /\ UNCHANGED <<lakeVars, script, archiveVerdict, row, rebuilt>>

-----------------------------------------------------------------------------
\* RecoveryService.rebuild on the manifest a writer was given: verified and read back, or
\* an error; the operator says whether the archive restore was verified.
Rebuild(w) ==
    /\ rebuilt = "none" /\ ~ Running /\ writers[w].pc = "returned"
    /\ rebuilt' = IF ~ LakeReadable(writers[w].schema) THEN "raised"
                  ELSE IF archiveVerdict = "passed" THEN "passed" ELSE "failed"
    /\ UNCHANGED <<lakeVars, scriptVars, storageFaults>>

ArchiveInit ==
    /\ linked = FALSE /\ manifest = NoManifest
    /\ writers = [w \in LakeWriters |-> [pc |-> "idle", schema |-> 0]]
    /\ store = [p \in Providers |-> FALSE] /\ lossAt = [p \in Providers |-> 0]
    /\ script \in [line : {1}, failed : {FALSE}, ledgered : BOOLEAN, runs : {1}]
    /\ archiveVerdict = "none" /\ row = "none" /\ rebuilt = "none" /\ storageFaults = 0

ArchiveNext ==
    \/ (\E w \in LakeWriters :
        \/ WriteObservations(w) \/ LakeLink(w) \/ LakeDescribe(w) \/ LakeDescribed(w)
        \/ LakeDies(w) \/ LakeRetries(w) \/ Rebuild(w))
    \/ (\E bad \in BOOLEAN : (\E stored \in BOOLEAN : Upload(bad, stored))
                             \/ Restore(bad) \/ List(bad) \/ Drill(bad))
    \/ RecordVerification \/ Qualified \/ ArchiveAgain
    \/ (\E p \in Providers : ProviderLoses(p))

ArchiveSpec == ArchiveInit /\ [][ArchiveNext]_archiveVars

-----------------------------------------------------------------------------
\* The last line of the script that reads the payload of a provider.
LastRead(p) == CHOOSE i \in DOMAIN Script :
    /\ Script[i].op = "restore" /\ Script[i].p = p
    /\ \A j \in DOMAIN Script : Script[j].op = "restore" /\ Script[j].p = p => j <= i

\* A manifest that was returned reads back whenever its writer wrote it itself, however
\* writers of the same path overlap and die; whatever the manifest says once it is whole
\* it says for ever; a passed archive means that each provider still had the payload when
\* it was read last, and a rebuild passes only on both.
ArtifactsSurvive ==
    /\ []( /\ \A w \in LakeWriters : writers[w].pc = "returned" =>
                /\ linked /\ manifest.st # "none"
                /\ manifest.by = w => LakeReadable(writers[w].schema)
           /\ archiveVerdict = "passed" => \A p \in Providers : store[p] \/ lossAt[p] > LastRead(p)
           /\ rebuilt = "passed" => manifest.st = "whole" /\ archiveVerdict = "passed" )
    /\ [][manifest.st = "whole" => UNCHANGED <<linked, manifest>>]_archiveVars
=============================================================================
