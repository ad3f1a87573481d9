---------------------------- MODULE CatalogueSync ----------------------------
(***************************************************************************)
(* A catalogue that follows a Google sheet.  GoogleCatalogueSyncProcessor  *)
(* of apps/worker claims the source, reads the sheet, finds the run of what*)
(* it read under the latest mapping and imports it; a sheet whose structure*)
(* no mapping fits gets a run for review instead.  Once that is mapped, the*)
(* owner (CatalogueImportService.confirm) or CatalogueAutoImporter imports *)
(* the stored snapshot.  All of them claim the source with one lease, whose*)
(* version fences the transaction that writes the products.                *)
(*                                                                         *)
(* The lease's id is the version that its claim gave the source; neither is*)
(* ever used twice.  A snapshot is stored under its content, so a run's    *)
(* content is its snapshot.  A job may be tried at any time: the schedule, *)
(* and the status of the source that it depends on, are left out.          *)
(***************************************************************************)
EXTENDS Integers, FiniteSets

CONSTANTS
    Processes,    \* processes of apps/worker and requests to apps/api
    Contents,     \* what the sheet may hold: a revision is a hash of it
    Headers,      \* the fingerprint of the structure of each content
    MaxMappings,  \* bound: confirmed mappings
    MaxVersion,   \* bound: claims and changes of the source
    MaxEdits,     \* bound: edits and changes of the sheet
    MaxLost,      \* bound: crashes, and leases outlived
    MaxFreezes    \* bound: times the tenant's data deletion is requested

VARIABLES
    source,   \* catalogue_sources: version, lease, when its sheet was chosen
    sheet,    \* external: the sheet's content, and its edits so far
    mapping,  \* catalogue_mappings: the latest confirmed one
    runs,     \* catalogue_import_runs, by idempotency key
    worker,   \* what each process is doing
    frozen,   \* the tenant has an open request to delete its data
    freezes,
    lost,     \* crashes and expired leases so far
    written   \* ghost: claims that wrote products, and the last one's reading

vars == <<source, sheet, mapping, runs, worker, frozen, freezes, lost, written>>
outside == <<frozen, freezes, lost>>

-----------------------------------------------------------------------------
Versions == 0..MaxVersion
Edits == 0..MaxEdits

\* The key of a run is its content with a mapping's version, 0 for a review.
Key == Contents \X (0..MaxMappings)
Review(c) == <<c, 0>>

Status == {"NONE", "UPLOADED", "MAPPING", "MAPPING_REVIEW", "PREVIEW_READY",
           "PROCESSING", "COMPLETED", "FAILED", "CANCELLED"}
Remappable == {"UPLOADED", "MAPPING", "MAPPING_REVIEW", "PREVIEW_READY"}
\* "old": it began more than STALE_PROCESSING_MS ago.
Run == [status : Status, version : Versions, at : Edits, old : BOOLEAN]
NoRun == [status |-> "NONE", version |-> 0, at |-> 0, old |-> FALSE]
\* A run as the claim "version", which read the sheet after "at" edits, has it.
RunOf(status, version, at) == [status |-> status, version |-> version, at |-> at, old |-> FALSE]

Phase == {"idle", "claimed", "read", "review", "planned", "found", "importing", "written", "releasing"}
\* "automatic": CatalogueAutoImporter at work, whose failures ask for no version.
Work == [phase : Phase, version : Versions, key : Key \cup {<<>>}, found : Status, at : Edits, automatic : BOOLEAN]
Idle == [phase |-> "idle", version |-> 0, key |-> <<>>, found |-> "NONE", at |-> 0, automatic |-> FALSE]

Goes(w, phase) == worker' = [worker EXCEPT ![w].phase = phase]
Rests(w) == worker' = [worker EXCEPT ![w] = Idle]
RunIs(key, run) == runs' = [runs EXCEPT ![key] = run]

Holds(w) == source.lease = worker[w].version /\ source.version = worker[w].version
Owns(w) == Holds(w) /\ ~source.expired
Free == source.lease = 0 \/ source.expired
Claimed == [source EXCEPT !.version = @ + 1, !.lease = source.version + 1, !.expired = FALSE]
Released == [source EXCEPT !.lease = 0, !.expired = FALSE]

-----------------------------------------------------------------------------
(* GoogleCatalogueSyncProcessor                                             *)

Claim(w) ==
    /\ worker[w].phase = "idle"
    /\ ~frozen /\ Free /\ source.version < MaxVersion
    /\ source' = Claimed
    /\ worker' = [worker EXCEPT ![w] = [Idle EXCEPT !.phase = "claimed", !.version = source.version + 1]]
    /\ UNCHANGED <<sheet, mapping, runs, outside, written>>

\* A job of a frozen tenant pauses the source, whoever has claimed it.
PauseFrozen(w) ==
    /\ worker[w].phase = "idle"
    /\ frozen /\ source.lease # 0
    /\ source' = Released
    /\ UNCHANGED <<sheet, mapping, runs, worker, outside, written>>

Read(w, phase) ==
    /\ worker[w].phase = "claimed"
    /\ worker' = [worker EXCEPT ![w].phase = phase, ![w].key = Review(sheet.content), ![w].at = sheet.at]
    /\ UNCHANGED <<source, sheet, runs, outside, written>>

\* prepareHybridTable: the model is sure of the table, is not, or, being sure
\* of one that no mapping was made for, makes one: of this no lease is asked.
ReadTable(w) == Read(w, "read") /\ UNCHANGED mapping
ReadDoubtful(w) == Read(w, "review") /\ UNCHANGED mapping
ReadUnmapped(w) ==
    /\ Read(w, "read")
    /\ mapping.version < MaxMappings
    /\ mapping' = [version |-> mapping.version + 1, headers |-> Headers[sheet.content]]

\* The sheet, or the store of snapshots, fails, or the tenant is frozen.
Gives(w) ==
    /\ worker[w].phase \in {"claimed", "read"}
    /\ Goes(w, "releasing")
    /\ UNCHANGED <<source, sheet, mapping, runs, outside, written>>

\* The latest mapping, if it was made for sheets of this structure.
Plan(w) ==
    /\ worker[w].phase = "read"
    /\ LET c == worker[w].key[1] IN
       worker' = IF mapping.version > 0 /\ mapping.headers = Headers[c]
                 THEN [worker EXCEPT ![w].phase = "planned", ![w].key = <<c, mapping.version>>]
                 ELSE [worker EXCEPT ![w].phase = "review"]
    /\ UNCHANGED <<source, sheet, mapping, runs, outside, written>>

\* pauseForReview
PauseForReview(w) ==
    /\ worker[w].phase = "review"
    /\ LET key == worker[w].key IN
       IF runs[key].status \in {"NONE", "UPLOADED", "MAPPING_REVIEW"}
       THEN RunIs(key, RunOf("UPLOADED", worker[w].version, worker[w].at))
       ELSE UNCHANGED runs
    /\ Goes(w, "releasing")
    /\ UNCHANGED <<source, sheet, mapping, outside, written>>

\* What was imported, awaits its owner or is being imported is left alone; of
\* a preview it is noted that the sheet is still the same.
LeaveAlone(w) ==
    /\ worker[w].phase = "planned"
    /\ LET key == worker[w].key
           run == runs[key]
       IN
       /\ \/ run.status = "COMPLETED" /\ UNCHANGED runs
          \/ run.status = "PROCESSING" /\ ~run.old /\ UNCHANGED runs
          \/ /\ run.status \in {"MAPPING_REVIEW", "PREVIEW_READY"}
             /\ RunIs(key, RunOf(run.status, worker[w].version, worker[w].at))
    /\ Goes(w, "releasing")
    /\ UNCHANGED <<source, sheet, mapping, outside, written>>

\* A COMPLETED run is imported again if rows of it failed or the products that
\* it wrote are gone.
LookUp(w) ==
    /\ worker[w].phase = "planned"
    /\ LET run == runs[worker[w].key] IN
       /\ run.status \in {"NONE", "FAILED", "COMPLETED"} \/ (run.status = "PROCESSING" /\ run.old)
       /\ worker' = [worker EXCEPT ![w].phase = "found", ![w].found = run.status]
    /\ UNCHANGED <<source, sheet, mapping, runs, outside, written>>

\* The run is created, or taken over, unless somebody else did so meanwhile.
Begin(w) ==
    /\ worker[w].phase = "found"
    /\ LET key == worker[w].key IN
       IF runs[key].status = worker[w].found
       THEN /\ RunIs(key, RunOf("PROCESSING", worker[w].version, worker[w].at))
            /\ Goes(w, "importing")
       ELSE UNCHANGED runs /\ Goes(w, "releasing")
    /\ UNCHANGED <<source, sheet, mapping, outside, written>>

\* importCatalogueTable: the products are written if the lease holds still when
\* the transaction commits, and not otherwise.
Unfenced(w) == worker[w].phase = "importing"
Fenced(w) == Owns(w)

Import(w) ==
    /\ worker[w].phase = "importing"
    /\ Fenced(w)
    /\ written' = [claims |-> written.claims \cup {worker[w].version}, at |-> worker[w].at]
    /\ Goes(w, "written")
    /\ UNCHANGED <<source, sheet, mapping, runs, outside>>

Imports(w) ==
    LET run == runs[worker[w].key] IN run.status = "PROCESSING" /\ run.version = worker[w].version

Complete(w) ==
    /\ worker[w].phase = "written"
    /\ Owns(w) /\ Imports(w)
    /\ source' = Released
    /\ runs' = [runs EXCEPT ![worker[w].key].status = "COMPLETED"]
    /\ Rests(w)
    /\ UNCHANGED <<sheet, mapping, outside, written>>

\* The lease is lost, or the import fails.  The automatic importer fails the run
\* of whoever imports it by then, and leaves its lease to expire.
Fails(w) == Imports(w) \/ (worker[w].automatic /\ runs[worker[w].key].status = "PROCESSING")

Fail(w) ==
    /\ worker[w].phase \in {"importing", "written"}
    /\ runs' = IF Fails(w) THEN [runs EXCEPT ![worker[w].key].status = "FAILED"] ELSE runs
    /\ IF worker[w].automatic THEN Rests(w) ELSE Goes(w, "releasing")
    /\ UNCHANGED <<source, sheet, mapping, outside, written>>

\* releaseLease, at every end: even an expired lease, if nobody took it.
Release(w) ==
    /\ worker[w].phase = "releasing"
    /\ source' = IF Holds(w) THEN Released ELSE source
    /\ Rests(w)
    /\ UNCHANGED <<sheet, mapping, runs, outside, written>>

-----------------------------------------------------------------------------
(* The run for review: CatalogueMappingProcessor, whose own lease is        *)
(* CatalogueImport's matter, and the owner                                  *)

\* A run of a frozen tenant is cancelled.
TakeUp(key) ==
    /\ runs[key].status = "UPLOADED"
    /\ runs' = [runs EXCEPT ![key].status = IF frozen THEN "CANCELLED" ELSE "MAPPING"]
    /\ UNCHANGED <<source, sheet, mapping, worker, outside, written>>

\* The model's mapping is confirmed if it is sure of it.
Propose(key, sure) ==
    /\ runs[key].status = "MAPPING"
    /\ IF sure
       THEN /\ mapping.version < MaxMappings
            /\ mapping' = [version |-> mapping.version + 1, headers |-> Headers[key[1]]]
       ELSE UNCHANGED mapping
    /\ runs' = [runs EXCEPT ![key].status = IF sure THEN "PREVIEW_READY" ELSE "MAPPING_REVIEW"]
    /\ UNCHANGED <<source, sheet, worker, outside, written>>

\* updateMapping: the run gets the owner's mapping, and its key.
UpdateMapping(key) ==
    /\ ~frozen /\ runs[key].status \in Remappable
    /\ mapping.version < MaxMappings
    /\ mapping' = [version |-> mapping.version + 1, headers |-> Headers[key[1]]]
    /\ runs' = [runs EXCEPT ![key] = NoRun,
                            ![<<key[1], mapping.version + 1>>] = [runs[key] EXCEPT !.status = "PREVIEW_READY"]]
    /\ UNCHANGED <<source, sheet, worker, outside, written>>

\* The source is claimed for a preview that was made, or made again, for its
\* present version: nobody has claimed or changed it since.
ClaimPreview(w, key, automatic) ==
    /\ worker[w].phase = "idle"
    /\ runs[key].status = "PREVIEW_READY"
    /\ runs[key].version = source.version
    /\ Free /\ source.version < MaxVersion
    /\ source' = Claimed
    /\ RunIs(key, RunOf("PROCESSING", source.version + 1, runs[key].at))
    /\ worker' = [worker EXCEPT ![w] = [Idle EXCEPT !.phase = "importing", !.version = source.version + 1,
                                                   !.key = key, !.at = runs[key].at, !.automatic = automatic]]
    /\ UNCHANGED <<sheet, mapping, outside, written>>

Confirm(w, key) == ~frozen /\ ClaimPreview(w, key, FALSE)

\* The automatic import asks about no freeze, nor whether the owner has remapped
\* the run since the model did: who made a preview is not told apart.
AutoImport(w, key) == ClaimPreview(w, key, TRUE)

-----------------------------------------------------------------------------
(* The owner's settings, the sheet, time, and failures                      *)

\* Another sheet is chosen, unless the source is being synchronized.
Configure(c) ==
    /\ ~frozen /\ Free
    /\ source.version < MaxVersion /\ sheet.at < MaxEdits
    /\ source' = [source EXCEPT !.version = @ + 1, !.chosen = sheet.at + 1]
    /\ sheet' = [content |-> c, at |-> sheet.at + 1]
    /\ UNCHANGED <<mapping, runs, worker, outside, written>>

Edit(c) ==
    /\ c # sheet.content /\ sheet.at < MaxEdits
    /\ sheet' = [content |-> c, at |-> sheet.at + 1]
    /\ UNCHANGED <<source, mapping, runs, worker, outside, written>>

Age(key) ==
    /\ runs[key].status = "PROCESSING" /\ ~runs[key].old
    /\ runs' = [runs EXCEPT ![key].old = TRUE]
    /\ UNCHANGED <<source, sheet, mapping, worker, outside, written>>

\* The heartbeat renews a lease that has not expired, unless its process hangs.
ExpireLease ==
    /\ source.lease # 0 /\ ~source.expired
    \* A lease that nobody holds any more expires in any case.
    /\ \/ lost < MaxLost /\ lost' = lost + 1
       \/ UNCHANGED lost /\ \A w \in Processes : worker[w].version # source.lease
    /\ source' = [source EXCEPT !.expired = TRUE]
    /\ UNCHANGED <<sheet, mapping, runs, worker, frozen, freezes, written>>

Crash(w) ==
    /\ worker[w].phase # "idle" /\ lost < MaxLost
    /\ lost' = lost + 1
    /\ Rests(w)
    /\ UNCHANGED <<source, sheet, mapping, runs, frozen, freezes, written>>

Freeze ==
    /\ frozen \/ freezes < MaxFreezes
    /\ frozen' = ~frozen
    /\ freezes' = IF frozen THEN freezes ELSE freezes + 1
    /\ UNCHANGED <<source, sheet, mapping, runs, worker, lost, written>>

-----------------------------------------------------------------------------
Init ==
    /\ source = [version |-> 0, lease |-> 0, expired |-> FALSE, chosen |-> 0]
    /\ sheet \in [content : Contents, at : {0}]
    /\ mapping = [version |-> 0, headers |-> Headers[sheet.content]]
    /\ runs = [key \in Key |-> NoRun]
    /\ worker = [w \in Processes |-> Idle]
    /\ frozen = FALSE
    /\ freezes = 0
    /\ lost = 0
    /\ written = [claims |-> {}, at |-> 0]

Sync(w) ==
    \/ Claim(w) \/ PauseFrozen(w)
    \/ ReadTable(w) \/ ReadDoubtful(w) \/ ReadUnmapped(w) \/ Gives(w)
    \/ Plan(w) \/ PauseForReview(w) \/ LeaveAlone(w) \/ LookUp(w) \/ Begin(w)
    \/ Import(w) \/ Complete(w) \/ Fail(w) \/ Release(w)

Next ==
    \/ \E w \in Processes : Sync(w) \/ Crash(w)
    \/ \E w \in Processes, key \in Key : Confirm(w, key) \/ AutoImport(w, key)
    \/ \E key \in Key :
        TakeUp(key) \/ UpdateMapping(key) \/ Age(key) \/ \E sure \in BOOLEAN : Propose(key, sure)
    \/ \E c \in Contents : Configure(c) \/ Edit(c)
    \/ ExpireLease \/ Freeze

Spec == Init /\ [][Next]_vars

-----------------------------------------------------------------------------
(* Properties                                                               *)

TypeOK ==
    /\ source \in [version : Versions, lease : Versions, expired : BOOLEAN, chosen : Edits]
    /\ sheet \in [content : Contents, at : Edits]
    /\ mapping \in [version : 0..MaxMappings, headers : {Headers[c] : c \in Contents}]
    /\ runs \in [Key -> Run]
    /\ worker \in [Processes -> Work]
    /\ frozen \in BOOLEAN
    /\ {freezes, lost} \subseteq Nat
    /\ written \in [claims : SUBSET Versions, at : Edits]

\* The products never go back to what the sheet was before, nor to another
\* sheet: whoever writes them claimed the source after all who wrote before,
\* has a reading of the sheet no older than theirs, and of the chosen one.
WritesGoForward ==
    /\ written.claims # written'.claims =>
          \A v \in written'.claims \ written.claims : \A u \in written.claims : u < v
    /\ written.at <= written'.at
    /\ written # written' => written'.at >= source.chosen

\* COMPLETED means that this very claim wrote the products.
CompletedIsWritten ==
    \A key \in Key : runs[key].status = "COMPLETED" => runs[key].version \in written.claims
=============================================================================
