--------------------------- MODULE CatalogueImport ---------------------------
(***************************************************************************)
(* One import of a catalogue from an uploaded file.  CatalogueImportService*)
(* of apps/api stores the file and a run that is UPLOADED, and lets owners *)
(* correct the mapping of columns and confirm the import.  Meanwhile       *)
(* CatalogueMappingProcessor of apps/worker claims the run with a lease and*)
(* asks the model for a mapping; if it is sure of it, CatalogueAutoImporter*)
(* imports the file without asking anybody.                                *)
(*                                                                         *)
(* A mapping is its version: its columns, and the products of the file, are*)
(* left out.  CatalogueMappingReconciler finds a due run whatever became of*)
(* its wake-up, so that a worker may look at it at any time.               *)
(***************************************************************************)
EXTENDS Integers, Sequences

CONSTANTS
    Workers,      \* worker processes
    Owners,       \* requests of the tenant's owners to confirm the import
    MaxMappings,  \* bound: mappings of the source
    MaxLost,      \* bound: crashes, and leases outlived
    MaxFreezes    \* bound: times the tenant's data deletion is requested

VARIABLES
    run,        \* catalogue_import_runs: status, mapping and mapping lease
    mappings,   \* catalogue_mappings: the latest version
    owned,      \* mappings that an owner made
    worker,     \* what each worker process is doing
    confirming, \* what each request to confirm is doing
    frozen,     \* the tenant has an open request to delete its data
    freezes,
    lost,       \* crashes and expired leases so far
    applied,    \* ghost: mappings with which products were written, in order
    outrun      \* ghost: owners mapped a run between the importer's read and claim

vars == <<run, mappings, owned, worker, confirming, frozen, freezes, lost, applied, outrun>>
outside == <<frozen, freezes, lost>>
ghosts == <<applied, outrun>>

-----------------------------------------------------------------------------
Versions == 0..MaxMappings
Status == {"UPLOADED", "MAPPING", "MAPPING_REVIEW", "PREVIEW_READY",
           "PROCESSING", "COMPLETED", "FAILED", "CANCELLED"}
Remappable == {"UPLOADED", "MAPPING", "MAPPING_REVIEW", "PREVIEW_READY"}
\* A lease is the number of its claim, 0 if there is none.
Run == [status : Status, mapping : Versions, claims : Nat, lease : Nat, expired : BOOLEAN]

Phase == {"idle", "claimed", "asked", "mapped", "read", "importing", "written"}
Work == [phase : Phase, lease : Nat, mapping : Versions]
Idle == [phase |-> "idle", lease |-> 0, mapping |-> 0]

Goes(w, phase) == worker' = [worker EXCEPT ![w].phase = phase]
Rests(w) == worker' = [worker EXCEPT ![w] = Idle]

Owns(w) == run.status = "MAPPING" /\ run.lease = worker[w].lease /\ ~run.expired
Released(status, mapping) ==
    [run EXCEPT !.status = status, !.mapping = mapping, !.lease = 0, !.expired = FALSE]

-----------------------------------------------------------------------------
(* CatalogueMappingProcessor                                                *)

Due == run.status = "UPLOADED" \/ (run.status = "MAPPING" /\ run.lease # 0 /\ run.expired)

Claim(w) ==
    /\ worker[w].phase = "idle"
    /\ Due /\ ~frozen
    /\ run' = [run EXCEPT !.status = "MAPPING", !.claims = @ + 1, !.lease = run.claims + 1, !.expired = FALSE]
    /\ worker' = [worker EXCEPT ![w] = [Idle EXCEPT !.phase = "claimed", !.lease = run.claims + 1]]
    /\ UNCHANGED <<mappings, owned, confirming, outside, ghosts>>

\* A wake-up of a frozen tenant's run cancels it, whoever has claimed it.
CancelFrozen(w) ==
    /\ worker[w].phase = "idle"
    /\ frozen /\ run.status \in {"UPLOADED", "MAPPING"}
    /\ run' = Released("CANCELLED", run.mapping)
    /\ UNCHANGED <<mappings, owned, worker, confirming, outside, ghosts>>

\* assertCanDispatch, before each call of the model.
Ask(w) ==
    /\ worker[w].phase = "claimed"
    /\ IF Owns(w) /\ ~frozen THEN Goes(w, "asked") ELSE Rests(w)
    /\ run' = IF Owns(w) /\ frozen THEN Released("CANCELLED", run.mapping) ELSE run
    /\ UNCHANGED <<mappings, owned, confirming, outside, ghosts>>

\* The model's mapping is stored if the claim still holds, and not otherwise.
Persist(w, sure) ==
    /\ worker[w].phase = "asked"
    /\ IF Owns(w)
       THEN /\ mappings < MaxMappings
            /\ mappings' = mappings + 1
            /\ run' = Released(IF sure THEN "PREVIEW_READY" ELSE "MAPPING_REVIEW", mappings + 1)
       ELSE UNCHANGED <<mappings, run>>
    /\ IF Owns(w) /\ sure THEN Goes(w, "mapped") ELSE Rests(w)
    /\ UNCHANGED <<owned, confirming, outside, ghosts>>

\* The file cannot be read, or the model does not answer: the owner has to map.
MappingFails(w) ==
    /\ worker[w].phase \in {"claimed", "asked"}
    /\ Owns(w)
    /\ run' = Released("MAPPING_REVIEW", 0)
    /\ Rests(w)
    /\ UNCHANGED <<mappings, owned, confirming, outside, ghosts>>

-----------------------------------------------------------------------------
(* CatalogueAutoImporter                                                    *)

AutoRead(w) ==
    /\ worker[w].phase = "mapped"
    /\ \/ /\ run.status = "PREVIEW_READY"
          /\ worker' = [worker EXCEPT ![w].phase = "read", ![w].mapping = run.mapping]
       \/ Rests(w)   \* the run has gone on, or its file cannot be read
    /\ UNCHANGED <<run, mappings, owned, confirming, outside, ghosts>>

ClaimableTwice == run.status \in {"PREVIEW_READY", "PROCESSING"}
Claimable == run.status = "PREVIEW_READY"

AutoClaim(w) ==
    /\ worker[w].phase = "read"
    /\ IF Claimable
       THEN run' = [run EXCEPT !.status = "PROCESSING"] /\ Goes(w, "importing")
       ELSE UNCHANGED run /\ Rests(w)
    /\ UNCHANGED <<mappings, owned, confirming, outside, ghosts>>

\* importCatalogueTable: every product in one transaction.
AutoImport(w) ==
    /\ worker[w].phase = "importing"
    /\ applied' = Append(applied, worker[w].mapping)
    /\ Goes(w, "written")
    /\ UNCHANGED <<run, mappings, owned, confirming, outside, outrun>>

\* The status with which an import ends, if nobody else has ended it.
Ended(status) == IF run.status = "PROCESSING" THEN [run EXCEPT !.status = status] ELSE run

AutoComplete(w) ==
    /\ worker[w].phase = "written"
    /\ run' = Ended("COMPLETED")
    /\ Rests(w)
    /\ UNCHANGED <<mappings, owned, confirming, outside, ghosts>>

AutoFails(w) ==
    /\ worker[w].phase \in {"importing", "written"}
    /\ run' = Ended("FAILED")
    /\ Rests(w)
    /\ UNCHANGED <<mappings, owned, confirming, outside, ghosts>>

-----------------------------------------------------------------------------
(* CatalogueImportService                                                   *)

\* updateMapping: the owner's mapping, in place of the model's or its claim.
UpdateMapping ==
    /\ ~frozen /\ run.status \in Remappable
    /\ mappings < MaxMappings
    /\ mappings' = mappings + 1
    /\ owned' = owned \cup {mappings + 1}
    /\ run' = [run EXCEPT !.status = "PREVIEW_READY", !.mapping = mappings + 1]
    /\ outrun' = (outrun \/ \E w \in Workers : worker[w].phase = "read")
    /\ UNCHANGED <<worker, confirming, outside, applied>>

ClaimConfirmation(o) ==
    /\ confirming[o] = "idle"
    /\ ~frozen /\ Claimable
    /\ run' = [run EXCEPT !.status = "PROCESSING"]
    /\ confirming' = [confirming EXCEPT ![o] = "importing"]
    /\ UNCHANGED <<mappings, owned, worker, outside, ghosts>>

\* confirm reads the run again, with the mapping that it has now.
ConfirmImport(o) ==
    /\ confirming[o] = "importing"
    /\ applied' = Append(applied, run.mapping)
    /\ confirming' = [confirming EXCEPT ![o] = "written"]
    /\ UNCHANGED <<run, mappings, owned, worker, outside, outrun>>

CompleteConfirmation(o) ==
    /\ confirming[o] = "written"
    /\ run' = Ended("COMPLETED")
    /\ confirming' = [confirming EXCEPT ![o] = "idle"]
    /\ UNCHANGED <<mappings, owned, worker, outside, ghosts>>

ConfirmFails(o) ==
    /\ confirming[o] # "idle"
    /\ run' = Ended("FAILED")
    /\ confirming' = [confirming EXCEPT ![o] = "idle"]
    /\ UNCHANGED <<mappings, owned, worker, outside, ghosts>>

-----------------------------------------------------------------------------
(* Time, failures, and the freeze of the tenant                             *)

\* The heartbeat renews a lease that has not expired, unless its process hangs.
ExpireLease ==
    /\ run.status = "MAPPING" /\ ~run.expired
    \* A lease that nobody holds any more expires in any case.
    /\ \/ lost < MaxLost /\ lost' = lost + 1
       \/ UNCHANGED lost /\ \A w \in Workers : worker[w].lease # run.lease
    /\ run' = [run EXCEPT !.expired = TRUE]
    /\ UNCHANGED <<mappings, owned, worker, confirming, frozen, freezes, ghosts>>

Crash(w) ==
    /\ worker[w].phase # "idle" /\ lost < MaxLost
    /\ lost' = lost + 1
    /\ Rests(w)
    /\ UNCHANGED <<run, mappings, owned, confirming, frozen, freezes, ghosts>>

CrashApi ==
    /\ lost < MaxLost
    /\ \E o \in Owners : confirming[o] # "idle"
    /\ lost' = lost + 1
    /\ confirming' = [o \in Owners |-> "idle"]
    /\ UNCHANGED <<run, mappings, owned, worker, frozen, freezes, ghosts>>

Freeze ==
    /\ frozen \/ freezes < MaxFreezes
    /\ frozen' = ~frozen
    /\ freezes' = IF frozen THEN freezes ELSE freezes + 1
    /\ UNCHANGED <<run, mappings, owned, worker, confirming, lost, ghosts>>

-----------------------------------------------------------------------------
Init ==
    /\ run = [status |-> "UPLOADED", mapping |-> 0, claims |-> 0, lease |-> 0, expired |-> FALSE]
    /\ mappings = 0
    /\ owned = {}
    /\ worker = [w \in Workers |-> Idle]
    /\ confirming = [o \in Owners |-> "idle"]
    /\ frozen = FALSE
    /\ freezes = 0
    /\ lost = 0
    /\ applied = <<>>
    /\ outrun = FALSE

WorkerStep(w) ==
    \/ Claim(w) \/ CancelFrozen(w) \/ Ask(w) \/ MappingFails(w)
    \/ \E sure \in BOOLEAN : Persist(w, sure)
    \/ AutoRead(w) \/ AutoClaim(w) \/ AutoImport(w) \/ AutoComplete(w) \/ AutoFails(w)

Next ==
    \/ \E w \in Workers : WorkerStep(w) \/ Crash(w)
    \/ UpdateMapping
    \/ \E o \in Owners : ClaimConfirmation(o) \/ ConfirmImport(o) \/ CompleteConfirmation(o) \/ ConfirmFails(o)
    \/ ExpireLease \/ CrashApi \/ Freeze

Spec == Init /\ [][Next]_vars

-----------------------------------------------------------------------------
(* Properties                                                               *)

TypeOK ==
    /\ run \in Run
    /\ mappings \in Versions
    /\ owned \subseteq 1..mappings
    /\ worker \in [Workers -> Work]
    /\ confirming \in [Owners -> {"idle", "importing", "written"}]
    /\ frozen \in BOOLEAN
    /\ {freezes, lost} \subseteq Nat
    /\ applied \in Seq(Versions)
    /\ outrun \in BOOLEAN

\* However many workers and owners are about a run, its products are written
\* once, with the mapping that the run names, unless an owner corrected it
\* after the automatic import had read it; and COMPLETED means written.
WrittenOnce == Len(applied) <= 1
ImportFollowsMapping ==
    /\ WrittenOnce
    /\ \A i \in DOMAIN applied : applied[i] = run.mapping \/ outrun
    /\ run.status = "COMPLETED" => applied # <<>>

\* A run is mapped, by the model, by an owner or by nobody, or cancelled.
Unmapped == run.status \in {"UPLOADED", "MAPPING"}

\* A late answer of the model never replaces an owner's mapping.
OwnersMappingStays == run.mapping \in owned => run'.mapping \in owned'
=============================================================================
