------------------------- MODULE CatalogueSyncProofs -------------------------
(***************************************************************************)
(* Proofs about CatalogueSync, for all processes, contents, claims, edits, *)
(* crashes and lost leases; and, at the end, about the imports of files of *)
(* CatalogueImport, whose worker MCWorker checks.                          *)
(***************************************************************************)
EXTENDS CatalogueSync, Sequences, TLAPS

\* The bounds are numbers.
Bounds == MaxVersion \in Nat /\ MaxEdits \in Nat /\ MaxMappings \in Nat

-----------------------------------------------------------------------------
(* The inductive invariant                                                  *)

\* Phases with a reading of the sheet that may still be written.
Reading == {"read", "review", "planned", "found", "importing"}
Exists(key) == runs[key].status # "NONE"

\* Who has a reading has it under a key.
ReadingsHaveKeys ==
    \A w \in Processes : worker[w].phase \in Reading \cup {"written"} => worker[w].key \in Key

\* A claim belongs to one process, and none is later than the source's.
ClaimsAreOnes ==
    /\ \A w \in Processes : worker[w].phase # "idle" => worker[w].version <= source.version
    /\ \A w, u \in Processes :
          (worker[w].phase # "idle" /\ worker[u].phase # "idle" /\ w # u) => worker[w].version # worker[u].version
    /\ \A key \in Key : Exists(key) => runs[key].version <= source.version

\* Products are written after an import, and not before.
WritesAreClaims ==
    /\ \A v \in written.claims : v <= source.version
    /\ \A w \in Processes :
          /\ worker[w].phase \in Reading \cup {"claimed"} => worker[w].version \notin written.claims
          /\ worker[w].phase = "written" => worker[w].version \in written.claims

\* The runs of a claim have its reading.
RunsHaveReading ==
    \A w \in Processes, key \in Key :
        (worker[w].phase # "idle" /\ Exists(key) /\ runs[key].version = worker[w].version) =>
            worker[w].phase # "claimed" /\ runs[key].at = worker[w].at

\* A reading, of the sheet that is chosen, that is no older than what is written.
Current(at) == written.at <= at /\ source.chosen <= at

\* The readings of the latest claim are current, and so is the sheet.
ReadingsAreCurrent ==
    /\ Current(sheet.at)
    /\ \A w \in Processes :
          (worker[w].phase \in Reading /\ worker[w].version = source.version) => Current(worker[w].at)
    /\ \A key \in Key : (Exists(key) /\ runs[key].version = source.version) => Current(runs[key].at)

\* Nothing was read of the sheet that it was not yet.
ReadingsArePast ==
    /\ \A w \in Processes : worker[w].at <= sheet.at
    /\ \A key \in Key : runs[key].at <= sheet.at

IInv ==
    /\ TypeOK
    /\ ReadingsHaveKeys
    /\ ClaimsAreOnes
    /\ WritesAreClaims
    /\ RunsHaveReading
    /\ ReadingsAreCurrent
    /\ ReadingsArePast
    /\ CompletedIsWritten

LEMMA Initially == ASSUME Bounds, Init PROVE IInv
<1>1. 0 \in Versions /\ 0 \in Edits /\ 0 \in 0..MaxMappings
    BY DEF Bounds, Versions, Edits
<1>2. NoRun \in Run /\ Idle \in Work
    BY <1>1 DEF NoRun, Run, Status, Idle, Work, Phase
<1>3. TypeOK
  <2>1. mapping \in [version : 0..MaxMappings, headers : {Headers[c] : c \in Contents}]
    BY <1>1 DEF Init
  <2>2. sheet \in [content : Contents, at : Edits]
    BY <1>1 DEF Init
  <2>3. written \in [claims : SUBSET Versions, at : Edits]
    BY <1>1 DEF Init
  <2>4. source \in [version : Versions, lease : Versions, expired : BOOLEAN, chosen : Edits]
    BY <1>1 DEF Init
  <2>5. runs \in [Key -> Run] /\ worker \in [Processes -> Work]
    BY <1>2 DEF Init
  <2>6. frozen \in BOOLEAN /\ freezes \in Nat /\ lost \in Nat
    BY DEF Init
  <2>. QED
    BY <2>1, <2>2, <2>3, <2>4, <2>5, <2>6 DEF TypeOK
<1>4. \A w \in Processes : worker[w].phase = "idle" /\ worker[w].at = 0
    BY DEF Init, Idle
<1>5. \A key \in Key : runs[key].status = "NONE" /\ runs[key].at = 0
    BY DEF Init, NoRun
<1>6. ReadingsHaveKeys /\ ClaimsAreOnes /\ RunsHaveReading /\ CompletedIsWritten
    BY <1>4, <1>5 DEF ReadingsHaveKeys, ClaimsAreOnes, RunsHaveReading, CompletedIsWritten, Reading, Exists
<1>7. WritesAreClaims
    BY <1>4 DEF Init, WritesAreClaims, Reading
<1>8. ReadingsAreCurrent /\ ReadingsArePast
    BY <1>4, <1>5 DEF Init, ReadingsAreCurrent, ReadingsArePast, Current, Reading, Exists
<1>. QED
    BY <1>3, <1>6, <1>7, <1>8 DEF IInv

-----------------------------------------------------------------------------
(* Types                                                                    *)

LEMMA Defaults == ASSUME Bounds PROVE Idle \in Work /\ NoRun \in Run /\ 0 \in Versions /\ 0 \in Edits
BY DEF Bounds, Idle, Work, NoRun, Run, Status, Phase, Versions, Edits

LEMMA GoesType ==
    ASSUME TypeOK, NEW w \in Processes, NEW phase \in Phase, Goes(w, phase)
    PROVE  worker' \in [Processes -> Work]
<1>1. [worker[w] EXCEPT !.phase = phase] \in Work
    BY DEF TypeOK, Work
<1>. QED
    BY <1>1 DEF Goes, TypeOK

LEMMA RestsType ==
    ASSUME Bounds, TypeOK, NEW w \in Processes, Rests(w)
    PROVE  worker' \in [Processes -> Work]
BY Defaults DEF Rests, TypeOK

LEMMA ReleasedType ==
    ASSUME Bounds, TypeOK
    PROVE  Released \in [version : Versions, lease : Versions, expired : BOOLEAN, chosen : Edits]
BY Defaults DEF Released, TypeOK

LEMMA ClaimedType ==
    ASSUME Bounds, TypeOK, source.version < MaxVersion
    PROVE  /\ source.version + 1 \in Versions
           /\ Claimed \in [version : Versions, lease : Versions, expired : BOOLEAN, chosen : Edits]
<1>1. source.version + 1 \in Versions
    BY DEF Bounds, TypeOK, Versions
<1>. QED
    BY <1>1 DEF Claimed, TypeOK

LEMMA RunOfType ==
    ASSUME TypeOK, NEW status \in Status, NEW version \in Versions, NEW at \in Edits, NEW key,
           RunIs(key, RunOf(status, version, at))
    PROVE  runs' \in [Key -> Run]
<1>1. RunOf(status, version, at) \in Run
    BY DEF RunOf, Run
<1>. QED
    BY <1>1 DEF RunIs, TypeOK

LEMMA StatusType ==
    ASSUME TypeOK, NEW status \in Status, NEW key, runs' = [runs EXCEPT ![key].status = status]
    PROVE  runs' \in [Key -> Run]
<1>1. CASE key \in Key
  <2>1. [runs[key] EXCEPT !.status = status] \in Run
    BY <1>1 DEF TypeOK, Run
  <2>. QED
    BY <1>1, <2>1 DEF TypeOK
<1>2. CASE key \notin Key
    BY <1>2 DEF TypeOK
<1>. QED
    BY <1>1, <1>2

LEMMA ReadType ==
    ASSUME Bounds, TypeOK, NEW w \in Processes, NEW phase \in Phase, Read(w, phase)
    PROVE  worker' \in [Processes -> Work]
<1>1. Review(sheet.content) \in Key
    BY DEF Bounds, TypeOK, Review, Key
<1>2. worker[w] \in Work /\ sheet.at \in Edits
    BY DEF TypeOK
<1>3. [worker[w] EXCEPT !.phase = phase, !.key = Review(sheet.content), !.at = sheet.at] \in Work
    BY <1>1, <1>2 DEF Work
<1>. QED
    BY <1>3 DEF Read, TypeOK

LEMMA ClaimPreviewType ==
    ASSUME Bounds, TypeOK, NEW w \in Processes, NEW key \in Key, NEW automatic \in BOOLEAN,
           ClaimPreview(w, key, automatic)
    PROVE  TypeOK'
<1>1. source.version + 1 \in Versions /\ runs[key].at \in Edits
    BY ClaimedType DEF ClaimPreview, TypeOK, Run
<1>2. runs' \in [Key -> Run]
    BY <1>1, RunOfType DEF ClaimPreview, Status
<1>3. [Idle EXCEPT !.phase = "importing", !.version = source.version + 1,
                   !.key = key, !.at = runs[key].at, !.automatic = automatic] \in Work
    BY <1>1, Defaults DEF Work, Phase
<1>4. worker' \in [Processes -> Work]
    BY <1>3 DEF ClaimPreview, TypeOK
<1>. QED
    BY <1>2, <1>4, ClaimedType DEF ClaimPreview, TypeOK, outside

LEMMA SyncType ==
    ASSUME Bounds, TypeOK, ReadingsHaveKeys, NEW w \in Processes, Sync(w)
    PROVE  TypeOK'
<1>0. worker[w] \in Work /\ worker[w].version \in Versions /\ worker[w].at \in Edits
    BY DEF TypeOK, Work
<1>1. CASE Claim(w)
  <2>1. [Idle EXCEPT !.phase = "claimed", !.version = source.version + 1] \in Work
    BY <1>1, ClaimedType, Defaults DEF Claim, Work, Phase
  <2>2. worker' \in [Processes -> Work]
    BY <1>1, <2>1 DEF Claim, TypeOK
  <2>. QED
    BY <1>1, <2>2, ClaimedType DEF Claim, TypeOK, outside
<1>2. CASE PauseFrozen(w)
    BY <1>2, ReleasedType DEF PauseFrozen, TypeOK, outside
<1>3. CASE ReadTable(w) \/ ReadDoubtful(w)
  <2>1. worker' \in [Processes -> Work]
    BY <1>3, ReadType DEF ReadTable, ReadDoubtful, Phase
  <2>. QED
    BY <1>3, <2>1 DEF ReadTable, ReadDoubtful, Read, TypeOK, outside
<1>4. CASE ReadUnmapped(w)
  <2>1. worker' \in [Processes -> Work]
    BY <1>4, ReadType DEF ReadUnmapped, Phase
  <2>2. mapping' \in [version : 0..MaxMappings, headers : {Headers[c] : c \in Contents}]
    BY <1>4 DEF ReadUnmapped, TypeOK, Bounds
  <2>. QED
    BY <1>4, <2>1, <2>2 DEF ReadUnmapped, Read, TypeOK, outside
<1>5. CASE Gives(w)
    BY <1>5, GoesType DEF Gives, TypeOK, outside, Phase
<1>6. CASE Plan(w)
  <2>. DEFINE c == worker[w].key[1]
  <2>1. worker[w].key \in Key
    BY <1>6 DEF Plan, ReadingsHaveKeys, Reading
  <2>2. <<c, mapping.version>> \in Key
    BY <2>1 DEF Key, TypeOK
  <2>3. /\ [worker[w] EXCEPT !.phase = "planned", !.key = <<c, mapping.version>>] \in Work
        /\ [worker[w] EXCEPT !.phase = "review"] \in Work
    BY <1>0, <2>2 DEF Work, Phase
  <2>4. worker' \in [Processes -> Work]
    BY <1>6, <2>3 DEF Plan, TypeOK
  <2>. QED
    BY <1>6, <2>4 DEF Plan, TypeOK, outside
<1>7. CASE PauseForReview(w)
  <2>1. runs' \in [Key -> Run]
    BY <1>0, <1>7, RunOfType DEF PauseForReview, Status, TypeOK
  <2>2. worker' \in [Processes -> Work]
    BY <1>7, GoesType DEF PauseForReview, Phase
  <2>. QED
    BY <1>7, <2>1, <2>2 DEF PauseForReview, TypeOK, outside
<1>8. CASE LeaveAlone(w)
  <2>1. runs' \in [Key -> Run]
    BY <1>0, <1>8, RunOfType DEF LeaveAlone, Status, TypeOK
  <2>2. worker' \in [Processes -> Work]
    BY <1>8, GoesType DEF LeaveAlone, Phase
  <2>. QED
    BY <1>8, <2>1, <2>2 DEF LeaveAlone, TypeOK, outside
<1>9. CASE LookUp(w)
  <2>1. runs[worker[w].key].status \in Status
    BY <1>9 DEF LookUp, Status
  <2>2. [worker[w] EXCEPT !.phase = "found", !.found = runs[worker[w].key].status] \in Work
    BY <1>0, <2>1 DEF Work, Phase
  <2>3. worker' \in [Processes -> Work]
    BY <1>9, <2>2 DEF LookUp, TypeOK
  <2>. QED
    BY <1>9, <2>3 DEF LookUp, TypeOK, outside
<1>10. CASE Begin(w)
  <2>1. runs' \in [Key -> Run]
    BY <1>0, <1>10, RunOfType DEF Begin, Status, TypeOK
  <2>2. worker' \in [Processes -> Work]
    BY <1>10, GoesType DEF Begin, Phase
  <2>. QED
    BY <1>10, <2>1, <2>2 DEF Begin, TypeOK, outside
<1>11. CASE Import(w)
  <2>1. worker' \in [Processes -> Work]
    BY <1>11, GoesType DEF Import, Phase
  <2>2. written' \in [claims : SUBSET Versions, at : Edits]
    BY <1>0, <1>11 DEF Import, TypeOK
  <2>. QED
    BY <1>11, <2>1, <2>2 DEF Import, TypeOK, outside
<1>12. CASE Complete(w)
  <2>1. runs' \in [Key -> Run]
    BY <1>12, StatusType DEF Complete, Status
  <2>2. worker' \in [Processes -> Work]
    BY <1>12, RestsType DEF Complete
  <2>. QED
    BY <1>12, <2>1, <2>2, ReleasedType DEF Complete, TypeOK, outside
<1>13. CASE Fail(w)
  <2>1. runs' \in [Key -> Run]
    BY <1>13, StatusType DEF Fail, Status, TypeOK
  <2>2. worker' \in [Processes -> Work]
    BY <1>13, RestsType, GoesType DEF Fail, Phase
  <2>. QED
    BY <1>13, <2>1, <2>2 DEF Fail, TypeOK, outside
<1>14. CASE Release(w)
  <2>1. worker' \in [Processes -> Work]
    BY <1>14, RestsType DEF Release
  <2>. QED
    BY <1>14, <2>1, ReleasedType DEF Release, TypeOK, outside
<1>. QED
    BY <1>1, <1>2, <1>3, <1>4, <1>5, <1>6, <1>7, <1>8, <1>9, <1>10, <1>11, <1>12, <1>13, <1>14 DEF Sync

LEMMA TypeStep == ASSUME Bounds, TypeOK, ReadingsHaveKeys, [Next]_vars PROVE TypeOK'
<1>1. ASSUME NEW w \in Processes, Sync(w) PROVE TypeOK'
    BY <1>1, SyncType
<1>2. ASSUME NEW w \in Processes, Crash(w) PROVE TypeOK'
  <2>1. worker' \in [Processes -> Work] /\ lost' \in Nat
    BY <1>2, RestsType DEF Crash, TypeOK
  <2>. QED
    BY <1>2, <2>1 DEF Crash, TypeOK
<1>3. ASSUME NEW w \in Processes, NEW key \in Key, Confirm(w, key) \/ AutoImport(w, key) PROVE TypeOK'
    BY <1>3, ClaimPreviewType DEF Confirm, AutoImport
<1>4. ASSUME NEW key \in Key, TakeUp(key) PROVE TypeOK'
  <2>1. runs' \in [Key -> Run]
    BY <1>4, StatusType DEF TakeUp, Status
  <2>. QED
    BY <1>4, <2>1 DEF TakeUp, TypeOK, outside
<1>5. ASSUME NEW key \in Key, NEW sure \in BOOLEAN, Propose(key, sure) PROVE TypeOK'
  <2>1. runs' \in [Key -> Run]
    BY <1>5, StatusType DEF Propose, Status
  <2>2. key[1] \in Contents
    BY DEF Key
  <2>3. mapping' \in [version : 0..MaxMappings, headers : {Headers[c] : c \in Contents}]
    BY <1>5, <2>2 DEF Propose, TypeOK, Bounds
  <2>. QED
    BY <1>5, <2>1, <2>3 DEF Propose, TypeOK, outside
<1>6. ASSUME NEW key \in Key, UpdateMapping(key) PROVE TypeOK'
  <2>1. key[1] \in Contents
    BY DEF Key
  <2>2. mapping' \in [version : 0..MaxMappings, headers : {Headers[c] : c \in Contents}]
    BY <1>6, <2>1 DEF UpdateMapping, TypeOK, Bounds
  <2>. DEFINE new == <<key[1], mapping.version + 1>>
              preview == [runs[key] EXCEPT !.status = "PREVIEW_READY"]
  <2>3. NoRun \in Run /\ preview \in Run
    BY Defaults DEF TypeOK, Run, Status
  <2>5. runs' = [runs EXCEPT ![key] = NoRun, ![new] = preview]
    BY <1>6 DEF UpdateMapping
  <2>4. runs' \in [Key -> Run]
    <3>. HIDE DEF new, preview
    <3>. QED
        BY <2>3, <2>5 DEF TypeOK
  <2>6. /\ source' = source /\ sheet' = sheet /\ worker' = worker /\ written' = written
        /\ frozen' = frozen /\ freezes' = freezes /\ lost' = lost
    BY <1>6 DEF UpdateMapping, outside
  <2>. QED
    BY <2>2, <2>4, <2>6 DEF TypeOK
<1>7. ASSUME NEW key \in Key, Age(key) PROVE TypeOK'
  <2>3. runs[key] \in Run
    BY DEF TypeOK
  <2>1. [runs[key] EXCEPT !.old = TRUE] \in Run
    BY <2>3 DEF Run
  <2>2. runs' \in [Key -> Run]
    BY <1>7, <2>1 DEF Age, TypeOK
  <2>. QED
    BY <1>7, <2>2 DEF Age, TypeOK, outside
<1>8. ASSUME NEW c \in Contents, Configure(c) PROVE TypeOK'
  <2>1. source.version + 1 \in Versions /\ sheet.at + 1 \in Edits
    BY <1>8 DEF Configure, TypeOK, Versions, Edits, Bounds
  <2>. QED
    BY <1>8, <2>1 DEF Configure, TypeOK, outside
<1>9. ASSUME NEW c \in Contents, Edit(c) PROVE TypeOK'
  <2>1. sheet.at + 1 \in Edits
    BY <1>9 DEF Edit, TypeOK, Edits, Bounds
  <2>. QED
    BY <1>9, <2>1 DEF Edit, TypeOK, outside
<1>10. CASE ExpireLease
  <2>1. lost' \in Nat
    BY <1>10 DEF ExpireLease, TypeOK
  <2>. QED
    BY <1>10, <2>1 DEF ExpireLease, TypeOK
<1>11. CASE Freeze
    BY <1>11 DEF Freeze, TypeOK
<1>12. CASE UNCHANGED vars
    BY <1>12 DEF vars, outside, TypeOK
<1>. QED
    BY <1>1, <1>2, <1>3, <1>4, <1>5, <1>6, <1>7, <1>8, <1>9, <1>10, <1>11, <1>12 DEF Next

-----------------------------------------------------------------------------
(* The kinds of steps                                                       *)

\* A process stops, or goes on with the claim and the reading that it has.
GoesOn(w) ==
    \/ worker'[w].phase = "idle" /\ worker'[w].at = 0
    \/ worker'[w] = worker[w]
    \/ /\ worker'[w].version = worker[w].version
       /\ worker'[w].at = worker[w].at
       /\ worker[w].phase # "idle"
       /\ \/ worker'[w].phase = "releasing"
          \/ worker[w].phase \in Reading /\ worker'[w].phase \in Reading /\ worker'[w].key \in Key

\* A run is another's or the same as before, but for its status and its key.
Kept(key) ==
    \E k \in Key :
        /\ Exists(k)
        /\ runs'[key].version = runs[k].version /\ runs'[key].at = runs[k].at
        /\ runs'[key].status = "COMPLETED" => runs[k].status = "COMPLETED" \/ runs[k].version \in written.claims

\* A run becomes that of a process.
BecomesOf(key, w) ==
    /\ worker[w].phase \in Reading
    /\ runs'[key].version = worker[w].version /\ runs'[key].at = worker[w].at
    /\ runs'[key].status # "COMPLETED"

Gone(key) == runs'[key].status = "NONE" /\ runs'[key].at = 0

RunsGoOn ==
    \A key \in Key : runs'[key] = runs[key] \/ Gone(key) \/ Kept(key) \/ \E w \in Processes : BecomesOf(key, w)

\* The source has the version that it had.
QuietStep ==
    /\ source'.version = source.version /\ source'.chosen = source.chosen
    /\ sheet.at <= sheet'.at
    /\ written' = written
    /\ \A w \in Processes : GoesOn(w)
    /\ RunsGoOn

\* An idle process claims the source, to read its sheet or to import a preview.
ClaimStep(w) ==
    /\ worker[w].phase = "idle"
    /\ source'.version = source.version + 1 /\ source'.chosen = source.chosen
    /\ UNCHANGED <<sheet, written>>
    /\ \A u \in Processes \ {w} : worker'[u] = worker[u]
    /\ worker'[w].version = source.version + 1
    /\ \/ worker'[w].phase = "claimed" /\ worker'[w].at = 0 /\ UNCHANGED runs
       \/ \E key \in Key :
            /\ Exists(key) /\ runs[key].version = source.version
            /\ worker'[w].phase = "importing" /\ worker'[w].key = key /\ worker'[w].at = runs[key].at
            /\ \A k \in Key \ {key} : runs'[k] = runs[k]
            /\ runs'[key].status = "PROCESSING" /\ runs'[key].version = source.version + 1
            /\ runs'[key].at = runs[key].at

ReadStep(w) ==
    /\ worker[w].phase = "claimed"
    /\ UNCHANGED <<source, sheet, runs, written>>
    /\ \A u \in Processes \ {w} : worker'[u] = worker[u]
    /\ worker'[w].phase \in Reading /\ worker'[w].key \in Key
    /\ worker'[w].version = worker[w].version /\ worker'[w].at = sheet.at

WriteStep(w) ==
    /\ worker[w].phase \in Reading /\ worker[w].version = source.version
    /\ UNCHANGED <<source, sheet, runs>>
    /\ written'.claims = written.claims \cup {worker[w].version} /\ written'.at = worker[w].at
    /\ \A u \in Processes \ {w} : worker'[u] = worker[u]
    /\ worker'[w].phase = "written" /\ worker'[w].key = worker[w].key
    /\ worker'[w].version = worker[w].version /\ worker'[w].at = worker[w].at

ConfigureStep ==
    /\ UNCHANGED <<runs, worker, written>>
    /\ source'.version = source.version + 1 /\ source'.chosen = sheet'.at
    /\ sheet'.at = sheet.at + 1


LEMMA RestsGoesOn == ASSUME TypeOK, NEW w \in Processes, Rests(w) PROVE \A u \in Processes : GoesOn(u)
BY DEF Rests, TypeOK, GoesOn, Idle

LEMMA ReleasingGoesOn ==
    ASSUME TypeOK, NEW w \in Processes, worker[w].phase # "idle", Goes(w, "releasing")
    PROVE  \A u \in Processes : GoesOn(u)
<1>1. worker'[w] = [worker[w] EXCEPT !.phase = "releasing"] /\ worker[w] \in Work
    BY DEF Goes, TypeOK
<1>2. GoesOn(w)
    BY <1>1 DEF GoesOn, Work
<1>. QED
    BY <1>2 DEF Goes, TypeOK, GoesOn

LEMMA SameRuns == ASSUME UNCHANGED runs PROVE RunsGoOn
BY DEF RunsGoOn

\* A run of a process, under its key.
LEMMA OwnRun ==
    ASSUME TypeOK, NEW w \in Processes, worker[w].phase \in Reading, NEW status \in Status \ {"COMPLETED"},
           RunIs(worker[w].key, RunOf(status, worker[w].version, worker[w].at))
    PROVE  RunsGoOn
<1>1. ASSUME NEW key \in Key PROVE runs'[key] = runs[key] \/ BecomesOf(key, w)
    BY <1>1 DEF RunIs, RunOf, BecomesOf, TypeOK
<1>. QED
    BY <1>1 DEF RunsGoOn

LEMMA NewStatus ==
    ASSUME TypeOK, NEW key \in Key, Exists(key), NEW status \in Status,
           status = "COMPLETED" => runs[key].version \in written.claims,
           runs' = [runs EXCEPT ![key].status = status]
    PROVE  RunsGoOn
<1>1. runs'[key] = [runs[key] EXCEPT !.status = status] /\ runs[key] \in Run
    BY DEF TypeOK
<1>2. Kept(key)
    BY <1>1 DEF Kept, Run
<1>3. \A k \in Key \ {key} : runs'[k] = runs[k]
    BY DEF TypeOK
<1>. QED
    BY <1>2, <1>3 DEF RunsGoOn

\* A step of a process is of one of the kinds.
Kind(w) == QuietStep \/ ClaimStep(w) \/ ReadStep(w) \/ WriteStep(w)

LEMMA SyncKind ==
    ASSUME Bounds, IInv, NEW w \in Processes, Sync(w)
    PROVE  Kind(w)
<1>. USE DEF IInv
<1>0. worker[w] \in Work /\ sheet.at <= sheet.at
    BY DEF TypeOK, Edits
<1>1. CASE Claim(w)
  <2>1. worker'[w] = [Idle EXCEPT !.phase = "claimed", !.version = source.version + 1]
    BY <1>1 DEF Claim, TypeOK
  <2>2. \A u \in Processes \ {w} : worker'[u] = worker[u]
    BY <1>1 DEF Claim, TypeOK
  <2>3. source'.version = source.version + 1 /\ source'.chosen = source.chosen
    BY <1>1 DEF Claim, Claimed, TypeOK
  <2>4. worker'[w].phase = "claimed" /\ worker'[w].at = 0 /\ worker'[w].version = source.version + 1
    BY <2>1 DEF Idle
  <2>5. worker[w].phase = "idle" /\ UNCHANGED <<sheet, runs, written>>
    BY <1>1 DEF Claim
  <2>6. ClaimStep(w)
    BY <2>2, <2>3, <2>4, <2>5 DEF ClaimStep
  <2>. QED
    BY <2>6 DEF Kind
<1>2. CASE PauseFrozen(w)
  <2>1. (\A u \in Processes : GoesOn(u)) /\ RunsGoOn
    BY <1>2, SameRuns DEF PauseFrozen, GoesOn
  <2>2. source'.version = source.version /\ source'.chosen = source.chosen
    BY <1>2 DEF PauseFrozen, Released, TypeOK
  <2>. QED
    BY <1>0, <1>2, <2>1, <2>2 DEF PauseFrozen, Kind, QuietStep
<1>3. ASSUME NEW phase \in {"read", "review"}, Read(w, phase) PROVE Kind(w)
  <2>1. Review(sheet.content) \in Key
    BY DEF Bounds, TypeOK, Review, Key
  <2>2. /\ worker'[w] = [worker[w] EXCEPT !.phase = phase, !.key = Review(sheet.content), !.at = sheet.at]
        /\ \A u \in Processes \ {w} : worker'[u] = worker[u]
    BY <1>3 DEF Read, TypeOK
  <2>3. /\ worker'[w].phase = phase /\ worker'[w].key \in Key
        /\ worker'[w].version = worker[w].version /\ worker'[w].at = sheet.at
    BY <1>0, <2>1, <2>2 DEF Work
  <2>4. worker[w].phase = "claimed" /\ UNCHANGED <<source, sheet, runs, written>>
    BY <1>3 DEF Read
  <2>5. ReadStep(w)
    BY <2>2, <2>3, <2>4 DEF ReadStep, Reading
  <2>. QED
    BY <2>5 DEF Kind
<1>4. CASE ReadTable(w) \/ ReadDoubtful(w) \/ ReadUnmapped(w)
    BY <1>3, <1>4 DEF ReadTable, ReadDoubtful, ReadUnmapped
<1>5. CASE Gives(w)
  <2>1. (\A u \in Processes : GoesOn(u)) /\ RunsGoOn
    BY <1>5, SameRuns, ReleasingGoesOn DEF Gives
  <2>. QED
    BY <1>0, <1>5, <2>1 DEF Gives, Kind, QuietStep
<1>6. CASE Plan(w)
  <2>. DEFINE c == worker[w].key[1]
  <2>1. worker[w].key \in Key
    BY <1>6 DEF Plan, ReadingsHaveKeys, Reading
  <2>2. <<c, mapping.version>> \in Key
    BY <2>1 DEF Key, TypeOK
  <2>3. /\ \/ worker'[w] = [worker[w] EXCEPT !.phase = "planned", !.key = <<c, mapping.version>>]
           \/ worker'[w] = [worker[w] EXCEPT !.phase = "review"]
        /\ \A u \in Processes \ {w} : worker'[u] = worker[u]
    BY <1>6 DEF Plan, TypeOK
  <2>6. worker[w].phase = "read"
    BY <1>6 DEF Plan
  <2>7. worker'[w].phase \in {"planned", "review"} /\ worker'[w].key \in Key
    BY <1>0, <2>1, <2>2, <2>3 DEF Work
  <2>8. worker'[w].version = worker[w].version /\ worker'[w].at = worker[w].at
    BY <1>0, <2>3 DEF Work
  <2>4. GoesOn(w)
    BY <2>6, <2>7, <2>8 DEF GoesOn, Reading
  <2>5. (\A u \in Processes : GoesOn(u)) /\ RunsGoOn
    BY <1>6, <2>3, <2>4, SameRuns DEF Plan, GoesOn
  <2>. QED
    BY <1>0, <1>6, <2>5 DEF Plan, Kind, QuietStep
<1>7. CASE PauseForReview(w)
  <2>1. \A u \in Processes : GoesOn(u)
    BY <1>7, ReleasingGoesOn DEF PauseForReview
  <2>2. RunsGoOn
    BY <1>7, SameRuns, OwnRun DEF PauseForReview, Reading, Status
  <2>. QED
    BY <1>0, <1>7, <2>1, <2>2 DEF PauseForReview, Kind, QuietStep
<1>8. CASE LeaveAlone(w)
  <2>1. \A u \in Processes : GoesOn(u)
    BY <1>8, ReleasingGoesOn DEF LeaveAlone
  <2>2. RunsGoOn
    BY <1>8, SameRuns, OwnRun DEF LeaveAlone, Reading, Status
  <2>. QED
    BY <1>0, <1>8, <2>1, <2>2 DEF LeaveAlone, Kind, QuietStep
<1>9. CASE LookUp(w)
  <2>1. worker[w].key \in Key
    BY <1>9 DEF LookUp, ReadingsHaveKeys, Reading
  <2>2. /\ worker'[w] = [worker[w] EXCEPT !.phase = "found", !.found = runs[worker[w].key].status]
        /\ \A u \in Processes \ {w} : worker'[u] = worker[u]
    BY <1>9 DEF LookUp, TypeOK
  <2>5. worker[w].phase = "planned"
    BY <1>9 DEF LookUp
  <2>6. worker'[w].phase = "found" /\ worker'[w].key \in Key
    BY <1>0, <2>1, <2>2 DEF Work
  <2>7. worker'[w].version = worker[w].version /\ worker'[w].at = worker[w].at
    BY <1>0, <2>2 DEF Work
  <2>3. GoesOn(w)
    BY <2>5, <2>6, <2>7 DEF GoesOn, Reading
  <2>4. (\A u \in Processes : GoesOn(u)) /\ RunsGoOn
    BY <1>9, <2>2, <2>3, SameRuns DEF LookUp, GoesOn
  <2>. QED
    BY <1>0, <1>9, <2>4 DEF LookUp, Kind, QuietStep
<1>10. CASE Begin(w)
  <2>1. worker[w].key \in Key
    BY <1>10 DEF Begin, ReadingsHaveKeys, Reading
  <2>2. RunsGoOn
    BY <1>10, SameRuns, OwnRun DEF Begin, Reading, Status
  <2>3. \/ worker' = [worker EXCEPT ![w].phase = "importing"]
        \/ worker' = [worker EXCEPT ![w].phase = "releasing"]
    BY <1>10 DEF Begin, Goes
  <2>4. \A u \in Processes \ {w} : worker'[u] = worker[u]
    BY <2>3 DEF TypeOK
  <2>5. GoesOn(w)
    BY <1>0, <1>10, <2>1, <2>3 DEF GoesOn, Begin, Reading, Work, TypeOK
  <2>. QED
    BY <1>0, <1>10, <2>2, <2>4, <2>5 DEF Begin, Kind, QuietStep, GoesOn
<1>11. CASE Import(w)
  <2>1. worker'[w] = [worker[w] EXCEPT !.phase = "written"] /\ \A u \in Processes \ {w} : worker'[u] = worker[u]
    BY <1>11 DEF Import, Goes, TypeOK
  <2>2. worker[w].version = source.version
    BY <1>11 DEF Import, Fenced, Owns, Holds
  <2>. QED
    BY <1>0, <1>11, <2>1, <2>2 DEF Import, Kind, WriteStep, Reading, Work
<1>12. CASE Complete(w)
  <2>1. worker[w].key \in Key /\ Imports(w)
    BY <1>12 DEF Complete, ReadingsHaveKeys
  <2>2. Exists(worker[w].key) /\ runs[worker[w].key].version \in written.claims
    BY <1>12, <2>1 DEF Complete, Imports, WritesAreClaims, Exists
  <2>3. RunsGoOn
    BY <1>12, <2>1, <2>2, NewStatus DEF Complete, Status
  <2>4. \A u \in Processes : GoesOn(u)
    BY <1>12, RestsGoesOn DEF Complete
  <2>5. source'.version = source.version /\ source'.chosen = source.chosen
    BY <1>12 DEF Complete, Released, TypeOK
  <2>. QED
    BY <1>0, <1>12, <2>3, <2>4, <2>5 DEF Complete, Kind, QuietStep
<1>13. CASE Fail(w)
  <2>1. worker[w].key \in Key
    BY <1>13 DEF Fail, ReadingsHaveKeys, Reading
  <2>2. RunsGoOn
    BY <1>13, <2>1, SameRuns, NewStatus DEF Fail, Fails, Imports, Exists, Status
  <2>3. \A u \in Processes : GoesOn(u)
    BY <1>13, RestsGoesOn, ReleasingGoesOn DEF Fail
  <2>. QED
    BY <1>0, <1>13, <2>2, <2>3 DEF Fail, Kind, QuietStep
<1>14. CASE Release(w)
  <2>1. \A u \in Processes : GoesOn(u)
    BY <1>14, RestsGoesOn DEF Release
  <2>2. source'.version = source.version /\ source'.chosen = source.chosen
    BY <1>14 DEF Release, Released, TypeOK
  <2>. QED
    BY <1>0, <1>14, <2>1, <2>2, SameRuns DEF Release, Kind, QuietStep
<1>. QED
    BY <1>1, <1>2, <1>4, <1>5, <1>6, <1>7, <1>8, <1>9, <1>10, <1>11, <1>12, <1>13, <1>14 DEF Sync

LEMMA PreviewKind ==
    ASSUME Bounds, IInv, NEW w \in Processes, NEW key \in Key, NEW automatic \in BOOLEAN,
           ClaimPreview(w, key, automatic)
    PROVE  ClaimStep(w)
<1>1. worker'[w] = [Idle EXCEPT !.phase = "importing", !.version = source.version + 1,
                                !.key = key, !.at = runs[key].at, !.automatic = automatic]
    BY DEF ClaimPreview, IInv, TypeOK
<1>2. \A u \in Processes \ {w} : worker'[u] = worker[u]
    BY DEF ClaimPreview, IInv, TypeOK
<1>3. source'.version = source.version + 1 /\ source'.chosen = source.chosen
    BY DEF ClaimPreview, Claimed, IInv, TypeOK
<1>4. runs'[key] = RunOf("PROCESSING", source.version + 1, runs[key].at) /\ \A k \in Key \ {key} : runs'[k] = runs[k]
    BY DEF ClaimPreview, RunIs, IInv, TypeOK
<1>5. Exists(key) /\ runs[key].version = source.version /\ worker[w].phase = "idle" /\ UNCHANGED <<sheet, written>>
    BY DEF ClaimPreview, Exists
<1>. QED
    BY <1>1, <1>2, <1>3, <1>4, <1>5 DEF ClaimStep, RunOf, Idle

\* So is a step of anybody else.
LEMMA OtherKind ==
    ASSUME Bounds, IInv, [Next]_vars
    PROVE  QuietStep \/ ConfigureStep \/ \E w \in Processes : Kind(w)
<1>. USE DEF IInv
<1>0. sheet.at <= sheet.at /\ sheet.at <= sheet.at + 1
    BY DEF TypeOK, Edits
<1>1. ASSUME NEW w \in Processes, Sync(w) PROVE Kind(w)
    BY <1>1, SyncKind
<1>2. ASSUME NEW w \in Processes, Crash(w) PROVE QuietStep
    BY <1>0, <1>2, RestsGoesOn, SameRuns DEF Crash, QuietStep
<1>3. ASSUME NEW w \in Processes, NEW key \in Key, Confirm(w, key) \/ AutoImport(w, key) PROVE Kind(w)
    BY <1>3, PreviewKind DEF Confirm, AutoImport, Kind
<1>4. ASSUME NEW key \in Key, TakeUp(key) PROVE QuietStep
  <2>1. RunsGoOn
    BY <1>4, NewStatus DEF TakeUp, Exists, Status
  <2>. QED
    BY <1>0, <1>4, <2>1 DEF TakeUp, QuietStep, GoesOn
<1>5. ASSUME NEW key \in Key, NEW sure \in BOOLEAN, Propose(key, sure) PROVE QuietStep
  <2>1. RunsGoOn
    BY <1>5, NewStatus DEF Propose, Exists, Status
  <2>. QED
    BY <1>0, <1>5, <2>1 DEF Propose, QuietStep, GoesOn
<1>6. ASSUME NEW key \in Key, UpdateMapping(key) PROVE QuietStep
  <2>. DEFINE new == <<key[1], mapping.version + 1>>
  <2>1. runs' = [runs EXCEPT ![key] = NoRun, ![new] = [runs[key] EXCEPT !.status = "PREVIEW_READY"]]
    BY <1>6 DEF UpdateMapping
  <2>2. ASSUME NEW k \in Key, k # new PROVE runs'[k] = runs[k] \/ Gone(k)
    BY <2>1, <2>2 DEF TypeOK, Gone, NoRun
  <2>3. ASSUME NEW k \in Key, k = new PROVE Kept(k)
    <3>1. runs'[k] = [runs[key] EXCEPT !.status = "PREVIEW_READY"] /\ runs[key] \in Run
        BY <2>1, <2>3 DEF TypeOK
    <3>2. Exists(key)
        BY <1>6 DEF UpdateMapping, Remappable, Exists
    <3>. QED
        BY <3>1, <3>2 DEF Kept, Run
  <2>4. RunsGoOn
    BY <2>2, <2>3 DEF RunsGoOn
  <2>. QED
    BY <1>0, <1>6, <2>4 DEF UpdateMapping, QuietStep, GoesOn
<1>7. ASSUME NEW key \in Key, Age(key) PROVE QuietStep
  <2>1. runs'[key] = [runs[key] EXCEPT !.old = TRUE] /\ \A k \in Key \ {key} : runs'[k] = runs[k]
    BY <1>7 DEF Age, TypeOK
  <2>2. Kept(key)
    BY <1>7, <2>1 DEF Kept, Age, Exists, TypeOK, Run
  <2>3. RunsGoOn
    BY <2>1, <2>2 DEF RunsGoOn
  <2>. QED
    BY <1>0, <1>7, <2>3 DEF Age, QuietStep, GoesOn
<1>8. ASSUME NEW c \in Contents, Configure(c) PROVE ConfigureStep
    BY <1>8 DEF Configure, ConfigureStep, TypeOK
<1>9. ASSUME NEW c \in Contents, Edit(c) PROVE QuietStep
    BY <1>0, <1>9, SameRuns DEF Edit, QuietStep, GoesOn
<1>10. CASE ExpireLease
    BY <1>0, <1>10, SameRuns DEF ExpireLease, QuietStep, GoesOn, TypeOK
<1>11. CASE Freeze
    BY <1>0, <1>11, SameRuns DEF Freeze, QuietStep, GoesOn
<1>12. CASE UNCHANGED vars
    BY <1>0, <1>12, SameRuns DEF vars, QuietStep, GoesOn
<1>. QED
    BY <1>1, <1>2, <1>3, <1>4, <1>5, <1>6, <1>7, <1>8, <1>9, <1>10, <1>11, <1>12 DEF Next
-----------------------------------------------------------------------------
(* Each kind of step preserves the invariant                                *)

LEMMA Numbers ==
    ASSUME Bounds, TypeOK
    PROVE  /\ {source.version, source.chosen, sheet.at, written.at} \subseteq Int
           /\ \A w \in Processes : worker[w].version \in Int /\ worker[w].at \in Int
           /\ \A key \in Key : runs[key].version \in Int /\ runs[key].at \in Int
           /\ \A v \in written.claims : v \in Int
           /\ 0 <= sheet.at
BY DEF Bounds, TypeOK, Work, Run, Versions, Edits

LEMMA QuietKeeps ==
    ASSUME Bounds, IInv, TypeOK', QuietStep
    PROVE  IInv'
<1>. USE Numbers DEF IInv
<1>0. sheet'.at \in Int
    BY DEF Bounds, TypeOK, Edits
<1>1. ASSUME NEW w \in Processes, worker'[w].phase # "idle"
      PROVE  worker[w].phase # "idle" /\ worker'[w].version = worker[w].version /\ worker'[w].at = worker[w].at
    BY <1>1 DEF QuietStep, GoesOn
<1>2. ASSUME NEW w \in Processes, worker'[w].phase \in Reading \cup {"claimed", "written"}
      PROVE  \/ worker'[w] = worker[w]
             \/ worker[w].phase \in Reading /\ worker'[w].phase \in Reading /\ worker'[w].key \in Key
    BY <1>2 DEF QuietStep, GoesOn, Reading
<1>3. \A w \in Processes : worker'[w].phase \in Reading => worker[w].phase \in Reading
    BY <1>2
\* A run has the version and the reading of a run or of a process that was.
<1>4. ASSUME NEW key \in Key, Exists(key)'
      PROVE  \/ \E k \in Key : /\ Exists(k)
                               /\ runs'[key].version = runs[k].version /\ runs'[key].at = runs[k].at
             \/ \E w \in Processes : BecomesOf(key, w)
    BY <1>4 DEF QuietStep, RunsGoOn, Kept, Gone, Exists
<1>5. ReadingsHaveKeys'
    BY <1>2 DEF ReadingsHaveKeys, Reading
<1>6. ClaimsAreOnes'
  <2>1. \A key \in Key : Exists(key)' => runs'[key].version <= source.version
    BY <1>4 DEF BecomesOf, ClaimsAreOnes, Reading
  <2>. QED
    BY <1>1, <2>1 DEF ClaimsAreOnes, QuietStep
<1>7. WritesAreClaims'
  <2>1. ASSUME NEW w \in Processes, worker'[w].phase \in Reading \cup {"claimed"}
        PROVE  worker'[w].version \notin written.claims
    BY <1>1, <1>2, <2>1 DEF WritesAreClaims, Reading
  <2>2. ASSUME NEW w \in Processes, worker'[w].phase = "written"
        PROVE  worker'[w].version \in written.claims
    BY <1>2, <2>2 DEF WritesAreClaims, Reading
  <2>. QED
    BY <2>1, <2>2 DEF WritesAreClaims, QuietStep
<1>8. RunsHaveReading'
  <2>. SUFFICES ASSUME NEW w \in Processes, NEW key \in Key,
                       worker'[w].phase # "idle", Exists(key)', runs'[key].version = worker'[w].version
                PROVE  worker'[w].phase # "claimed" /\ runs'[key].at = worker'[w].at
    BY DEF RunsHaveReading
  <2>1. worker[w].phase # "claimed" /\ runs'[key].at = worker[w].at
    <3>1. ASSUME NEW k \in Key, Exists(k), runs'[key].version = runs[k].version, runs'[key].at = runs[k].at
          PROVE  worker[w].phase # "claimed" /\ runs'[key].at = worker[w].at
        BY <1>1, <3>1 DEF RunsHaveReading
    <3>2. ASSUME NEW u \in Processes, BecomesOf(key, u)
          PROVE  worker[w].phase # "claimed" /\ runs'[key].at = worker[w].at
        BY <1>1, <3>2 DEF BecomesOf, ClaimsAreOnes, Reading
    <3>. QED
        BY <1>4, <3>1, <3>2
  <2>. QED
    BY <1>1, <1>2, <2>1 DEF Reading
<1>9. ReadingsAreCurrent'
  <2>1. source'.version = source.version /\ \A at \in Int : Current(at)' <=> Current(at)
    BY DEF QuietStep, Current
  <2>2. Current(sheet'.at)
    BY <1>0 DEF QuietStep, ReadingsAreCurrent, Current
  <2>3. ASSUME NEW w \in Processes, worker'[w].phase \in Reading, worker'[w].version = source.version
        PROVE  Current(worker'[w].at)
    BY <1>1, <1>3, <2>3 DEF ReadingsAreCurrent, Reading
  <2>4. ASSUME NEW key \in Key, Exists(key)', runs'[key].version = source.version
        PROVE  Current(runs'[key].at)
    BY <1>4, <2>4 DEF ReadingsAreCurrent, BecomesOf
  <2>. QED
    BY <2>1, <2>2, <2>3, <2>4 DEF ReadingsAreCurrent, Current, QuietStep
<1>10. ReadingsArePast'
  <2>1. ASSUME NEW w \in Processes PROVE worker'[w].at \in Int /\ worker'[w].at <= sheet.at
    BY DEF QuietStep, GoesOn, ReadingsArePast
  <2>2. ASSUME NEW key \in Key PROVE runs'[key].at \in Int /\ runs'[key].at <= sheet.at
    BY DEF QuietStep, RunsGoOn, Gone, Kept, BecomesOf, ReadingsArePast
  <2>. QED
    BY <1>0, <2>1, <2>2 DEF QuietStep, ReadingsArePast
<1>11. CompletedIsWritten'
  <2>. SUFFICES ASSUME NEW key \in Key, runs'[key].status = "COMPLETED"
                PROVE  runs'[key].version \in written.claims
    BY DEF CompletedIsWritten, QuietStep
  <2>. QED
    BY DEF QuietStep, RunsGoOn, Gone, Kept, BecomesOf, CompletedIsWritten
<1>. QED
    BY <1>5, <1>6, <1>7, <1>8, <1>9, <1>10, <1>11

LEMMA ClaimKeeps ==
    ASSUME Bounds, IInv, TypeOK', NEW w \in Processes, ClaimStep(w)
    PROVE  IInv'
<1>. USE Numbers DEF IInv
<1>. DEFINE v == source.version + 1
<1>1. /\ source'.version = v /\ source'.chosen = source.chosen
      /\ sheet' = sheet /\ written' = written
      /\ \A u \in Processes \ {w} : worker'[u] = worker[u]
      /\ worker'[w].version = v /\ worker'[w].phase \in {"claimed", "importing"}
      /\ worker'[w].phase = "importing" => worker'[w].key \in Key
    BY DEF ClaimStep
\* What a run is after the step: the claimed one has the claim's version.
<1>2. ASSUME NEW key \in Key
      PROVE  \/ runs'[key] = runs[key]
             \/ /\ worker'[w].phase = "importing" /\ worker'[w].at = runs[key].at
                /\ Exists(key) /\ runs[key].version = source.version
                /\ runs'[key].status = "PROCESSING" /\ runs'[key].version = v /\ runs'[key].at = runs[key].at
    BY DEF ClaimStep
<1>3. \/ worker'[w].phase = "claimed" /\ worker'[w].at = 0
      \/ \E key \in Key : Exists(key) /\ runs[key].version = source.version /\ worker'[w].at = runs[key].at
    BY DEF ClaimStep
<1>4. /\ \A u \in Processes : worker[u].phase # "idle" => worker[u].version < v
      /\ \A key \in Key : Exists(key) => runs[key].version < v
      /\ \A c \in written.claims : c < v
    BY DEF ClaimsAreOnes, WritesAreClaims
<1>5. ReadingsHaveKeys'
    BY <1>1 DEF ReadingsHaveKeys, Reading
<1>6. ClaimsAreOnes'
  <2>1. \A key \in Key : Exists(key)' => runs'[key].version <= v
    BY <1>2, <1>4 DEF Exists
  <2>2. \A u \in Processes : worker'[u].phase # "idle" => worker'[u].version <= v
    BY <1>1, <1>4
  <2>3. \A u \in Processes \ {w} : worker'[u].phase # "idle" => worker'[u].version # v
    BY <1>1, <1>4
  <2>. QED
    BY <1>1, <2>1, <2>2, <2>3 DEF ClaimsAreOnes
<1>7. WritesAreClaims'
    BY <1>1, <1>4 DEF WritesAreClaims, Reading
<1>8. RunsHaveReading'
  <2>. SUFFICES ASSUME NEW u \in Processes, NEW key \in Key,
                       worker'[u].phase # "idle", Exists(key)', runs'[key].version = worker'[u].version
                PROVE  worker'[u].phase # "claimed" /\ runs'[key].at = worker'[u].at
    BY DEF RunsHaveReading
  <2>1. CASE u = w
    BY <1>1, <1>2, <1>4, <2>1 DEF Exists
  <2>2. CASE u # w
    BY <1>1, <1>2, <1>4, <2>2 DEF Exists, RunsHaveReading
  <2>. QED
    BY <2>1, <2>2
<1>9. ReadingsAreCurrent'
  <2>1. Current(sheet.at)
    BY DEF ReadingsAreCurrent
  <2>2. ASSUME NEW u \in Processes, worker'[u].phase \in Reading, worker'[u].version = v
        PROVE  Current(worker'[u].at)
    BY <1>1, <1>3, <1>4, <2>2 DEF ReadingsAreCurrent, Reading
  <2>3. ASSUME NEW key \in Key, Exists(key)', runs'[key].version = v
        PROVE  Current(runs'[key].at)
    BY <1>2, <1>4, <2>3 DEF ReadingsAreCurrent, Exists
  <2>. QED
    BY <1>1, <2>1, <2>2, <2>3 DEF ReadingsAreCurrent, Current
<1>10. ReadingsArePast'
  <2>1. worker'[w].at <= sheet.at
    BY <1>3 DEF ReadingsArePast
  <2>2. \A key \in Key : runs'[key].at = runs[key].at
    BY <1>2
  <2>. QED
    BY <1>1, <2>1, <2>2 DEF ReadingsArePast
<1>11. CompletedIsWritten'
    BY <1>1, <1>2 DEF CompletedIsWritten
<1>. QED
    BY <1>5, <1>6, <1>7, <1>8, <1>9, <1>10, <1>11

LEMMA ReadKeeps ==
    ASSUME Bounds, IInv, TypeOK', NEW w \in Processes, ReadStep(w)
    PROVE  IInv'
<1>. USE Numbers DEF IInv, ReadStep
<1>1. ReadingsHaveKeys'
    BY DEF ReadingsHaveKeys, Reading
<1>2. ClaimsAreOnes'
    BY DEF ClaimsAreOnes, Exists, Reading
<1>3. WritesAreClaims'
    BY DEF WritesAreClaims, Reading
<1>4. RunsHaveReading'
    BY DEF RunsHaveReading, Exists, Reading
<1>5. ReadingsAreCurrent'
    BY DEF ReadingsAreCurrent, Current, Exists, Reading
<1>6. ReadingsArePast'
    BY DEF ReadingsArePast
<1>7. CompletedIsWritten'
    BY DEF CompletedIsWritten
<1>. QED
    BY <1>1, <1>2, <1>3, <1>4, <1>5, <1>6, <1>7

\* Nobody else has the latest claim, and the runs that have it have its reading.
LEMMA WriteKeeps ==
    ASSUME Bounds, IInv, TypeOK', NEW w \in Processes, WriteStep(w)
    PROVE  IInv'
<1>. USE Numbers DEF IInv
<1>0. /\ UNCHANGED <<source, sheet, runs>>
      /\ written'.claims = written.claims \cup {worker[w].version} /\ written'.at = worker[w].at
      /\ \A u \in Processes \ {w} : worker'[u] = worker[u]
      /\ worker'[w].phase = "written" /\ worker'[w].key = worker[w].key
      /\ worker'[w].version = worker[w].version /\ worker'[w].at = worker[w].at
      /\ worker[w].phase \in Reading /\ worker[w].phase # "idle"
      /\ worker[w].version = source.version
    BY DEF WriteStep, Reading
<1>1. ReadingsHaveKeys'
    BY <1>0 DEF ReadingsHaveKeys
<1>2. ClaimsAreOnes'
    BY <1>0 DEF ClaimsAreOnes, Exists
<1>3. \A u \in Processes \ {w} : worker[u].phase # "idle" => worker[u].version # source.version
    BY <1>0 DEF ClaimsAreOnes
<1>4. WritesAreClaims'
    BY <1>0, <1>3 DEF WritesAreClaims, Reading
<1>5. RunsHaveReading'
    BY <1>0 DEF RunsHaveReading, Exists, Reading
<1>6. ReadingsAreCurrent'
  <2>1. Current(worker[w].at) /\ worker[w].at <= sheet.at
    BY <1>0 DEF ReadingsAreCurrent, ReadingsArePast
  <2>2. \A u \in Processes : worker'[u].phase \in Reading => worker'[u].version # source.version
    BY <1>0, <1>3 DEF Reading
  <2>3. \A key \in Key : (Exists(key) /\ runs[key].version = source.version) => runs[key].at = worker[w].at
    BY <1>0 DEF RunsHaveReading
  <2>. QED
    BY <1>0, <2>1, <2>2, <2>3 DEF ReadingsAreCurrent, Current, Exists
<1>7. ReadingsArePast'
    BY <1>0 DEF ReadingsArePast
<1>8. CompletedIsWritten'
    BY <1>0 DEF CompletedIsWritten
<1>. QED
    BY <1>1, <1>2, <1>4, <1>5, <1>6, <1>7, <1>8

LEMMA ConfigureKeeps ==
    ASSUME Bounds, IInv, TypeOK', ConfigureStep
    PROVE  IInv'
<1>. USE Numbers DEF IInv, ConfigureStep
<1>1. ReadingsHaveKeys'
    BY DEF ReadingsHaveKeys
<1>2. ClaimsAreOnes'
    BY DEF ClaimsAreOnes, Exists
<1>3. WritesAreClaims'
    BY DEF WritesAreClaims
<1>4. RunsHaveReading'
    BY DEF RunsHaveReading, Exists
<1>5. ReadingsAreCurrent'
  <2>1. \A w \in Processes : worker[w].phase \in Reading => worker[w].version # source.version + 1
    BY DEF ClaimsAreOnes, Reading
  <2>2. \A key \in Key : Exists(key) => runs[key].version # source.version + 1
    BY DEF ClaimsAreOnes
  <2>. QED
    BY <2>1, <2>2 DEF ReadingsAreCurrent, Current, Exists
<1>6. ReadingsArePast'
    BY DEF ReadingsArePast
<1>7. CompletedIsWritten'
    BY DEF CompletedIsWritten
<1>. QED
    BY <1>1, <1>2, <1>3, <1>4, <1>5, <1>6, <1>7

LEMMA Inductive == ASSUME Bounds, IInv, [Next]_vars PROVE IInv'
<1>1. TypeOK'
    BY TypeStep DEF IInv
<1>2. QuietStep \/ ConfigureStep \/ \E w \in Processes : Kind(w)
    BY OtherKind
<1>. QED
    BY <1>1, <1>2, QuietKeeps, ConfigureKeeps, ClaimKeeps, ReadKeeps, WriteKeeps DEF Kind

-----------------------------------------------------------------------------
(* The theorems                                                             *)

LEMMA Invariant == ASSUME Bounds PROVE Spec => []IInv
<1>1. Init => IInv
    BY Initially
<1>2. IInv /\ [Next]_vars => IInv'
    BY Inductive
<1>. QED
    BY <1>1, <1>2, PTL DEF Spec

\* The source, the runs and the claims have their types: no claim, however
\* interrupted, leaves a value that the tables of the schema would refuse.
THEOREM TypeCorrect == ASSUME Bounds PROVE Spec => []TypeOK
<1>1. IInv => TypeOK
    BY DEF IInv
<1>. QED
    BY <1>1, Invariant, PTL

\* A run that is COMPLETED (importCatalogueTable, then the run's completion) is
\* of a claim that wrote the products, whatever crashed or expired in between.
THEOREM CompletedRunsWereWritten == ASSUME Bounds PROVE Spec => []CompletedIsWritten
<1>1. IInv => CompletedIsWritten
    BY DEF IInv
<1>. QED
    BY <1>1, Invariant, PTL

LEMMA Forward == ASSUME Bounds, IInv, [Next]_vars PROVE [WritesGoForward]_vars
<1>. USE Numbers DEF IInv
<1>. SUFFICES WritesGoForward
    OBVIOUS
<1>1. ASSUME UNCHANGED written PROVE WritesGoForward
    BY <1>1 DEF WritesGoForward
<1>2. ASSUME NEW w \in Processes, WriteStep(w) PROVE WritesGoForward
  <2>1. /\ written'.claims = written.claims \cup {worker[w].version} /\ written'.at = worker[w].at
        /\ worker[w].phase \in Reading /\ worker[w].version = source.version
    BY <1>2 DEF WriteStep
  <2>2. Current(worker[w].at)
    BY <2>1 DEF ReadingsAreCurrent
  <2>3. \A u \in written.claims : u <= worker[w].version /\ u # worker[w].version
    BY <2>1 DEF WritesAreClaims
  <2>. QED
    BY <2>1, <2>2, <2>3 DEF WritesGoForward, Current
<1>3. QuietStep \/ ConfigureStep \/ \E w \in Processes : Kind(w)
    BY OtherKind
<1>. QED
    BY <1>1, <1>2, <1>3 DEF Kind, QuietStep, ClaimStep, ReadStep, ConfigureStep

\* The fence of importCatalogueTable: the products follow the sheet forwards
\* only, by a later claim with a reading no older and of the chosen sheet.
THEOREM ProductsGoForward == ASSUME Bounds PROVE Spec => [][WritesGoForward]_vars
<1>1. IInv /\ [Next]_vars => [WritesGoForward]_vars
    BY Forward
<1>. QED
    BY <1>1, Invariant, PTL DEF Spec

-----------------------------------------------------------------------------
(***************************************************************************)
(* The import of a catalogue from an uploaded file: proofs about           *)
(* CatalogueImport, for all workers, owners, mappings, crashes, lost       *)
(* leases and freezes.                                                     *)
(***************************************************************************)
CONSTANTS
    Workers,  \* worker processes
    Owners    \* requests of the tenant's owners to confirm the import

\* CatalogueImport's workers are named apart from the sheet's.
VARIABLES run, mappings, owned, importers, confirming, applied, outrun

File == INSTANCE CatalogueImport WITH worker <- importers

\* The bound on mappings is a number.
ImportBounds == MaxMappings \in Nat

\* Who has claimed a run to write its products, and has not ended it.
Importing(w) == importers[w].phase \in {"importing", "written"}
Confirming(o) == confirming[o] \in {"importing", "written"}

\* A run that is not mapped yet names no mapping.
UnmappedNamesNone == File!Unmapped => run.mapping = 0

\* A run is begun by one, worker or owner, and is PROCESSING until that one
\* ends it; products are written by the one who has begun.
BegunByOne ==
    /\ \A w, u \in Workers : Importing(w) /\ Importing(u) => w = u
    /\ \A o, p \in Owners : Confirming(o) /\ Confirming(p) => o = p
    /\ \A w \in Workers, o \in Owners : ~(Importing(w) /\ Confirming(o))
BegunIsProcessing ==
    /\ \A w \in Workers : Importing(w) => run.status = "PROCESSING"
    /\ \A o \in Owners : Confirming(o) => run.status = "PROCESSING"
WrittenByBeginner ==
    /\ run.status \notin {"PROCESSING", "COMPLETED", "FAILED"} => applied = <<>>
    /\ \A w \in Workers : importers[w].phase = "importing" => applied = <<>>
    /\ \A w \in Workers : importers[w].phase = "written" => applied # <<>>
    /\ \A o \in Owners : confirming[o] = "importing" => applied = <<>>
    /\ \A o \in Owners : confirming[o] = "written" => applied # <<>>

\* What the automatic import has read is the run's mapping, unless outrun.
ReadIsMapping ==
    \A w \in Workers : importers[w].phase = "read" \/ Importing(w) =>
        ~File!Unmapped /\ (importers[w].mapping = run.mapping \/ outrun)

ImportIInv ==
    /\ File!TypeOK
    /\ UnmappedNamesNone
    /\ BegunByOne
    /\ BegunIsProcessing
    /\ WrittenByBeginner
    /\ ReadIsMapping
    /\ File!ImportFollowsMapping

-----------------------------------------------------------------------------
(* Lemmas                                                                   *)

LEMMA ImportIdleIsWork ==
    ASSUME ImportBounds
    PROVE  File!Idle \in File!Work /\ File!Idle.phase = "idle" /\ File!Idle.lease = 0 /\ File!Idle.mapping = 0
<1>1. 0 \in File!Versions /\ 0 \in Nat
   BY DEF ImportBounds, File!Versions
<1>. QED BY <1>1 DEF File!Idle, File!Work, File!Phase

\* What a worker holds when it takes something else in hand.
LEMMA ImportWorkersHolding ==
    ASSUME importers \in [Workers -> File!Work], NEW w \in Workers, NEW x \in File!Work,
           importers' = [importers EXCEPT ![w] = x]
    PROVE  /\ importers' \in [Workers -> File!Work] /\ importers'[w] = x
           /\ \A u \in Workers : u # w => importers'[u] = importers[u]
OBVIOUS

LEMMA ImportGoing ==
    ASSUME importers \in [Workers -> File!Work], NEW w \in Workers, NEW phase \in File!Phase, File!Goes(w, phase)
    PROVE  /\ importers' \in [Workers -> File!Work]
           /\ importers'[w].phase = phase /\ importers'[w].mapping = importers[w].mapping
           /\ \A u \in Workers : u # w => importers'[u] = importers[u]
<1>1. PICK x : x = [importers[w] EXCEPT !.phase = phase]
   OBVIOUS
<1>2. x \in File!Work /\ x.phase = phase /\ x.mapping = importers[w].mapping
   BY <1>1 DEF File!Work
<1>3. importers' = [importers EXCEPT ![w] = x]
   BY <1>1 DEF File!Goes
<1>. QED BY <1>2, <1>3, ImportWorkersHolding

LEMMA ImportResting ==
    ASSUME ImportBounds, importers \in [Workers -> File!Work], NEW w \in Workers, File!Rests(w)
    PROVE  /\ importers' \in [Workers -> File!Work] /\ importers'[w].phase = "idle"
           /\ \A u \in Workers : u # w => importers'[u] = importers[u]
BY ImportIdleIsWork, ImportWorkersHolding DEF File!Rests

LEMMA ImportReleasing ==
    ASSUME run \in File!Run, NEW status \in File!Status, NEW m \in File!Versions, run' = File!Released(status, m)
    PROVE  run' \in File!Run /\ run'.status = status /\ run'.mapping = m
BY DEF File!Released, File!Run

LEMMA ImportEnding ==
    ASSUME run \in File!Run, NEW status \in File!Status, run' = File!Ended(status), run.status = "PROCESSING"
    PROVE  run' \in File!Run /\ run'.status = status /\ run'.mapping = run.mapping
BY DEF File!Ended, File!Run

LEMMA ImportOneWritten ==
    ASSUME NEW m \in File!Versions, applied = <<>>, applied' = Append(applied, m)
    PROVE  applied' \in Seq(File!Versions) /\ applied' # <<>> /\ Len(applied') = 1 /\ DOMAIN applied' = {1} /\ applied'[1] = m
<1>1. applied' = <<m>>
   OBVIOUS
<1>. QED BY <1>1

\* A step with which nobody begins to write, reads a mapping or ends.
LEMMA NobodyBegins ==
    ASSUME ImportIInv, UNCHANGED <<applied, outrun>>,
           \A u \in Workers : importers'[u].phase \in {"read", "importing", "written"} => importers'[u] = importers[u],
           \A o \in Owners : confirming'[o] \in {"importing", "written"} => confirming'[o] = confirming[o],
           \/ run'.status = run.status
           \/ File!Unmapped /\ run'.status \notin {"PROCESSING", "COMPLETED", "FAILED"},
           run'.mapping = run.mapping \/ (File!Unmapped /\ ~File!Unmapped')
    PROVE  (UnmappedNamesNone /\ BegunByOne /\ BegunIsProcessing /\ WrittenByBeginner /\ ReadIsMapping
                /\ File!ImportFollowsMapping)'
<1>1. UnmappedNamesNone'
   BY DEF ImportIInv, UnmappedNamesNone, File!Unmapped
<1>2. BegunByOne'
   BY DEF ImportIInv, BegunByOne, Importing, Confirming
<1>3. BegunIsProcessing'
   BY DEF ImportIInv, BegunIsProcessing, Importing, Confirming, File!Unmapped
<1>4. WrittenByBeginner'
   BY DEF ImportIInv, WrittenByBeginner, File!Unmapped
<1>5. ReadIsMapping'
   <2>. SUFFICES ASSUME NEW u \in Workers, importers'[u].phase \in {"read", "importing", "written"}
                 PROVE  ~File!Unmapped' /\ (importers'[u].mapping = run'.mapping \/ outrun')
      BY DEF ReadIsMapping, Importing
   <2>1. ~File!Unmapped /\ (importers[u].mapping = run.mapping \/ outrun)
      BY DEF ImportIInv, ReadIsMapping, Importing
   <2>. QED BY <2>1 DEF File!Unmapped
<1>6. File!ImportFollowsMapping'
   <2>1. File!Unmapped => applied = <<>>
      BY DEF ImportIInv, WrittenByBeginner, File!Unmapped
   <2>2. File!WrittenOnce' /\ (run'.status = "COMPLETED" => applied' # <<>>)
      BY <2>1 DEF ImportIInv, File!ImportFollowsMapping, File!WrittenOnce, File!Unmapped
   <2>3. \A i \in DOMAIN applied' : applied'[i] = run'.mapping \/ outrun'
      <3>1. CASE File!Unmapped
         BY <2>1, <3>1
      <3>2. CASE ~File!Unmapped
         BY <3>2 DEF ImportIInv, File!ImportFollowsMapping
      <3>. QED BY <3>1, <3>2
   <2>. QED BY <2>2, <2>3 DEF File!ImportFollowsMapping
<1>. QED BY <1>1, <1>2, <1>3, <1>4, <1>5, <1>6

\* The one who has begun ends the run, COMPLETED if the products are written.
LEMMA TheBeginnerEnds ==
    ASSUME ImportIInv, UNCHANGED <<applied, outrun>>,
           \A u \in Workers : ~Importing(u)' /\ (importers'[u].phase = "read" => importers'[u] = importers[u]),
           \A o \in Owners : ~Confirming(o)',
           run'.mapping = run.mapping, run.status = "PROCESSING",
           \/ run'.status = "COMPLETED" /\ applied # <<>>
           \/ run'.status = "FAILED"
    PROVE  (UnmappedNamesNone /\ BegunByOne /\ BegunIsProcessing /\ WrittenByBeginner /\ ReadIsMapping
                /\ File!ImportFollowsMapping)'
<1>1. UnmappedNamesNone'
   BY DEF ImportIInv, UnmappedNamesNone, File!Unmapped
<1>2. BegunByOne' /\ BegunIsProcessing'
   BY DEF BegunByOne, BegunIsProcessing
<1>3. WrittenByBeginner'
   BY DEF WrittenByBeginner, Importing, Confirming
<1>4. ReadIsMapping'
   BY DEF ImportIInv, ReadIsMapping, File!Unmapped
<1>5. File!ImportFollowsMapping'
   BY DEF ImportIInv, File!ImportFollowsMapping, File!WrittenOnce
<1>. QED BY <1>1, <1>2, <1>3, <1>4, <1>5

\* While one imports, nobody else does.
LEMMA WorkerImportsAlone ==
    ASSUME ImportIInv, NEW w \in Workers, Importing(w)
    PROVE  /\ run.status = "PROCESSING"
           /\ \A u \in Workers : u # w => ~Importing(u)
           /\ \A o \in Owners : ~Confirming(o)
BY DEF ImportIInv, BegunByOne, BegunIsProcessing

LEMMA OwnerImportsAlone ==
    ASSUME ImportIInv, NEW o \in Owners, Confirming(o)
    PROVE  /\ run.status = "PROCESSING"
           /\ \A p \in Owners : p # o => ~Confirming(p)
           /\ \A w \in Workers : ~Importing(w)
BY DEF ImportIInv, BegunByOne, BegunIsProcessing

-----------------------------------------------------------------------------
(* Every step keeps the inductive invariant                                 *)

LEMMA ImportClaimKeeps ==
    ASSUME ImportBounds, ImportIInv, NEW w \in Workers, File!Claim(w)
    PROVE  ImportIInv'
<1>1. File!TypeOK
   BY DEF ImportIInv
<1>2. PICK x : x = [File!Idle EXCEPT !.phase = "claimed", !.lease = run.claims + 1]
   OBVIOUS
<1>3. x \in File!Work /\ x.phase = "claimed"
   <2>1. run.claims + 1 \in Nat
      BY <1>1 DEF File!TypeOK, File!Run
   <2>2. File!Idle \in [phase : File!Phase, lease : Nat, mapping : File!Versions]
      BY ImportIdleIsWork DEF File!Work
   <2>3. "claimed" \in File!Phase
      BY DEF File!Phase
   <2>. QED BY <1>2, <2>1, <2>2, <2>3 DEF File!Work
<1>4. /\ importers' \in [Workers -> File!Work] /\ importers'[w].phase = "claimed"
      /\ \A u \in Workers : u # w => importers'[u] = importers[u]
   BY <1>1, <1>2, <1>3, ImportWorkersHolding DEF File!TypeOK, File!Claim
<1>5. run' \in File!Run /\ run'.status = "MAPPING" /\ run'.mapping = run.mapping /\ File!Unmapped
   <2>1. run.claims + 1 \in Nat /\ run.status \in File!Status /\ run.mapping \in File!Versions
      BY <1>1 DEF File!TypeOK, File!Run
   <2>2. run' = [run EXCEPT !.status = "MAPPING", !.claims = run.claims + 1, !.lease = run.claims + 1,
                            !.expired = FALSE]
      BY <1>1 DEF File!Claim, File!TypeOK, File!Run
   <2>3. run' \in File!Run /\ run'.status = "MAPPING" /\ run'.mapping = run.mapping
      BY <1>1, <2>1, <2>2 DEF File!TypeOK, File!Run, File!Status
   <2>. QED BY <2>3 DEF File!Claim, File!Due, File!Unmapped
<1>6. UNCHANGED <<mappings, owned, confirming, File!outside, File!ghosts>>
   BY DEF File!Claim
<1>7. File!TypeOK'
   BY <1>1, <1>4, <1>5, <1>6 DEF File!TypeOK, File!outside, File!ghosts
<1>. QED BY <1>4, <1>5, <1>6, <1>7, NobodyBegins DEF ImportIInv, File!ghosts

LEMMA ImportCancelFrozenKeeps ==
    ASSUME ImportBounds, ImportIInv, NEW w \in Workers, File!CancelFrozen(w)
    PROVE  ImportIInv'
<1>1. File!TypeOK
   BY DEF ImportIInv
<1>2. run' \in File!Run /\ run'.status = "CANCELLED" /\ run'.mapping = run.mapping /\ File!Unmapped
   BY <1>1, ImportReleasing DEF File!TypeOK, File!Run, File!Status, File!CancelFrozen, File!Unmapped
<1>3. UNCHANGED <<mappings, owned, importers, confirming, File!outside, File!ghosts>>
   BY DEF File!CancelFrozen
<1>4. File!TypeOK'
   BY <1>1, <1>2, <1>3 DEF File!TypeOK, File!outside, File!ghosts
<1>. QED BY <1>2, <1>3, <1>4, NobodyBegins DEF ImportIInv, File!ghosts

LEMMA ImportAskKeeps ==
    ASSUME ImportBounds, ImportIInv, NEW w \in Workers, File!Ask(w)
    PROVE  ImportIInv'
<1>1. File!TypeOK
   BY DEF ImportIInv
<1>2. /\ importers' \in [Workers -> File!Work] /\ importers'[w].phase \in {"asked", "idle"}
      /\ \A u \in Workers : u # w => importers'[u] = importers[u]
   BY <1>1, ImportGoing, ImportResting DEF File!TypeOK, File!Ask, File!Phase
<1>3. run' \in File!Run /\ run'.mapping = run.mapping
   BY <1>1, ImportReleasing DEF File!TypeOK, File!Run, File!Status, File!Ask
<1>4. run'.status = run.status \/ (File!Unmapped /\ run'.status = "CANCELLED")
   BY <1>1, ImportReleasing DEF File!TypeOK, File!Run, File!Status, File!Ask, File!Owns, File!Unmapped
<1>5. UNCHANGED <<mappings, owned, confirming, File!outside, File!ghosts>>
   BY DEF File!Ask
<1>6. File!TypeOK'
   BY <1>1, <1>2, <1>3, <1>5 DEF File!TypeOK, File!outside, File!ghosts
<1>. QED BY <1>2, <1>3, <1>4, <1>5, <1>6, NobodyBegins DEF ImportIInv, File!ghosts

LEMMA ImportMappingFailsKeeps ==
    ASSUME ImportBounds, ImportIInv, NEW w \in Workers, File!MappingFails(w)
    PROVE  ImportIInv'
<1>1. File!TypeOK
   BY DEF ImportIInv
<1>2. /\ importers' \in [Workers -> File!Work] /\ importers'[w].phase = "idle"
      /\ \A u \in Workers : u # w => importers'[u] = importers[u]
   BY <1>1, ImportResting DEF File!TypeOK, File!MappingFails
<1>3. File!Unmapped /\ run.mapping = 0
   BY DEF File!MappingFails, File!Owns, File!Unmapped, ImportIInv, UnmappedNamesNone
<1>4. 0 \in File!Versions
   BY DEF ImportBounds, File!Versions
<1>5. run' \in File!Run /\ run'.status = "MAPPING_REVIEW" /\ run'.mapping = 0
   BY <1>1, <1>4, ImportReleasing DEF File!TypeOK, File!Status, File!MappingFails
<1>6. UNCHANGED <<mappings, owned, confirming, File!outside, File!ghosts>>
   BY DEF File!MappingFails
<1>7. File!TypeOK'
   BY <1>1, <1>2, <1>5, <1>6 DEF File!TypeOK, File!outside, File!ghosts
<1>. QED BY <1>2, <1>3, <1>5, <1>6, <1>7, NobodyBegins DEF ImportIInv, File!ghosts

LEMMA ImportPersistKeeps ==
    ASSUME ImportBounds, ImportIInv, NEW w \in Workers, NEW sure \in BOOLEAN, File!Persist(w, sure)
    PROVE  ImportIInv'
<1>1. File!TypeOK
   BY DEF ImportIInv
<1>2. /\ importers' \in [Workers -> File!Work] /\ importers'[w].phase \in {"mapped", "idle"}
      /\ \A u \in Workers : u # w => importers'[u] = importers[u]
   BY <1>1, ImportGoing, ImportResting DEF File!TypeOK, File!Persist, File!Phase
<1>3. UNCHANGED <<owned, confirming, File!outside, File!ghosts>>
   BY DEF File!Persist
<1>4. CASE File!Owns(w)
   <2>1. mappings + 1 \in File!Versions /\ mappings' = mappings + 1
      BY <1>1, <1>4 DEF File!TypeOK, ImportBounds, File!Versions, File!Persist
   <2>2. run' = File!Released(IF sure THEN "PREVIEW_READY" ELSE "MAPPING_REVIEW", mappings + 1)
      BY <1>4 DEF File!Persist
   <2>3. run' \in File!Run /\ run'.status \in {"PREVIEW_READY", "MAPPING_REVIEW"}
      <3>1. CASE sure
         BY <1>1, <2>1, <2>2, <3>1, ImportReleasing DEF File!TypeOK, File!Status
      <3>2. CASE ~sure
         BY <1>1, <2>1, <2>2, <3>2, ImportReleasing DEF File!TypeOK, File!Status
      <3>. QED BY <3>1, <3>2
   <2>4. File!Unmapped /\ ~File!Unmapped'
      BY <1>4, <2>3 DEF File!Owns, File!Unmapped
   <2>5. owned' \subseteq 1..mappings'
      BY <1>1, <1>3, <2>1 DEF File!TypeOK, File!Versions, ImportBounds
   <2>6. File!TypeOK'
      BY <1>1, <1>2, <1>3, <2>1, <2>3, <2>5 DEF File!TypeOK, File!outside, File!ghosts
   <2>. QED BY <1>2, <1>3, <2>3, <2>4, <2>6, NobodyBegins DEF ImportIInv, File!ghosts
<1>5. CASE ~File!Owns(w)
   <2>1. UNCHANGED <<mappings, run>>
      BY <1>5 DEF File!Persist
   <2>2. File!TypeOK'
      BY <1>1, <1>2, <1>3, <2>1 DEF File!TypeOK, File!outside, File!ghosts
   <2>. QED BY <1>2, <1>3, <2>1, <2>2, NobodyBegins DEF ImportIInv, File!ghosts
<1>. QED BY <1>4, <1>5

LEMMA ImportAutoReadKeeps ==
    ASSUME ImportBounds, ImportIInv, NEW w \in Workers, File!AutoRead(w)
    PROVE  ImportIInv'
<1>1. File!TypeOK
   BY DEF ImportIInv
<1>2. UNCHANGED <<run, mappings, owned, confirming, File!outside, File!ghosts>>
   BY DEF File!AutoRead
<1>3. CASE File!Rests(w)
   <2>1. /\ importers' \in [Workers -> File!Work] /\ importers'[w].phase = "idle"
         /\ \A u \in Workers : u # w => importers'[u] = importers[u]
      BY <1>1, <1>3, ImportResting DEF File!TypeOK
   <2>2. File!TypeOK'
      BY <1>1, <1>2, <2>1 DEF File!TypeOK, File!outside, File!ghosts
   <2>. QED BY <1>2, <2>1, <2>2, NobodyBegins DEF ImportIInv, File!ghosts
<1>4. CASE ~File!Rests(w)
   <2>1. run.status = "PREVIEW_READY"
      BY <1>4 DEF File!AutoRead
   <2>2. PICK x : x = [importers[w] EXCEPT !.phase = "read", !.mapping = run.mapping]
      OBVIOUS
   <2>3. x \in File!Work /\ x.phase = "read" /\ x.mapping = run.mapping
      <3>1. run.mapping \in File!Versions /\ "read" \in File!Phase
         BY <1>1 DEF File!TypeOK, File!Run, File!Phase
      <3>2. importers[w] \in [phase : File!Phase, lease : Nat, mapping : File!Versions]
         BY <1>1 DEF File!TypeOK, File!Work
      <3>. QED BY <2>2, <3>1, <3>2 DEF File!Work
   <2>4. importers' = [importers EXCEPT ![w] = x]
      BY <1>1, <1>4, <2>2 DEF File!AutoRead, File!TypeOK, File!Work
   <2>5. /\ importers' \in [Workers -> File!Work] /\ importers'[w] = x
         /\ \A u \in Workers : u # w => importers'[u] = importers[u]
      BY <1>1, <2>3, <2>4, ImportWorkersHolding DEF File!TypeOK
   <2>6. File!TypeOK'
      BY <1>1, <1>2, <2>5 DEF File!TypeOK, File!outside, File!ghosts
   <2>7. UnmappedNamesNone' /\ File!ImportFollowsMapping'
      BY <1>2 DEF ImportIInv, UnmappedNamesNone, File!Unmapped, File!ImportFollowsMapping, File!WrittenOnce,
         File!ghosts
   <2>8. BegunByOne' /\ BegunIsProcessing'
      BY <1>2, <2>3, <2>5 DEF ImportIInv, BegunByOne, BegunIsProcessing, Importing, Confirming
   <2>9. WrittenByBeginner'
      BY <1>2, <2>3, <2>5 DEF ImportIInv, WrittenByBeginner, File!ghosts
   <2>10. ReadIsMapping'
      BY <1>2, <2>1, <2>3, <2>5 DEF ImportIInv, ReadIsMapping, Importing, File!Unmapped, File!ghosts
   <2>. QED BY <2>6, <2>7, <2>8, <2>9, <2>10 DEF ImportIInv
<1>. QED BY <1>3, <1>4

LEMMA ImportAutoClaimKeeps ==
    ASSUME ImportBounds, ImportIInv, NEW w \in Workers, File!AutoClaim(w)
    PROVE  ImportIInv'
<1>1. File!TypeOK
   BY DEF ImportIInv
<1>2. UNCHANGED <<mappings, owned, confirming, File!outside, File!ghosts>>
   BY DEF File!AutoClaim
<1>3. CASE File!Claimable
   <2>1. /\ importers' \in [Workers -> File!Work]
         /\ importers'[w].phase = "importing" /\ importers'[w].mapping = importers[w].mapping
         /\ \A u \in Workers : u # w => importers'[u] = importers[u]
      BY <1>1, <1>3, ImportGoing DEF File!TypeOK, File!AutoClaim, File!Phase
   <2>2. run' \in File!Run /\ run'.status = "PROCESSING" /\ run'.mapping = run.mapping
      BY <1>1, <1>3 DEF File!AutoClaim, File!TypeOK, File!Run, File!Status
   <2>3. /\ applied = <<>>
         /\ \A u \in Workers : ~Importing(u)
         /\ \A o \in Owners : ~Confirming(o)
      BY <1>3 DEF File!Claimable, ImportIInv, WrittenByBeginner, BegunIsProcessing
   <2>4. File!TypeOK'
      BY <1>1, <1>2, <2>1, <2>2 DEF File!TypeOK, File!outside, File!ghosts
   <2>5. UnmappedNamesNone'
      BY <2>2 DEF UnmappedNamesNone, File!Unmapped
   <2>6. BegunByOne' /\ BegunIsProcessing'
      BY <1>2, <2>1, <2>2, <2>3 DEF BegunByOne, BegunIsProcessing, Importing, Confirming
   <2>7. WrittenByBeginner'
      BY <1>2, <2>1, <2>2, <2>3 DEF WrittenByBeginner, Importing, Confirming, File!ghosts
   <2>8. ReadIsMapping'
      <3>1. importers[w].phase = "read"
         BY DEF File!AutoClaim
      <3>2. importers[w].mapping = run.mapping \/ outrun
         BY <3>1 DEF ImportIInv, ReadIsMapping
      <3>3. \A u \in Workers : u # w /\ (importers'[u].phase = "read" \/ Importing(u)')
                                  => importers'[u].mapping = run'.mapping \/ outrun'
         BY <1>2, <2>1, <2>2 DEF ImportIInv, ReadIsMapping, Importing, File!ghosts
      <3>. QED BY <1>2, <2>1, <2>2, <3>2, <3>3 DEF ReadIsMapping, File!Unmapped, File!ghosts
   <2>9. File!ImportFollowsMapping'
      BY <1>2, <2>2 DEF ImportIInv, File!ImportFollowsMapping, File!WrittenOnce, File!ghosts
   <2>. QED BY <2>4, <2>5, <2>6, <2>7, <2>8, <2>9 DEF ImportIInv
<1>4. CASE ~File!Claimable
   <2>1. UNCHANGED run /\ importers' \in [Workers -> File!Work] /\ importers'[w].phase = "idle"
      BY <1>1, <1>4, ImportResting DEF File!TypeOK, File!AutoClaim
   <2>2. \A u \in Workers : u # w => importers'[u] = importers[u]
      BY <1>1, <1>4, ImportResting DEF File!TypeOK, File!AutoClaim
   <2>3. File!TypeOK'
      BY <1>1, <1>2, <2>1 DEF File!TypeOK, File!outside, File!ghosts
   <2>. QED BY <1>2, <2>1, <2>2, <2>3, NobodyBegins DEF ImportIInv, File!ghosts
<1>. QED BY <1>3, <1>4

LEMMA ImportAutoImportKeeps ==
    ASSUME ImportBounds, ImportIInv, NEW w \in Workers, File!AutoImport(w)
    PROVE  ImportIInv'
<1>1. File!TypeOK
   BY DEF ImportIInv
<1>2. UNCHANGED <<run, mappings, owned, confirming, File!outside, outrun>>
   BY DEF File!AutoImport
<1>3. Importing(w) /\ importers[w].phase = "importing" /\ applied = <<>>
   BY DEF File!AutoImport, Importing, ImportIInv, WrittenByBeginner
<1>4. /\ run.status = "PROCESSING"
      /\ \A u \in Workers : u # w => ~Importing(u)
      /\ \A o \in Owners : ~Confirming(o)
   BY <1>3, WorkerImportsAlone
<1>5. /\ importers' \in [Workers -> File!Work]
      /\ importers'[w].phase = "written" /\ importers'[w].mapping = importers[w].mapping
      /\ \A u \in Workers : u # w => importers'[u] = importers[u]
   BY <1>1, ImportGoing DEF File!TypeOK, File!AutoImport, File!Phase
<1>6. PICK m \in File!Versions : m = importers[w].mapping
   BY <1>1 DEF File!TypeOK, File!Work
<1>7. applied' \in Seq(File!Versions) /\ applied' # <<>> /\ Len(applied') = 1 /\ DOMAIN applied' = {1} /\ applied'[1] = m
   BY <1>3, <1>6, ImportOneWritten DEF File!AutoImport
<1>8. File!TypeOK'
   BY <1>1, <1>2, <1>5, <1>7 DEF File!TypeOK, File!outside
<1>9. UnmappedNamesNone'
   BY <1>2 DEF ImportIInv, UnmappedNamesNone, File!Unmapped
<1>10. BegunByOne' /\ BegunIsProcessing'
   BY <1>2, <1>3, <1>4, <1>5 DEF BegunByOne, BegunIsProcessing, Importing, Confirming
<1>11. WrittenByBeginner'
   BY <1>2, <1>4, <1>5, <1>7 DEF WrittenByBeginner, Importing, Confirming
<1>12. importers[w].mapping = run.mapping \/ outrun
   BY <1>3 DEF ImportIInv, ReadIsMapping
<1>13. ReadIsMapping'
   BY <1>2, <1>4, <1>5, <1>12 DEF ImportIInv, ReadIsMapping, Importing, File!Unmapped
<1>14. File!ImportFollowsMapping'
   BY <1>2, <1>4, <1>6, <1>7, <1>12 DEF File!ImportFollowsMapping, File!WrittenOnce
<1>. QED BY <1>8, <1>9, <1>10, <1>11, <1>13, <1>14 DEF ImportIInv

LEMMA ImportAutoCompleteKeeps ==
    ASSUME ImportBounds, ImportIInv, NEW w \in Workers, File!AutoComplete(w)
    PROVE  ImportIInv'
<1>1. File!TypeOK
   BY DEF ImportIInv
<1>2. UNCHANGED <<mappings, owned, confirming, File!outside, File!ghosts>>
   BY DEF File!AutoComplete
<1>3. Importing(w) /\ applied # <<>>
   BY DEF File!AutoComplete, Importing, ImportIInv, WrittenByBeginner
<1>4. /\ run.status = "PROCESSING"
      /\ \A u \in Workers : u # w => ~Importing(u)
      /\ \A o \in Owners : ~Confirming(o)
   BY <1>3, WorkerImportsAlone
<1>5. /\ importers' \in [Workers -> File!Work] /\ importers'[w].phase = "idle"
      /\ \A u \in Workers : u # w => importers'[u] = importers[u]
   BY <1>1, ImportResting DEF File!TypeOK, File!AutoComplete
<1>6. run' \in File!Run /\ run'.status = "COMPLETED" /\ run'.mapping = run.mapping
   BY <1>1, <1>4, ImportEnding DEF File!TypeOK, File!Status, File!AutoComplete
<1>7. File!TypeOK'
   BY <1>1, <1>2, <1>5, <1>6 DEF File!TypeOK, File!outside, File!ghosts
<1>8. \A u \in Workers : ~Importing(u)' /\ (importers'[u].phase = "read" => importers'[u] = importers[u])
   BY <1>4, <1>5 DEF Importing
<1>9. \A o \in Owners : ~Confirming(o)'
   BY <1>2, <1>4 DEF Confirming
<1>. QED BY <1>2, <1>3, <1>4, <1>6, <1>7, <1>8, <1>9, TheBeginnerEnds DEF ImportIInv, File!ghosts

LEMMA ImportAutoFailsKeeps ==
    ASSUME ImportBounds, ImportIInv, NEW w \in Workers, File!AutoFails(w)
    PROVE  ImportIInv'
<1>1. File!TypeOK
   BY DEF ImportIInv
<1>2. UNCHANGED <<mappings, owned, confirming, File!outside, File!ghosts>>
   BY DEF File!AutoFails
<1>3. Importing(w)
   BY DEF File!AutoFails, Importing
<1>4. /\ run.status = "PROCESSING"
      /\ \A u \in Workers : u # w => ~Importing(u)
      /\ \A o \in Owners : ~Confirming(o)
   BY <1>3, WorkerImportsAlone
<1>5. /\ importers' \in [Workers -> File!Work] /\ importers'[w].phase = "idle"
      /\ \A u \in Workers : u # w => importers'[u] = importers[u]
   BY <1>1, ImportResting DEF File!TypeOK, File!AutoFails
<1>6. run' \in File!Run /\ run'.status = "FAILED" /\ run'.mapping = run.mapping
   BY <1>1, <1>4, ImportEnding DEF File!TypeOK, File!Status, File!AutoFails
<1>7. File!TypeOK'
   BY <1>1, <1>2, <1>5, <1>6 DEF File!TypeOK, File!outside, File!ghosts
<1>8. \A u \in Workers : ~Importing(u)' /\ (importers'[u].phase = "read" => importers'[u] = importers[u])
   BY <1>4, <1>5 DEF Importing
<1>9. \A o \in Owners : ~Confirming(o)'
   BY <1>2, <1>4 DEF Confirming
<1>. QED BY <1>2, <1>3, <1>4, <1>6, <1>7, <1>8, <1>9, TheBeginnerEnds DEF ImportIInv, File!ghosts

LEMMA ImportCrashKeeps ==
    ASSUME ImportBounds, ImportIInv, NEW w \in Workers, File!Crash(w)
    PROVE  ImportIInv'
<1>1. File!TypeOK
   BY DEF ImportIInv
<1>2. /\ importers' \in [Workers -> File!Work] /\ importers'[w].phase = "idle"
      /\ \A u \in Workers : u # w => importers'[u] = importers[u]
   BY <1>1, ImportResting DEF File!TypeOK, File!Crash
<1>3. UNCHANGED <<run, mappings, owned, confirming, frozen, freezes, File!ghosts>> /\ lost' \in Nat
   BY <1>1 DEF File!Crash, File!TypeOK
<1>4. File!TypeOK'
   BY <1>1, <1>2, <1>3 DEF File!TypeOK, File!ghosts
<1>. QED BY <1>2, <1>3, <1>4, NobodyBegins DEF ImportIInv, File!ghosts

LEMMA ImportClaimConfirmationKeeps ==
    ASSUME ImportBounds, ImportIInv, NEW o \in Owners, File!ClaimConfirmation(o)
    PROVE  ImportIInv'
<1>1. File!TypeOK
   BY DEF ImportIInv
<1>2. UNCHANGED <<mappings, owned, importers, File!outside, File!ghosts>>
   BY DEF File!ClaimConfirmation
<1>3. /\ confirming' \in [Owners -> {"idle", "importing", "written"}] /\ confirming'[o] = "importing"
      /\ \A p \in Owners : p # o => confirming'[p] = confirming[p]
   BY <1>1 DEF File!TypeOK, File!ClaimConfirmation
<1>4. run' \in File!Run /\ run'.status = "PROCESSING" /\ run'.mapping = run.mapping
   BY <1>1 DEF File!ClaimConfirmation, File!TypeOK, File!Run, File!Status
<1>5. /\ applied = <<>>
      /\ \A u \in Workers : ~Importing(u)
      /\ \A p \in Owners : ~Confirming(p)
   BY DEF File!ClaimConfirmation, File!Claimable, ImportIInv, WrittenByBeginner, BegunIsProcessing
<1>6. File!TypeOK'
   BY <1>1, <1>2, <1>3, <1>4 DEF File!TypeOK, File!outside, File!ghosts
<1>7. UnmappedNamesNone'
   BY <1>4 DEF UnmappedNamesNone, File!Unmapped
<1>8. BegunByOne' /\ BegunIsProcessing'
   BY <1>2, <1>3, <1>4, <1>5 DEF BegunByOne, BegunIsProcessing, Importing, Confirming
<1>9. WrittenByBeginner'
   BY <1>2, <1>3, <1>4, <1>5 DEF WrittenByBeginner, Importing, Confirming, File!ghosts
<1>10. ReadIsMapping'
   BY <1>2, <1>4 DEF ImportIInv, ReadIsMapping, Importing, File!Unmapped, File!ghosts
<1>11. File!ImportFollowsMapping'
   BY <1>2, <1>4 DEF ImportIInv, File!ImportFollowsMapping, File!WrittenOnce, File!ghosts
<1>. QED BY <1>6, <1>7, <1>8, <1>9, <1>10, <1>11 DEF ImportIInv

LEMMA ImportConfirmImportKeeps ==
    ASSUME ImportBounds, ImportIInv, NEW o \in Owners, File!ConfirmImport(o)
    PROVE  ImportIInv'
<1>1. File!TypeOK
   BY DEF ImportIInv
<1>2. UNCHANGED <<run, mappings, owned, importers, File!outside, outrun>>
   BY DEF File!ConfirmImport
<1>3. Confirming(o) /\ confirming[o] = "importing" /\ applied = <<>>
   BY DEF File!ConfirmImport, Confirming, ImportIInv, WrittenByBeginner
<1>4. /\ run.status = "PROCESSING"
      /\ \A p \in Owners : p # o => ~Confirming(p)
      /\ \A w \in Workers : ~Importing(w)
   BY <1>3, OwnerImportsAlone
<1>5. /\ confirming' \in [Owners -> {"idle", "importing", "written"}] /\ confirming'[o] = "written"
      /\ \A p \in Owners : p # o => confirming'[p] = confirming[p]
   BY <1>1 DEF File!TypeOK, File!ConfirmImport
<1>6. PICK m \in File!Versions : m = run.mapping
   BY <1>1 DEF File!TypeOK, File!Run
<1>7. applied' \in Seq(File!Versions) /\ applied' # <<>> /\ Len(applied') = 1 /\ DOMAIN applied' = {1} /\ applied'[1] = m
   BY <1>3, <1>6, ImportOneWritten DEF File!ConfirmImport
<1>8. File!TypeOK'
   BY <1>1, <1>2, <1>5, <1>7 DEF File!TypeOK, File!outside
<1>9. UnmappedNamesNone'
   BY <1>2 DEF ImportIInv, UnmappedNamesNone, File!Unmapped
<1>10. BegunByOne' /\ BegunIsProcessing'
   BY <1>2, <1>3, <1>4, <1>5 DEF BegunByOne, BegunIsProcessing, Importing, Confirming
<1>11. WrittenByBeginner'
   BY <1>2, <1>4, <1>5, <1>7 DEF WrittenByBeginner, Importing, Confirming
<1>12. ReadIsMapping'
   BY <1>2 DEF ImportIInv, ReadIsMapping, Importing, File!Unmapped
<1>13. File!ImportFollowsMapping'
   BY <1>2, <1>4, <1>6, <1>7 DEF File!ImportFollowsMapping, File!WrittenOnce
<1>. QED BY <1>8, <1>9, <1>10, <1>11, <1>12, <1>13 DEF ImportIInv

LEMMA ImportCompleteConfirmationKeeps ==
    ASSUME ImportBounds, ImportIInv, NEW o \in Owners, File!CompleteConfirmation(o)
    PROVE  ImportIInv'
<1>1. File!TypeOK
   BY DEF ImportIInv
<1>2. UNCHANGED <<mappings, owned, importers, File!outside, File!ghosts>>
   BY DEF File!CompleteConfirmation
<1>3. Confirming(o) /\ applied # <<>>
   BY <1>1 DEF File!CompleteConfirmation, Confirming, File!TypeOK, ImportIInv, WrittenByBeginner
<1>4. /\ run.status = "PROCESSING"
      /\ \A p \in Owners : p # o => ~Confirming(p)
      /\ \A w \in Workers : ~Importing(w)
   BY <1>3, OwnerImportsAlone
<1>5. /\ confirming' \in [Owners -> {"idle", "importing", "written"}] /\ confirming'[o] = "idle"
      /\ \A p \in Owners : p # o => confirming'[p] = confirming[p]
   BY <1>1 DEF File!TypeOK, File!CompleteConfirmation
<1>6. run' \in File!Run /\ run'.status = "COMPLETED" /\ run'.mapping = run.mapping
   BY <1>1, <1>4, ImportEnding DEF File!TypeOK, File!Status, File!CompleteConfirmation
<1>7. File!TypeOK'
   BY <1>1, <1>2, <1>5, <1>6 DEF File!TypeOK, File!outside, File!ghosts
<1>8. \A u \in Workers : ~Importing(u)' /\ (importers'[u].phase = "read" => importers'[u] = importers[u])
   BY <1>2, <1>4 DEF Importing
<1>9. \A p \in Owners : ~Confirming(p)'
   BY <1>4, <1>5 DEF Confirming
<1>. QED BY <1>2, <1>3, <1>4, <1>6, <1>7, <1>8, <1>9, TheBeginnerEnds DEF ImportIInv, File!ghosts

LEMMA ImportConfirmFailsKeeps ==
    ASSUME ImportBounds, ImportIInv, NEW o \in Owners, File!ConfirmFails(o)
    PROVE  ImportIInv'
<1>1. File!TypeOK
   BY DEF ImportIInv
<1>2. UNCHANGED <<mappings, owned, importers, File!outside, File!ghosts>>
   BY DEF File!ConfirmFails
<1>3. Confirming(o)
   BY <1>1 DEF File!ConfirmFails, Confirming, File!TypeOK
<1>4. /\ run.status = "PROCESSING"
      /\ \A p \in Owners : p # o => ~Confirming(p)
      /\ \A w \in Workers : ~Importing(w)
   BY <1>3, OwnerImportsAlone
<1>5. /\ confirming' \in [Owners -> {"idle", "importing", "written"}] /\ confirming'[o] = "idle"
      /\ \A p \in Owners : p # o => confirming'[p] = confirming[p]
   BY <1>1 DEF File!TypeOK, File!ConfirmFails
<1>6. run' \in File!Run /\ run'.status = "FAILED" /\ run'.mapping = run.mapping
   BY <1>1, <1>4, ImportEnding DEF File!TypeOK, File!Status, File!ConfirmFails
<1>7. File!TypeOK'
   BY <1>1, <1>2, <1>5, <1>6 DEF File!TypeOK, File!outside, File!ghosts
<1>8. \A u \in Workers : ~Importing(u)' /\ (importers'[u].phase = "read" => importers'[u] = importers[u])
   BY <1>2, <1>4 DEF Importing
<1>9. \A p \in Owners : ~Confirming(p)'
   BY <1>4, <1>5 DEF Confirming
<1>. QED BY <1>2, <1>3, <1>4, <1>6, <1>7, <1>8, <1>9, TheBeginnerEnds DEF ImportIInv, File!ghosts

LEMMA ImportUpdateMappingKeeps ==
    ASSUME ImportBounds, ImportIInv, File!UpdateMapping
    PROVE  ImportIInv'
<1>1. File!TypeOK
   BY DEF ImportIInv
<1>2. UNCHANGED <<importers, confirming, File!outside, applied>>
   BY DEF File!UpdateMapping
<1>3. mappings + 1 \in File!Versions /\ mappings' = mappings + 1
   BY <1>1 DEF File!TypeOK, ImportBounds, File!Versions, File!UpdateMapping
<1>4. run' \in File!Run /\ run'.status = "PREVIEW_READY" /\ run'.mapping = mappings + 1
   BY <1>1, <1>3 DEF File!UpdateMapping, File!TypeOK, File!Run, File!Status
<1>5. owned' \subseteq 1..mappings'
   BY <1>1, <1>3 DEF File!TypeOK, File!Versions, ImportBounds, File!UpdateMapping
<1>6. outrun' \in BOOLEAN /\ (outrun => outrun') /\ \A w \in Workers : importers[w].phase = "read" => outrun'
   BY <1>1 DEF File!TypeOK, File!UpdateMapping
<1>7. File!TypeOK'
   BY <1>1, <1>2, <1>3, <1>4, <1>5, <1>6 DEF File!TypeOK, File!outside
<1>8. /\ applied = <<>>
      /\ \A u \in Workers : ~Importing(u)
      /\ \A o \in Owners : ~Confirming(o)
   BY DEF File!UpdateMapping, File!Remappable, ImportIInv, WrittenByBeginner, BegunIsProcessing
<1>9. UnmappedNamesNone'
   BY <1>4 DEF UnmappedNamesNone, File!Unmapped
<1>10. BegunByOne' /\ BegunIsProcessing'
   BY <1>2, <1>8 DEF BegunByOne, BegunIsProcessing, Importing, Confirming
<1>11. WrittenByBeginner'
   BY <1>2, <1>8 DEF WrittenByBeginner, Importing, Confirming
<1>12. ReadIsMapping'
   BY <1>2, <1>4, <1>6, <1>8 DEF ReadIsMapping, Importing, File!Unmapped
<1>13. File!ImportFollowsMapping'
   <2>1. Len(applied') = 0 /\ DOMAIN applied' = {}
      BY <1>2, <1>8
   <2>. QED BY <1>4, <2>1 DEF File!ImportFollowsMapping, File!WrittenOnce
<1>. QED BY <1>7, <1>9, <1>10, <1>11, <1>12, <1>13 DEF ImportIInv

LEMMA ImportExpireLeaseKeeps ==
    ASSUME ImportBounds, ImportIInv, File!ExpireLease
    PROVE  ImportIInv'
<1>1. File!TypeOK
   BY DEF ImportIInv
<1>2. UNCHANGED <<mappings, owned, importers, confirming, frozen, freezes, File!ghosts>> /\ lost' \in Nat
   BY <1>1 DEF File!ExpireLease, File!TypeOK
<1>3. run' \in File!Run /\ run'.status = run.status /\ run'.mapping = run.mapping
   BY <1>1 DEF File!ExpireLease, File!TypeOK, File!Run
<1>4. File!TypeOK'
   BY <1>1, <1>2, <1>3 DEF File!TypeOK, File!ghosts
<1>. QED BY <1>2, <1>3, <1>4, NobodyBegins DEF ImportIInv, File!ghosts

LEMMA ImportCrashApiKeeps ==
    ASSUME ImportBounds, ImportIInv, File!CrashApi
    PROVE  ImportIInv'
<1>1. File!TypeOK
   BY DEF ImportIInv
<1>2. UNCHANGED <<run, mappings, owned, importers, frozen, freezes, File!ghosts>> /\ lost' \in Nat
   BY <1>1 DEF File!CrashApi, File!TypeOK
<1>3. confirming' \in [Owners -> {"idle", "importing", "written"}] /\ \A o \in Owners : confirming'[o] = "idle"
   BY DEF File!CrashApi
<1>4. File!TypeOK'
   BY <1>1, <1>2, <1>3 DEF File!TypeOK, File!ghosts
<1>. QED BY <1>2, <1>3, <1>4, NobodyBegins DEF ImportIInv, File!ghosts

LEMMA ImportFreezeKeeps ==
    ASSUME ImportBounds, ImportIInv, File!Freeze
    PROVE  ImportIInv'
<1>1. File!TypeOK
   BY DEF ImportIInv
<1>2. UNCHANGED <<run, mappings, owned, importers, confirming, lost, File!ghosts>> /\ freezes' \in Nat /\ frozen' \in BOOLEAN
   <2>1. (~frozen) \in BOOLEAN
      OBVIOUS
   <2>. QED BY <1>1, <2>1 DEF File!Freeze, File!TypeOK
<1>3. File!TypeOK'
   BY <1>1, <1>2 DEF File!TypeOK, File!ghosts
<1>. QED BY <1>2, <1>3, NobodyBegins DEF ImportIInv, File!ghosts

LEMMA ImportStutterKeeps == ImportIInv /\ UNCHANGED File!vars => ImportIInv'
<1>. SUFFICES ASSUME ImportIInv, UNCHANGED File!vars PROVE ImportIInv'
   OBVIOUS
<1>1. File!TypeOK'
   BY DEF ImportIInv, File!TypeOK, File!vars, File!outside, File!ghosts
<1>. QED BY <1>1, NobodyBegins DEF ImportIInv, File!vars, File!outside, File!ghosts

LEMMA ImportInitially == ImportBounds /\ File!Init => ImportIInv
<1>. SUFFICES ASSUME ImportBounds, File!Init PROVE ImportIInv
   OBVIOUS
<1>1. 0 \in File!Versions /\ 0 \in Nat
   BY DEF ImportBounds, File!Versions
<1>2. run \in File!Run /\ run.status = "UPLOADED" /\ run.mapping = 0
   BY <1>1 DEF File!Init, File!Run, File!Status
<1>3. importers \in [Workers -> File!Work] /\ \A w \in Workers : importers[w].phase = "idle"
   BY ImportIdleIsWork DEF File!Init
<1>4. applied \in Seq(File!Versions) /\ Len(applied) = 0 /\ DOMAIN applied = {} /\ applied = <<>>
   BY DEF File!Init
<1>5. File!TypeOK
   BY <1>1, <1>2, <1>3, <1>4 DEF File!Init, File!TypeOK
<1>6. UnmappedNamesNone
   BY <1>2 DEF UnmappedNamesNone
<1>7. \A o \in Owners : confirming[o] = "idle"
   BY DEF File!Init
<1>8. BegunByOne /\ BegunIsProcessing /\ ReadIsMapping
   BY <1>3, <1>7 DEF BegunByOne, BegunIsProcessing, ReadIsMapping, Importing, Confirming
<1>9. WrittenByBeginner /\ File!ImportFollowsMapping
   BY <1>2, <1>3, <1>4, <1>7 DEF WrittenByBeginner, File!ImportFollowsMapping, File!WrittenOnce
<1>. QED BY <1>5, <1>6, <1>8, <1>9 DEF ImportIInv

LEMMA ImportStepKeeps == ImportBounds /\ ImportIInv /\ [File!Next]_File!vars => ImportIInv'
<1>. SUFFICES ASSUME ImportBounds, ImportIInv, [File!Next]_File!vars PROVE ImportIInv'
   OBVIOUS
<1>1. ASSUME NEW w \in Workers, File!WorkerStep(w) \/ File!Crash(w) PROVE ImportIInv'
   BY <1>1, ImportClaimKeeps, ImportCancelFrozenKeeps, ImportAskKeeps, ImportMappingFailsKeeps,
      ImportPersistKeeps, ImportAutoReadKeeps,
      ImportAutoClaimKeeps, ImportAutoImportKeeps, ImportAutoCompleteKeeps, ImportAutoFailsKeeps,
      ImportCrashKeeps DEF File!WorkerStep
<1>2. ASSUME NEW o \in Owners,
             File!ClaimConfirmation(o) \/ File!ConfirmImport(o) \/ File!CompleteConfirmation(o) \/ File!ConfirmFails(o)
      PROVE  ImportIInv'
   BY <1>2, ImportClaimConfirmationKeeps, ImportConfirmImportKeeps, ImportCompleteConfirmationKeeps,
      ImportConfirmFailsKeeps
<1>3. CASE File!UpdateMapping \/ File!ExpireLease \/ File!CrashApi \/ File!Freeze
   BY <1>3, ImportUpdateMappingKeeps, ImportExpireLeaseKeeps, ImportCrashApiKeeps, ImportFreezeKeeps
<1>4. CASE UNCHANGED File!vars
   BY <1>4, ImportStutterKeeps
<1>. QED BY <1>1, <1>2, <1>3, <1>4 DEF File!Next

LEMMA ImportInvariant == ASSUME ImportBounds PROVE File!Spec => []ImportIInv
<1>1. File!Init => ImportIInv
   BY ImportInitially
<1>2. ImportIInv /\ [File!Next]_File!vars => ImportIInv'
   BY ImportStepKeeps
<1>. QED BY <1>1, <1>2, PTL DEF File!Spec

-----------------------------------------------------------------------------
(* Theorems                                                                 *)

\* The variables of an import keep their types.
THEOREM ImportTypeCorrect == ASSUME ImportBounds PROVE File!Spec => []File!TypeOK
<1>1. ImportIInv => File!TypeOK
   BY DEF ImportIInv
<1>. QED BY <1>1, ImportInvariant, PTL

\* Whatever workers and owners do with a run, its products are written at most
\* once, with the mapping that the run names unless an owner corrected it after
\* the automatic import had read it, and a COMPLETED run has written them.
THEOREM ImportsFollowMapping == ASSUME ImportBounds PROVE File!Spec => []File!ImportFollowsMapping
<1>1. ImportIInv => File!ImportFollowsMapping
   BY DEF ImportIInv
<1>. QED BY <1>1, ImportInvariant, PTL

\* A run that names an owner's mapping names one ever after: the model's late
\* answer, or the failure to get one, does not replace it.
THEOREM NoAnswerReplacesOwners == ASSUME ImportBounds PROVE File!Spec => [][File!OwnersMappingStays]_File!vars
<1>1. ImportIInv /\ [File!Next]_File!vars => [File!OwnersMappingStays]_File!vars
   <2>. SUFFICES ASSUME ImportIInv, File!Next, run.mapping \in owned PROVE run'.mapping \in owned'
      BY DEF File!OwnersMappingStays
   <2>1. ~File!Unmapped
      BY DEF ImportIInv, File!TypeOK, UnmappedNamesNone
   <2>2. run \in File!Run
      BY DEF ImportIInv, File!TypeOK
   <2>3. ASSUME NEW w \in Workers, File!WorkerStep(w) \/ File!Crash(w) PROVE run'.mapping = run.mapping /\ owned' = owned
      <3>1. ASSUME NEW sure \in BOOLEAN, File!Persist(w, sure) PROVE run'.mapping = run.mapping /\ owned' = owned
         BY <2>1, <3>1 DEF File!Persist, File!Owns, File!Unmapped
      <3>2. CASE File!Claim(w) \/ File!CancelFrozen(w) \/ File!MappingFails(w)
         BY <2>1, <3>2 DEF File!Claim, File!Due, File!CancelFrozen, File!MappingFails, File!Owns, File!Unmapped
      <3>3. CASE File!Ask(w)
         BY <2>1, <3>3 DEF File!Ask, File!Owns, File!Unmapped
      <3>4. CASE File!AutoRead(w) \/ File!AutoImport(w) \/ File!Crash(w)
         BY <3>4 DEF File!AutoRead, File!AutoImport, File!Crash
      <3>5. CASE File!AutoClaim(w)
         BY <2>2, <3>5 DEF File!AutoClaim, File!Run
      <3>6. CASE File!AutoComplete(w) \/ File!AutoFails(w)
         BY <2>2, <3>6 DEF File!AutoComplete, File!AutoFails, File!Ended, File!Run
      <3>. QED BY <2>3, <3>1, <3>2, <3>3, <3>4, <3>5, <3>6 DEF File!WorkerStep
   <2>4. ASSUME NEW o \in Owners,
                File!ClaimConfirmation(o) \/ File!ConfirmImport(o) \/ File!CompleteConfirmation(o) \/ File!ConfirmFails(o)
         PROVE  run'.mapping = run.mapping /\ owned' = owned
      BY <2>2, <2>4 DEF File!ClaimConfirmation, File!ConfirmImport, File!CompleteConfirmation,
         File!ConfirmFails, File!Ended, File!Run
   <2>5. CASE File!UpdateMapping
      BY <2>2, <2>5 DEF File!UpdateMapping, File!Run
   <2>6. CASE File!ExpireLease \/ File!CrashApi \/ File!Freeze
      BY <2>2, <2>6 DEF File!ExpireLease, File!CrashApi, File!Freeze, File!Run
   <2>. QED BY <2>3, <2>4, <2>5, <2>6 DEF File!Next
<1>. QED BY <1>1, ImportInvariant, PTL DEF File!Spec
=============================================================================
