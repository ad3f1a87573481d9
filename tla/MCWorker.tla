------------------------------ MODULE MCWorker ------------------------------
(* Small instances of the services of apps/worker, one in every behaviour:  *)
(* "focus" says which.  They share no rows but the tenant's, whose freeze   *)
(* each of them models, so that what they do side by side is independent.   *)
(* Variables of one name serve every instance that has them; those that an  *)
(* instance does not have keep Absent.                                        *)
EXTENDS Integers

CONSTANTS M1, M2, W1, W2, R1, T1, A1, O1, O2, C1, C2, Absent

VARIABLES
    focus,
    worker, frozen, freezes, lost, asked,
    shipment, attempt, waybills, parcel, unsearched, seen,
    message, connection, retrying, queue, rows, stalls, retries, sent, recent, near, unusable,
    order, lines, assessed, evaluation, expired, event, run, faults, calls, failed,
    latest, worded, unscheduled, draft, catalogue, enabled, switches,
    export, asking, poll, table, renewed, approved, torn,
    mappings, owned, confirming, applied, outrun,
    source, sheet, mapping, runs, written,
    account, claims, generations, aged, lapsed, issued, newest, shaken,
    request, objects, cleaner, left, doubted

shared == <<worker, frozen, freezes, lost, asked, run>>
ofShipment == <<shipment, attempt, waybills, parcel>>
ofInstagram == <<message, connection, retrying, queue, rows, stalls, retries, sent, recent, near, unusable>>
ofRecognition == <<lines, assessed, evaluation, expired, event, calls, failed>>
ofDraft == <<latest, worded, unscheduled, draft, catalogue, enabled, switches>>
ofSheets == <<export, asking, poll, table, renewed, approved, torn>>
ofImport == <<mappings, owned, confirming, applied, outrun>>
ofSync == <<source, sheet, mapping, runs, written>>
ofToken == <<account, generations, aged, lapsed, issued, newest, shaken>>
ofArchive == <<request, objects, cleaner, left, doubted>>
lifecycle == <<ofToken, ofArchive, claims>>
vars == <<focus, shared, ofShipment, unsearched, seen, ofInstagram, ofRecognition, order, faults, ofDraft, ofSheets,
          ofImport, ofSync, lifecycle>>

-----------------------------------------------------------------------------
(* Nova Poshta and Ukrposhta: two workers create, with lost claims and a     *)
(* freeze, and no status or cancellation is asked; two workers take a status *)
(* and a cancellation of the same version, or of the version after it.       *)
NPCreate == INSTANCE NovaPoshtaShipment WITH
    Workers <- {W1, W2}, MAX_ATTEMPTS <- 3, MaxClaims <- 3, MaxVersion <- -1, MaxLost <- 2, MaxFreezes <- 1
NPCancel == INSTANCE NovaPoshtaShipment WITH
    Workers <- {W1, W2}, MAX_ATTEMPTS <- 1, MaxClaims <- 1, MaxVersion <- 0, MaxLost <- 1, MaxFreezes <- 1
NPTwice == INSTANCE NovaPoshtaShipment WITH
    Workers <- {W1, W2}, MAX_ATTEMPTS <- 1, MaxClaims <- 1, MaxVersion <- 1, MaxLost <- 0, MaxFreezes <- 0

UPCreate == INSTANCE UkrposhtaShipment WITH
    Workers <- {W1, W2}, Retries <- 1, MaxClaims <- 3, MaxVersion <- -1, MaxLost <- 2, MaxFreezes <- 1
UPCancel == INSTANCE UkrposhtaShipment WITH
    Workers <- {W1, W2}, Retries <- 0, MaxClaims <- 2, MaxVersion <- 0, MaxLost <- 0, MaxFreezes <- 0
UPTwice == INSTANCE UkrposhtaShipment WITH
    Workers <- {W1}, Retries <- 0, MaxClaims <- 1, MaxVersion <- 1, MaxLost <- 0, MaxFreezes <- 1

(* Instagram: claims and retries of one reply; echoes of two of one text,   *)
(* compared with both, or with one of them only; echoes of two of different  *)
(* texts, compared with one only; a reply whose text is typed in the         *)
(* Instagram app, too.                                                       *)
OneText == [m \in {M1, M2, Absent} |-> 1]
Fence == INSTANCE InstagramDelivery WITH
    Messages <- {M1}, Text <- OneText, Workers <- {W1, W2}, Managers <- {R1}, NoMessage <- Absent,
    MAX_ATTEMPTS <- 1, MAX_CANDIDATES <- 1, MaxRetries <- 1, MaxGenerations <- 1, MaxStalls <- 1, MaxTyped <- 0
Echo == INSTANCE InstagramDelivery WITH
    Messages <- {M1, M2}, Text <- OneText, Workers <- {W1}, Managers <- {R1}, NoMessage <- Absent,
    MAX_ATTEMPTS <- 1, MAX_CANDIDATES <- 2, MaxRetries <- 0, MaxGenerations <- 1, MaxStalls <- 0, MaxTyped <- 0
Guess == INSTANCE InstagramDelivery WITH
    Messages <- {M1, M2}, Text <- OneText, Workers <- {W1}, Managers <- {R1}, NoMessage <- Absent,
    MAX_ATTEMPTS <- 1, MAX_CANDIDATES <- 1, MaxRetries <- 0, MaxGenerations <- 1, MaxStalls <- 0, MaxTyped <- 0
Crowd == INSTANCE InstagramDelivery WITH
    Messages <- {M1, M2}, Text <- [m \in {M1, M2, Absent} |-> m], Workers <- {W1}, Managers <- {R1}, NoMessage <- Absent,
    MAX_ATTEMPTS <- 1, MAX_CANDIDATES <- 1, MaxRetries <- 0, MaxGenerations <- 1, MaxStalls <- 0, MaxTyped <- 0
Typed == INSTANCE InstagramDelivery WITH
    Messages <- {M1}, Text <- OneText, Workers <- {W1}, Managers <- {R1}, NoMessage <- Absent,
    MAX_ATTEMPTS <- 1, MAX_CANDIDATES <- 1, MaxRetries <- 0, MaxGenerations <- 2, MaxStalls <- 1, MaxTyped <- 1

(* Recognition: two runs about one trigger; two about one anchor.           *)
Trigger == INSTANCE OrderRecognition WITH
    Triggers <- {T1}, Anchors <- {}, NoMessage <- Absent, Runs <- {1, 2}, MaxFaults <- 2, MaxFreezes <- 1
Anchor == INSTANCE OrderRecognition WITH
    Triggers <- {}, Anchors <- {A1}, NoMessage <- Absent, Runs <- {1, 2}, MaxFaults <- 1, MaxFreezes <- 1

(* Drafts: one and two workers; two that succeed each other.                *)
Draft == INSTANCE ReplyDraft WITH
    Drafts <- {1}, Workers <- {W1, W2}, MAX_ATTEMPTS <- 2,
    MaxMessages <- 2, MaxEdits <- 1, MaxSwitches <- 1, MaxLost <- 1
Drafts == INSTANCE ReplyDraft WITH
    Drafts <- {1, 2}, Workers <- {W1}, MAX_ATTEMPTS <- 2,
    MaxMessages <- 2, MaxEdits <- 0, MaxSwitches <- 0, MaxLost <- 1

(* Exports: two pollers, a correction.                                      *)
Sheets == INSTANCE SheetsExport WITH
    Workers <- {W1, W2}, MaxCorrections <- 1, MaxFaults <- 1, MaxFreezes <- 1, MaxRenewed <- 1

(* Imports: two workers, two owners who map and confirm.                    *)
Import == INSTANCE CatalogueImport WITH
    Workers <- {W1, W2}, Owners <- {O1, O2}, MaxMappings <- 3, MaxLost <- 2, MaxFreezes <- 1

(* Synchronization: two processes, whose sheet changes its structure; and   *)
(* one, whose tenant is frozen.                                             *)
Sync == INSTANCE CatalogueSync WITH
    Processes <- {W1, W2}, Contents <- {C1, C2}, Headers <- [c \in {C1, C2} |-> c],
    MaxMappings <- 1, MaxVersion <- 3, MaxEdits <- 1, MaxLost <- 1, MaxFreezes <- 0
SyncFrozen == INSTANCE CatalogueSync WITH
    Processes <- {W1}, Contents <- {C1, C2}, Headers <- [c \in {C1, C2} |-> Absent],
    MaxMappings <- 2, MaxVersion <- 2, MaxEdits <- 1, MaxLost <- 1, MaxFreezes <- 1

(* TikTok's tokens: two jobs ask for one, and the account is connected twice.*)
Token == INSTANCE TikTokToken WITH
    connection <- account, latest <- newest,
    Workers <- {W1, W2}, MaxGenerations <- 2, MaxPairs <- 3, MaxClaims <- 2

(* Archives of a tenant's data: two processes.                              *)
Archive == INSTANCE TenantExport WITH
    Workers <- {W1, W2}, MaxClaims <- 3, MaxLost <- 2

-----------------------------------------------------------------------------
NoShipment == shipment = Absent /\ attempt = Absent /\ waybills = Absent /\ parcel = Absent
NoReplies ==
    /\ message = Absent /\ connection = Absent /\ retrying = Absent /\ queue = Absent /\ rows = Absent /\ stalls = Absent
    /\ retries = Absent /\ sent = Absent /\ recent = Absent /\ near = Absent /\ unusable = Absent
NoRecognition ==
    /\ lines = Absent /\ assessed = Absent /\ evaluation = Absent /\ expired = Absent
    /\ event = Absent /\ calls = Absent /\ failed = Absent
NoDraft ==
    /\ latest = Absent /\ worded = Absent /\ unscheduled = Absent /\ draft = Absent
    /\ catalogue = Absent /\ enabled = Absent /\ switches = Absent
NoExport ==
    /\ export = Absent /\ asking = Absent /\ poll = Absent /\ table = Absent /\ renewed = Absent /\ approved = Absent
    /\ torn = Absent
NoImport ==
    /\ mappings = Absent /\ owned = Absent /\ confirming = Absent /\ applied = Absent /\ outrun = Absent
NoToken ==
    /\ account = Absent /\ generations = Absent /\ aged = Absent /\ lapsed = Absent
    /\ issued = Absent /\ newest = Absent /\ shaken = Absent
NoArchive == request = Absent /\ objects = Absent /\ cleaner = Absent /\ left = Absent /\ doubted = Absent
NoSync == source = Absent /\ sheet = Absent /\ mapping = Absent /\ runs = Absent /\ written = Absent

InitShipment ==
    /\ NoReplies /\ NoRecognition /\ NoDraft /\ NoExport /\ NoImport /\ NoSync /\ run = Absent /\ order = Absent /\ faults = Absent
    /\ \/ /\ seen = Absent
          /\ \/ focus = "NPCreate" /\ NPCreate!Init
             \/ focus = "NPCancel" /\ NPCancel!Init
             \/ focus = "NPTwice" /\ NPTwice!Init
       \/ /\ unsearched = Absent
          /\ \/ focus = "UPCreate" /\ UPCreate!Init
             \/ focus = "UPTwice" /\ UPTwice!Init
             \/ focus = "UPCancel" /\ UPCancel!Init

InitReplies ==
    /\ NoShipment /\ NoRecognition /\ NoDraft /\ NoExport /\ NoImport /\ NoSync /\ run = Absent
    /\ frozen = Absent /\ freezes = Absent /\ lost = Absent /\ asked = Absent
    /\ unsearched = Absent /\ seen = Absent /\ order = Absent /\ faults = Absent
    /\ \/ focus = "Fence" /\ Fence!Init
       \/ focus = "Echo" /\ Echo!Init
       \/ focus = "Guess" /\ Guess!Init
       \/ focus = "Crowd" /\ Crowd!Init
       \/ focus = "Typed" /\ Typed!Init

InitRecognition ==
    /\ NoShipment /\ NoReplies /\ NoDraft /\ NoExport /\ NoImport /\ NoSync
    /\ worker = Absent /\ asked = Absent /\ unsearched = Absent /\ seen = Absent
    /\ \/ focus = "Trigger" /\ Trigger!Init
       \/ focus = "Anchor" /\ Anchor!Init

InitDraft ==
    /\ NoShipment /\ NoReplies /\ NoRecognition /\ NoExport /\ NoImport /\ NoSync /\ run = Absent
    /\ freezes = Absent /\ unsearched = Absent /\ seen = Absent /\ order = Absent /\ faults = Absent
    /\ \/ focus = "Draft" /\ Draft!Init
       \/ focus = "Drafts" /\ Drafts!Init

InitExport ==
    /\ NoShipment /\ NoReplies /\ NoRecognition /\ NoDraft /\ NoImport /\ NoSync /\ run = Absent
    /\ worker = Absent /\ lost = Absent /\ asked = Absent /\ unsearched = Absent /\ seen = Absent
    /\ focus = "Sheets" /\ Sheets!Init

InitImport ==
    /\ NoShipment /\ NoReplies /\ NoRecognition /\ NoDraft /\ NoExport /\ NoSync
    /\ asked = Absent /\ unsearched = Absent /\ seen = Absent /\ order = Absent /\ faults = Absent
    /\ focus = "Import" /\ Import!Init

InitSync ==
    /\ NoShipment /\ NoReplies /\ NoRecognition /\ NoDraft /\ NoExport /\ NoImport /\ run = Absent
    /\ asked = Absent /\ unsearched = Absent /\ seen = Absent /\ order = Absent /\ faults = Absent
    /\ \/ focus = "Sync" /\ Sync!Init
       \/ focus = "SyncFrozen" /\ SyncFrozen!Init

NoneOfTheAbove ==
    /\ NoShipment /\ NoReplies /\ NoRecognition /\ NoDraft /\ NoExport /\ NoImport /\ NoSync /\ run = Absent
    /\ frozen = Absent /\ freezes = Absent /\ asked = Absent
    /\ unsearched = Absent /\ seen = Absent /\ order = Absent /\ faults = Absent
InitToken == focus = "Token" /\ Token!Init /\ NoneOfTheAbove /\ NoArchive /\ lost = Absent
InitArchive == focus = "Archive" /\ Archive!Init /\ NoneOfTheAbove /\ NoToken

Init ==
    \/ InitToken \/ InitArchive
    \/ /\ InitShipment \/ InitReplies \/ InitRecognition \/ InitDraft
          \/ InitExport \/ InitImport \/ InitSync
       /\ NoToken /\ NoArchive /\ claims = Absent

NextShipment ==
    /\ \/ /\ UNCHANGED seen
          /\ \/ focus = "NPCreate" /\ NPCreate!Next
             \/ focus = "NPCancel" /\ NPCancel!Next
             \/ focus = "NPTwice" /\ NPTwice!Next
       \/ /\ UNCHANGED unsearched
          /\ \/ focus = "UPCreate" /\ UPCreate!Next
             \/ focus = "UPTwice" /\ UPTwice!Next
             \/ focus = "UPCancel" /\ UPCancel!Next
    /\ UNCHANGED <<focus, ofInstagram, ofRecognition, order, faults, ofDraft, ofSheets, ofImport, ofSync, run>>

NextReplies ==
    /\ \/ focus = "Fence" /\ Fence!Next
       \/ focus = "Echo" /\ Echo!Next
       \/ focus = "Guess" /\ Guess!Next
       \/ focus = "Crowd" /\ Crowd!Next
       \/ focus = "Typed" /\ Typed!Next
    /\ UNCHANGED <<focus, ofShipment, unsearched, seen, ofRecognition, order, faults, ofDraft, ofSheets,
                   frozen, freezes, lost, asked, ofImport, ofSync, run>>

NextRecognition ==
    /\ \/ focus = "Trigger" /\ Trigger!Next
       \/ focus = "Anchor" /\ Anchor!Next
    /\ UNCHANGED <<focus, ofShipment, unsearched, seen, ofInstagram, ofDraft, ofSheets, ofImport, ofSync, worker, asked>>

NextDraft ==
    /\ \/ focus = "Draft" /\ Draft!Next
       \/ focus = "Drafts" /\ Drafts!Next
    /\ UNCHANGED <<focus, ofShipment, unsearched, seen, ofInstagram, ofRecognition, order, faults, ofSheets, ofImport, ofSync, run,
                   freezes>>

NextExport ==
    /\ focus = "Sheets" /\ Sheets!Next
    /\ UNCHANGED <<focus, ofShipment, unsearched, seen, ofInstagram, ofRecognition, ofDraft, ofImport, ofSync, run, worker,
                   lost, asked>>

NextSync ==
    /\ \/ focus = "Sync" /\ Sync!Next
       \/ focus = "SyncFrozen" /\ SyncFrozen!Next
    /\ UNCHANGED <<focus, ofShipment, unsearched, seen, ofInstagram, ofRecognition, order, faults, ofDraft, ofSheets,
                   ofImport, run, asked>>

NextImport ==
    /\ focus = "Import" /\ Import!Next
    /\ UNCHANGED <<focus, ofShipment, unsearched, seen, ofInstagram, ofRecognition, order, faults, ofDraft, ofSheets,
                   ofSync, asked>>

Unaffected == UNCHANGED <<focus, ofShipment, unsearched, seen, ofInstagram, ofRecognition, order, faults, ofDraft,
                          ofSheets, ofImport, ofSync, run, frozen, freezes, asked>>
NextToken == focus = "Token" /\ Token!Next /\ Unaffected /\ UNCHANGED <<ofArchive, lost>>
NextArchive == focus = "Archive" /\ Archive!Next /\ Unaffected /\ UNCHANGED ofToken

Next ==
    \/ NextToken \/ NextArchive
    \/ /\ NextShipment \/ NextReplies \/ NextRecognition \/ NextDraft
          \/ NextExport \/ NextImport \/ NextSync
       /\ UNCHANGED lifecycle

Spec == Init /\ [][Next]_vars

-----------------------------------------------------------------------------
(* Properties of the components, of the instance that is in focus.          *)

In(f, P) == focus = f => P

\* The types of every component's state.
TypeOK ==
    /\ In("NPCreate", NPCreate!TypeOK) /\ In("NPCancel", NPCancel!TypeOK) /\ In("NPTwice", NPTwice!TypeOK)
    /\ In("UPCreate", UPCreate!TypeOK) /\ In("UPTwice", UPTwice!TypeOK) /\ In("UPCancel", UPCancel!TypeOK)
    /\ In("Fence", Fence!TypeOK) /\ In("Echo", Echo!TypeOK) /\ In("Guess", Guess!TypeOK)
    /\ In("Crowd", Crowd!TypeOK) /\ In("Typed", Typed!TypeOK)
    /\ In("Trigger", Trigger!TypeOK) /\ In("Anchor", Anchor!TypeOK)
    /\ In("Draft", Draft!TypeOK) /\ In("Drafts", Drafts!TypeOK)
    /\ In("Sheets", Sheets!TypeOK)
    /\ In("Import", Import!TypeOK)
    /\ In("Token", Token!TypeOK) /\ In("Archive", Archive!TypeOK)
    /\ In("Sync", Sync!TypeOK) /\ In("SyncFrozen", SyncFrozen!TypeOK)

\* Nova Poshta: a second waybill follows a lost claim or a failed search.
\* Ukrposhta: there is no second parcel.
ParcelsAreAccountedFor ==
    /\ In("NPCreate", NPCreate!WaybillsAreAccountedFor)
    /\ In("NPCancel", NPCancel!WaybillsAreAccountedFor)
    /\ In("NPTwice", NPTwice!WaybillsAreAccountedFor)
    /\ In("UPCreate", UPCreate!OneParcel)
    /\ In("UPTwice", UPTwice!OneParcel)
    /\ In("UPCancel", UPCancel!OneParcel)

\* Both carriers: what is being created has an attempt that goes on.
CreatingHasAttempt ==
    /\ In("NPCreate", NPCreate!CreatingHasAttempt) /\ In("UPCreate", UPCreate!CreatingHasAttempt)
    /\ In("NPCancel", NPCancel!CreatingHasAttempt) /\ In("UPTwice", UPTwice!CreatingHasAttempt)
    /\ In("NPTwice", NPTwice!CreatingHasAttempt) /\ In("UPCancel", UPCancel!CreatingHasAttempt)

\* Both carriers: what reads CANCELLED is not on its way.
CancelledIsDeleted ==
    /\ In("NPCreate", NPCreate!CancelledIsDeleted) /\ In("UPCreate", UPCreate!CancelledIsDeleted)
    /\ In("NPCancel", NPCancel!CancelledIsDeleted) /\ In("UPTwice", UPTwice!CancelledIsDeleted)
    /\ In("NPTwice", NPTwice!CancelledIsDeleted) /\ In("UPCancel", UPCancel!CancelledIsDeleted)

\* Ukrposhta: neither tracking nor a late creation takes a shipment back.
\* Imports: no late answer of the model replaces an owner's mapping.
\* Tokens: no late refresh replaces a newer pair or undoes a disconnection.
\* Archives: no late worker replaces one that was published or cancelled.
GoesForward ==
    [][/\ In("UPCancel", UPCancel!Forward) /\ In("UPTwice", UPTwice!Forward)
       /\ In("Import", Import!OwnersMappingStays)
       /\ In("Token", Token!PairsGoForward)
       /\ In("Archive", Archive!PublishedStays)]_vars

\* Instagram: every text the customer got was asked for, or a claim was lost.
SendsAreAccountedFor ==
    /\ In("Fence", Fence!SendsAreAccountedFor)
    /\ In("Echo", Echo!SendsAreAccountedFor)
    /\ In("Guess", Guess!SendsAreAccountedFor)
    /\ In("Crowd", Crowd!SendsAreAccountedFor)
    /\ In("Typed", Typed!SendsAreAccountedFor)

\* Instagram: only an echo, or a retry begun before, moves an UNKNOWN reply; an
\* echo becomes a second message only where it is ambiguous or may have missed
\* its reply, and settles another reply than its own only in the latter case.
EchoSettlesUnknown ==
    [][/\ In("Fence", Fence!AwaitsEcho /\ Fence!AddsAmbiguousRow /\ Fence!SettlesItsOwn)
       /\ In("Echo", Echo!AwaitsEcho /\ Echo!AddsAmbiguousRow /\ Echo!SettlesItsOwn)
       /\ In("Guess", Guess!AwaitsEcho /\ Guess!AddsAmbiguousRow /\ Guess!SettlesItsOwn)
       /\ In("Crowd", Crowd!AwaitsEcho /\ Crowd!AddsAmbiguousRow /\ Crowd!SettlesItsOwn)
       /\ In("Typed", Typed!AwaitsEcho /\ Typed!AddsAmbiguousRow /\ Typed!SettlesItsOwn)]_vars

\* Recognition: one order and one set of items of a message, and an evaluation
\* that agrees with its message's order.
RecognisedOnce ==
    /\ In("Trigger", Trigger!RecognisedOnce)
    /\ In("Anchor", Anchor!RecognisedOnce /\ Anchor!EvaluationFitsOrder)

\* Recognition: only a run that died leaves an order AI_PROCESSING.
StuckOnlyIfLost == In("Trigger", Trigger!StuckOnlyIfLost) /\ In("Anchor", Anchor!StuckOnlyIfLost)

\* Recognition and drafts: the model is asked once for each message and draft,
\* but for failed runs and claims outlived.
ModelIsAskedOnce ==
    /\ In("Trigger", Trigger!ModelIsAskedOnce) /\ In("Anchor", Anchor!ModelIsAskedOnce)
    /\ In("Draft", Draft!ModelIsAskedOnce) /\ In("Drafts", Drafts!ModelIsAskedOnce)

\* Drafts: what is STALE was outrun.
StaleIsOutrun == In("Draft", Draft!StaleIsOutrun) /\ In("Drafts", Drafts!StaleIsOutrun)

\* Exports: a second row, a row that is out of date, and a row whose items
\* nobody approved, have their reasons.
ExportFollowsOrder == In("Sheets", Sheets!OneRowUnlessRenewed /\ Sheets!ExportIsCurrent)

\* Imports: a file's products are written once, as it was mapped last; what
\* reads COMPLETED, of a file or of a sheet, wrote its products.
ImportFollowsMapping ==
    /\ In("Import", Import!ImportFollowsMapping)
    /\ In("Sync", Sync!CompletedIsWritten) /\ In("SyncFrozen", SyncFrozen!CompletedIsWritten)

\* TikTok's tokens: one refresh at a time, whose pair of tokens is kept.
TokensAreKept == In("Token", Token!OneRefresh /\ Token!LastPairIsKept)

\* Archives: what is in the storage will be deleted, or a lost claim, a doubtful
\* upload or a late cancellation kept it there; what is ready is there.
ArchivesAreAccountedFor == In("Archive", Archive!ObjectsAreAccountedFor /\ Archive!ReadyIsDownloadable)

\* Synchronization: products never go back to what the sheet was before.
WritesGoForward ==
    [][In("Sync", Sync!WritesGoForward) /\ In("SyncFrozen", SyncFrozen!WritesGoForward)]_vars
=============================================================================
