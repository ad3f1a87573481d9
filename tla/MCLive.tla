------------------------------- MODULE MCLive -------------------------------
(* What the worker owes in the end.  Small instances of its services and of *)
(* procurement, which its timer mends, one in every behaviour: "focus" says *)
(* which.  Variables of one name serve every instance that has them; those  *)
(* that it does not have keep Absent.                                       *)
EXTENDS Integers, TLC

CONSTANTS M1, W1, W2, R1, A1, I1, P1, O1, O2, Absent

VARIABLES
    focus,
    message, connection, enabled, frozen, retrying, queue, worker, retries, unusable,
    generations, callbacks, expiring, crashes, got, through,
    rows, stalls, sent, recent, near,
    item, delivery, taken, alerted, freezes,
    latest, worded, unscheduled, draft, catalogue, switches, lost, asked,
    order, lines, assessed, evaluation, expired, event, run, faults, calls, failed,
    mappings, owned, confirming, applied, outrun,
    stock, active, ostatus, handedOff, sorted, dispatched, job

ofReplies == <<message, connection, retrying, retries, unusable>>
ofTikTok == <<generations, callbacks, expiring, crashes, through>>
ofInstagram == <<rows, sent, recent, near>>
ofSupplier == <<taken, alerted>>
ofDraft == <<latest, worded, unscheduled, draft, catalogue, switches, asked>>
ofRecognition == <<order, lines, assessed, evaluation, expired, event, faults, calls, failed>>
ofImport == <<mappings, owned, confirming, applied, outrun>>
ofProcurement == <<stock, active, ostatus, handedOff, sorted, dispatched, job>>
vars == <<focus, ofReplies, ofTikTok, ofInstagram, ofSupplier, ofDraft, ofRecognition, ofImport, ofProcurement,
          enabled, frozen, queue, worker, got, stalls, freezes, lost, item, delivery, run>>

-----------------------------------------------------------------------------
TikTok == INSTANCE TikTokDelivery WITH
    Messages <- {M1}, Workers <- {W1}, Managers <- {R1}, NoMessage <- Absent, MAX_ATTEMPTS <- 2,
    MaxRetries <- 1, MaxGenerations <- 1, MaxCrashes <- 1
Instagram == INSTANCE InstagramDelivery WITH
    Messages <- {M1}, Text <- [m \in {M1, Absent} |-> 1], Workers <- {W1, W2}, Managers <- {R1}, NoMessage <- Absent,
    MAX_ATTEMPTS <- 2, MAX_CANDIDATES <- 1, MaxRetries <- 0, MaxGenerations <- 1, MaxStalls <- 1, MaxTyped <- 0
Telegram == INSTANCE SupplierDispatch WITH
    Items <- {I1}, Dispatches <- {1}, Workers <- {W1, W2}, MAX_ATTEMPTS <- 2, MaxStalls <- 2, MaxFreezes <- 1
Draft == INSTANCE ReplyDraft WITH
    Drafts <- {1}, Workers <- {W1, W2}, MAX_ATTEMPTS <- 2,
    MaxMessages <- 2, MaxEdits <- 1, MaxSwitches <- 1, MaxLost <- 1
Recognition == INSTANCE OrderRecognition WITH
    Triggers <- {}, Anchors <- {A1}, NoMessage <- Absent, Runs <- {1, 2}, MaxFaults <- 1, MaxFreezes <- 0
Import == INSTANCE CatalogueImport WITH
    Workers <- {W1, W2}, Owners <- {R1}, MaxMappings <- 2, MaxLost <- 2, MaxFreezes <- 1

(* Two orders compete for one unit of a product, while a manager, imports,  *)
(* the backfill and crashes interleave.                                     *)
Procurement == INSTANCE Procurement WITH
    Products <- {P1}, NoProduct <- Absent, Orders <- {O1, O2}, NoOrder <- Absent,
    Items <- {1, 2}, OrderOf <- (1 :> O1) @@ (2 :> O2), MaxQuantity <- 1, MaxStock <- 1,
    Managers <- {R1}, Worker <- W1,
    Duty <- (R1 :> {"approve", "correct", "setItem", "import"}) @@ (W1 :> {"backfill"})

-----------------------------------------------------------------------------
NoReplies == message = Absent /\ connection = Absent /\ retrying = Absent /\ retries = Absent /\ unusable = Absent
NoTikTok == generations = Absent /\ callbacks = Absent /\ expiring = Absent /\ crashes = Absent /\ through = Absent
NoInstagram == rows = Absent /\ sent = Absent /\ recent = Absent /\ near = Absent
NoDraft ==
    /\ latest = Absent /\ worded = Absent /\ unscheduled = Absent /\ draft = Absent
    /\ catalogue = Absent /\ switches = Absent /\ asked = Absent
NoSupplier == taken = Absent /\ alerted = Absent
NoRecognition ==
    /\ order = Absent /\ lines = Absent /\ assessed = Absent /\ evaluation = Absent /\ expired = Absent
    /\ event = Absent /\ faults = Absent /\ calls = Absent /\ failed = Absent
NoImport ==
    /\ mappings = Absent /\ owned = Absent /\ confirming = Absent /\ applied = Absent /\ outrun = Absent
NoItems == item = Absent /\ delivery = Absent
NoProcurement ==
    /\ stock = Absent /\ active = Absent /\ ostatus = Absent /\ handedOff = Absent
    /\ sorted = Absent /\ dispatched = Absent /\ job = Absent

InitService ==
    \/ /\ focus = "TikTok" /\ TikTok!Init
       /\ NoInstagram /\ NoSupplier /\ NoDraft /\ NoRecognition /\ NoItems /\ NoImport /\ run = Absent
       /\ stalls = Absent /\ freezes = Absent /\ lost = Absent
    \/ /\ focus = "Instagram" /\ Instagram!Init
       /\ NoTikTok /\ NoSupplier /\ NoDraft /\ NoRecognition /\ NoItems /\ NoImport /\ run = Absent
       /\ enabled = Absent /\ frozen = Absent /\ got = Absent /\ freezes = Absent /\ lost = Absent
    \/ /\ focus = "Telegram" /\ Telegram!Init
       /\ NoReplies /\ NoTikTok /\ NoInstagram /\ NoDraft /\ NoRecognition /\ NoImport /\ run = Absent
       /\ enabled = Absent /\ lost = Absent
    \/ /\ focus = "Draft" /\ Draft!Init
       /\ NoReplies /\ NoTikTok /\ NoInstagram /\ NoSupplier /\ NoRecognition /\ NoItems /\ NoImport /\ run = Absent
       /\ queue = Absent /\ got = Absent /\ stalls = Absent /\ freezes = Absent
    \/ /\ focus = "Recognition" /\ Recognition!Init
       /\ NoReplies /\ NoTikTok /\ NoInstagram /\ NoSupplier /\ NoDraft /\ NoItems /\ NoImport
       /\ enabled = Absent /\ queue = Absent /\ worker = Absent /\ got = Absent /\ stalls = Absent
    \/ /\ focus = "Import" /\ Import!Init
       /\ NoReplies /\ NoTikTok /\ NoInstagram /\ NoSupplier /\ NoDraft /\ NoRecognition /\ NoItems
       /\ enabled = Absent /\ queue = Absent /\ got = Absent /\ stalls = Absent

Init ==
    \/ InitService /\ NoProcurement
    \/ /\ focus = "Procurement" /\ Procurement!Init
       /\ NoReplies /\ NoTikTok /\ NoInstagram /\ NoSupplier /\ NoDraft /\ NoRecognition /\ NoImport /\ run = Absent
       /\ enabled = Absent /\ frozen = Absent /\ queue = Absent /\ worker = Absent /\ got = Absent
       /\ stalls = Absent /\ freezes = Absent /\ lost = Absent

\* A step of the service in focus: whether it is that, and what it leaves alone.
OnTikTok ==
    /\ focus = "TikTok"
    /\ UNCHANGED <<focus, ofInstagram, ofSupplier, ofDraft, ofRecognition, ofImport, ofProcurement, run,
                   stalls, freezes, lost, item, delivery>>
OnInstagram ==
    /\ focus = "Instagram"
    /\ UNCHANGED <<focus, ofTikTok, ofSupplier, ofDraft, ofRecognition, ofImport, ofProcurement, run,
                   enabled, frozen, got, freezes, lost, item, delivery>>
OnTelegram ==
    /\ focus = "Telegram"
    /\ UNCHANGED <<focus, ofReplies, ofTikTok, ofInstagram, ofDraft, ofRecognition, ofImport, ofProcurement, run,
                   enabled, lost>>
OnDraft ==
    /\ focus = "Draft"
    /\ UNCHANGED <<focus, ofReplies, ofTikTok, ofInstagram, ofSupplier, ofRecognition, ofImport, ofProcurement, run,
                   queue, got, stalls, freezes, item, delivery>>
OnRecognition ==
    /\ focus = "Recognition"
    /\ UNCHANGED <<focus, ofReplies, ofTikTok, ofInstagram, ofSupplier, ofDraft, ofImport, ofProcurement,
                   enabled, queue, worker, got, stalls, item, delivery>>
OnImport ==
    /\ focus = "Import"
    /\ UNCHANGED <<focus, ofReplies, ofTikTok, ofInstagram, ofSupplier, ofDraft, ofRecognition, ofProcurement,
                   enabled, queue, got, stalls, item, delivery>>
OnProcurement ==
    /\ focus = "Procurement"
    /\ UNCHANGED <<focus, ofReplies, ofTikTok, ofInstagram, ofSupplier, ofDraft, ofRecognition, ofImport, run,
                   enabled, frozen, queue, worker, got, stalls, freezes, lost>>

Next ==
    \/ OnTikTok /\ TikTok!Next
    \/ OnInstagram /\ Instagram!Next
    \/ OnTelegram /\ Telegram!Next
    \/ OnDraft /\ Draft!Next
    \/ OnRecognition /\ Recognition!Next
    \/ OnImport /\ Import!Next
    \/ OnProcurement /\ Procurement!Next

-----------------------------------------------------------------------------
(* Fairness: what each service assumes.  As the focus never changes, the     *)
(* fairness of a step is that of the step of the service in focus.           *)

Works(w) ==
    \/ OnTikTok /\ w = W1 /\ TikTok!WorkerStep(w)
    \/ OnInstagram /\ Instagram!WorkerStep(w)
    \/ OnTelegram /\ Telegram!WorkerStep(w)
    \/ OnDraft /\ Draft!WorkerGoesOn(w)
    \/ OnRecognition /\ Recognition!Step(IF w = W1 THEN 1 ELSE 2)
    \/ OnImport /\ Import!WorkerStep(w)
    \/ OnProcurement /\ w = W1 /\ (Procurement!AssessRead(w) \/ Procurement!AssessCommit(w))

Reconciles ==
    \/ OnTikTok /\ TikTok!MessageStep(M1)
    \/ OnInstagram /\ Instagram!MessageStep(M1)
    \/ OnTelegram /\ Telegram!DeliveryStep(1)
    \/ OnDraft /\ Draft!DraftStep(1)
    \/ OnRecognition /\ Recognition!IgnoreFrozen(A1)
    \/ OnImport /\ Import!ExpireLease /\ UNCHANGED lost

TakesUp ==
    \/ OnInstagram /\ Instagram!TimePasses
    \/ OnDraft /\ enabled /\ \E w \in {W1, W2} : Draft!Claim(w, 1)

\* The backfill goes on with the order it has taken, and does not pass O1 over
\* for ever; O2 may be what keeps it busy.
Begins ==
    \/ OnRecognition /\ \E r \in {1, 2} : Recognition!Start(r, A1)
    \/ OnProcurement /\ Procurement!Backfill(O1)
Reads == OnProcurement /\ job[W1].order = O1 /\ Procurement!AssessRead(W1)
Assesses == OnProcurement /\ job[W1].order = O1 /\ Procurement!AssessCommit(W1)

FairSpec ==
    /\ Init /\ [][Next]_vars
    /\ \A w \in {W1, W2} : WF_vars(Works(w))
    /\ WF_vars(Reconciles) /\ WF_vars(TakesUp)
    /\ SF_vars(Begins) /\ SF_vars(Reads) /\ SF_vars(Assesses)

-----------------------------------------------------------------------------
(* Properties                                                               *)

\* A reply over TikTok or Instagram and a supplier's message end, in spite of
\* lost wake-ups and jobs, deferrals, refusals and freezes, unless the channel
\* of TikTok is turned off again and again.
Undelivered ==
    \/ focus = "TikTok" /\ TikTok!HasStatus(M1, {"PENDING", "SENDING"})
    \/ focus = "Instagram" /\ Instagram!HasStatus(M1, {"PENDING", "SENDING"})
    \/ focus = "Telegram" /\ Telegram!Active(1)
DeliveriesEnd == <>[](focus = "TikTok" => enabled) => (Undelivered ~> ~Undelivered)

\* The event of a customer's message is processed, and a draft that was asked
\* for ends while drafts are enabled and the tenant is not frozen.  An uploaded
\* file is mapped, left to its owner or cancelled.
Unfinished ==
    \/ focus = "Recognition" /\ event[A1] = "RECEIVED"
    \/ focus = "Draft" /\ draft[1].status \in Draft!Active /\ enabled /\ ~frozen
    \/ focus = "Import" /\ Import!Unmapped
JobsEnd == Unfinished ~> ~Unfinished

\* An approval whose assessment was lost to a crash is made good by the backfill:
\* an approved order does not keep an unassessed item for ever.
Unassessed == focus = "Procurement" /\ Procurement!Unassessed(O1)
ApprovedIsAssessed == Unassessed ~> ~Unassessed

\* No step reserves more of a product than there is, for two orders at once.
NoOversell == [][focus = "Procurement" => Procurement!NoOversellStep]_vars
=============================================================================
