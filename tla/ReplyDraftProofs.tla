-------------------------- MODULE ReplyDraftProofs --------------------------
(***************************************************************************)
(* Proofs about ReplyDraft, for all drafts, workers, messages, changes of   *)
(* products, crashes and outlived leases.                                   *)
(***************************************************************************)
EXTENDS ReplyDraft, TLAPS

\* Drafts and bounds are numbers, and there is a first draft.
Numbers ==
    /\ MAX_ATTEMPTS \in Nat /\ MaxMessages \in Nat /\ MaxEdits \in Nat
    /\ 1 \in Drafts

-----------------------------------------------------------------------------
(* The inductive invariant                                                  *)

\* What the property says of a draft that is STALE.
Outrun(d) ==
    \/ latest > draft[d].anchor
    \/ draft[d].source \notin {-1, catalogue}
    \/ draft[d].anchor \notin worded

\* A draft cites what there has been, and the model is asked after it is marked.
DraftFits(d) ==
    /\ draft[d].anchor <= latest
    /\ draft[d].source <= catalogue
    /\ draft[d].status = "NONE" => ~draft[d].started
    /\ ~draft[d].started => asked[d] = 0
    /\ draft[d].status = "STALE" => Outrun(d)
    /\ asked[d] <= 1

\* A worker that is to ask the model is the first, and the owner of a claim
\* knows which products its draft cites.
Knows == {"starting", "calling", "checking", "failing"}
WorkerFits(w) ==
    LET d == worker[w].draft IN
    worker[w].phase # "idle" =>
        /\ draft[d].status # "NONE"
        /\ worker[w].lease <= draft[d].attempts
        /\ (worker[w].phase \in Knows /\ Owns(w)) => draft[d].source = worker[w].source
        /\ worker[w].phase = "calling" => draft[d].started /\ asked[d] = 0

\* A claim has one holder, and one worker asks the model.
ClaimsAreOnes ==
    \A w, v \in Workers :
        (w # v /\ worker[w].phase # "idle" /\ worker[v].phase # "idle" /\ worker[w].draft = worker[v].draft) =>
            /\ worker[w].lease # worker[v].lease
            /\ ~(worker[w].phase = "calling" /\ worker[v].phase = "calling")

IInv ==
    /\ TypeOK
    /\ \A d \in Drafts : DraftFits(d)
    /\ \A w \in Workers : WorkerFits(w)
    /\ ClaimsAreOnes

-----------------------------------------------------------------------------
(* Operators                                                                *)

Statuses == Active \cup Ended \cup {"NONE"}

LEMMA IdleFits == ASSUME Numbers PROVE Idle \in Work /\ Idle.phase = "idle"
BY DEF Numbers, Idle, Work, Phase

LEMMA FieldsFit ==
    ASSUME NEW x \in Draft
    PROVE  /\ x.status \in Statuses /\ x.anchor \in 0..MaxMessages /\ x.automatic \in BOOLEAN
           /\ x.available \in BOOLEAN /\ x.attempts \in 0..MAX_ATTEMPTS /\ x.expired \in BOOLEAN
           /\ x.started \in BOOLEAN /\ x.source \in Editions \cup {-1}
BY DEF Draft, Statuses

\* What With sets and what it leaves.
LEMMA WithFits ==
    ASSUME TypeOK, NEW d \in Drafts, NEW status \in Statuses
    PROVE  /\ With(d, status) \in Draft
           /\ With(d, status).status = status
           /\ With(d, status).anchor = draft[d].anchor
           /\ With(d, status).attempts = draft[d].attempts
           /\ With(d, status).started = draft[d].started
           /\ With(d, status).source = draft[d].source
<1>1. draft[d] \in Draft
    BY DEF TypeOK
<1>2. With(d, status) = [draft[d] EXCEPT !.status = status, !.expired = FALSE]
    BY DEF With
<1>3. QED
    BY <1>1, <1>2 DEF Draft, Statuses

\* A message with words that is the latest of all is the latest with words.
LEMMA OlderIsOutrun ==
    ASSUME Numbers, TypeOK, NEW a \in 0..MaxMessages, a <= latest, a # LatestWorded
    PROVE  latest > a \/ a \notin worded
<1>1. SUFFICES ASSUME a = latest, a \in worded PROVE FALSE
    BY DEF TypeOK, Numbers
<1>2. worded \subseteq 1..latest /\ latest \in Nat
    BY DEF TypeOK, Numbers
<1>3. \A n \in worded : n <= a
    BY <1>1, <1>2
<1>4. PICK m : m = CHOOSE x \in worded : \A n \in worded : n <= x
    OBVIOUS
<1>5. m \in worded /\ \A n \in worded : n <= m
    BY <1>1, <1>3, <1>4
<1>6. m = a
    BY <1>1, <1>2, <1>3, <1>5
<1>7. LatestWorded = m
    BY <1>1, <1>4 DEF LatestWorded
<1>8. QED
    BY <1>6, <1>7

\* What a claim in the recall makes of its draft.
LEMMA ObjectionIs ==
    ASSUME NEW w \in Workers
    PROVE  /\ RecallObjection(w) \in {"BLOCKED", "STALE", "NONE"}
           /\ RecallObjection(w) = "STALE" => ~IsCurrent(worker[w].draft)
BY DEF RecallObjection

-----------------------------------------------------------------------------
(* Steps that start no work                                                 *)

\* A row is kept, if need be with another status: a claim may end, none begins.
Kept(d) ==
    /\ draft'[d].anchor = draft[d].anchor
    /\ draft'[d].source = draft[d].source
    /\ draft'[d].started = draft[d].started
    /\ draft'[d].attempts >= draft[d].attempts
    /\ draft'[d].status = "NONE" <=> draft[d].status = "NONE"
    /\ draft'[d].status = "PROCESSING" => draft[d].status = "PROCESSING" /\ draft'[d].attempts = draft[d].attempts
    /\ draft'[d].status = "STALE" => draft[d].status = "STALE" \/ Outrun(d)

Added(d) ==
    /\ draft[d].status = "NONE" /\ draft'[d].status = "QUEUED"
    /\ draft'[d].anchor <= latest /\ ~draft'[d].started /\ draft'[d].source = -1

LEMMA NoWorkBegins ==
    ASSUME Numbers, IInv,
           draft' \in [Drafts -> Draft],
           \A d \in Drafts : Kept(d) \/ Added(d),
           worker' \in [Workers -> Work],
           \A w \in Workers : worker'[w] = worker[w] \/ worker'[w] = Idle,
           UNCHANGED <<latest, worded, catalogue, asked>>,
           unscheduled' \subseteq unscheduled,
           enabled' \in BOOLEAN, frozen' \in BOOLEAN, switches' \in Nat, lost' \in Nat
    PROVE  IInv'
<1>1. TypeOK'
    BY DEF IInv, TypeOK, Editions
<1>2. ASSUME NEW d \in Drafts PROVE DraftFits(d)'
    <2>1. draft[d] \in Draft /\ draft'[d] \in Draft /\ catalogue \in Nat /\ latest \in Nat /\ asked[d] \in Nat
        BY DEF IInv, TypeOK, Editions, Numbers
    <2>2. DraftFits(d)
        BY DEF IInv
    <2>3. CASE Kept(d)
        <3>1. draft'[d].status = "STALE" => Outrun(d)'
            BY <2>2, <2>3 DEF Kept, DraftFits, Outrun
        <3>2. QED
            BY <2>2, <2>3, <3>1 DEF Kept, DraftFits
    <2>4. CASE Added(d)
        BY <2>1, <2>2, <2>4 DEF Added, DraftFits
    <2>5. QED
        BY <2>3, <2>4
<1>3. ASSUME NEW w \in Workers, worker'[w].phase # "idle"
      PROVE  /\ worker'[w] = worker[w] /\ worker[w].phase # "idle" /\ worker[w].draft \in Drafts
             /\ draft[worker[w].draft].status # "NONE" /\ Kept(worker[w].draft)
    <2>1. worker'[w] = worker[w] /\ worker[w].phase # "idle"
        BY <1>3, IdleFits
    <2>2. worker[w].draft \in Drafts
        BY DEF IInv, TypeOK, Work
    <2>3. draft[worker[w].draft].status # "NONE"
        BY <2>1 DEF IInv, WorkerFits
    <2>4. QED
        BY <2>1, <2>2, <2>3 DEF Added
<1>4. ASSUME NEW w \in Workers PROVE WorkerFits(w)'
    <2>1. SUFFICES ASSUME worker'[w].phase # "idle" PROVE WorkerFits(w)'
        BY DEF WorkerFits
    <2>2. PICK d \in Drafts : d = worker[w].draft /\ d = worker'[w].draft
        BY <1>3, <2>1
    <2>3. /\ worker'[w] = worker[w] /\ worker[w].phase # "idle"
          /\ draft[d].status # "NONE" /\ Kept(d)
        BY <1>3, <2>1, <2>2
    <2>4. WorkerFits(w)
        BY DEF IInv
    <2>5. draft[d] \in Draft /\ draft'[d] \in Draft /\ worker[w] \in Work
        BY DEF IInv, TypeOK
    <2>6. draft[d].attempts \in Int /\ draft'[d].attempts \in Int /\ worker[w].lease \in Int
        BY <2>5, FieldsFit DEF Work
    <2>7. worker[w].lease <= draft'[d].attempts
        BY <2>2, <2>3, <2>4, <2>6 DEF WorkerFits, Kept
    <2>8. Owns(w)' => Owns(w)
        BY <2>2, <2>3 DEF Owns, Kept
    <2>9. QED
        BY <2>2, <2>3, <2>4, <2>7, <2>8 DEF WorkerFits, Kept
<1>5. ClaimsAreOnes'
    BY <1>3 DEF IInv, ClaimsAreOnes
<1>6. QED
    BY <1>1, <1>2, <1>4, <1>5 DEF IInv

\* A row that gets a status, and no worker that begins.
LEMMA OneRowIsKept ==
    ASSUME Numbers, IInv,
           NEW d \in Drafts, NEW row \in Draft,
           draft' = [draft EXCEPT ![d] = row],
           row.anchor = draft[d].anchor, row.source = draft[d].source, row.started = draft[d].started,
           row.attempts >= draft[d].attempts,
           row.status = "NONE" <=> draft[d].status = "NONE",
           row.status = "PROCESSING" => draft[d].status = "PROCESSING" /\ row.attempts = draft[d].attempts,
           row.status = "STALE" => draft[d].status = "STALE" \/ Outrun(d),
           worker' \in [Workers -> Work],
           \A w \in Workers : worker'[w] = worker[w] \/ worker'[w] = Idle,
           UNCHANGED <<inbox, catalogue, enabled, frozen, switches, asked>>,
           lost' \in Nat
    PROVE  IInv'
<1>1. draft \in [Drafts -> Draft]
    BY DEF IInv, TypeOK
<1>2. draft' \in [Drafts -> Draft] /\ draft'[d] = row /\ \A e \in Drafts \ {d} : draft'[e] = draft[e]
    BY <1>1
<1>3. Kept(d)
    BY <1>2 DEF Kept
<1>4. ASSUME NEW e \in Drafts \ {d} PROVE Kept(e)
    <2>1. draft'[e] = draft[e] /\ draft[e] \in Draft
        BY <1>1, <1>2
    <2>2. draft[e].attempts \in 0..MAX_ATTEMPTS
        BY <2>1, FieldsFit
    <2>3. draft[e].attempts >= draft[e].attempts
        BY <2>2 DEF Numbers
    <2>4. QED
        BY <2>1, <2>3 DEF Kept
<1>5. /\ latest' = latest /\ worded' = worded /\ unscheduled' = unscheduled /\ catalogue' = catalogue
      /\ enabled' = enabled /\ frozen' = frozen /\ switches' = switches /\ asked' = asked
    BY DEF inbox
<1>6. enabled' \in BOOLEAN /\ frozen' \in BOOLEAN /\ switches' \in Nat
    BY <1>5 DEF IInv, TypeOK
<1>7. QED
    BY <1>2, <1>3, <1>4, <1>5, <1>6, NoWorkBegins

\* A worker that comes to rest, whatever it leaves.
LEMMA WorkerRests ==
    ASSUME Numbers, TypeOK, NEW w \in Workers, Rests(w)
    PROVE  /\ worker' \in [Workers -> Work]
           /\ \A v \in Workers : worker'[v] = worker[v] \/ worker'[v] = Idle
BY IdleFits DEF Rests, TypeOK

LEMMA NothingChanges ==
    ASSUME Numbers, IInv, UNCHANGED <<inbox, draft, catalogue, asked>>,
           worker' \in [Workers -> Work],
           \A w \in Workers : worker'[w] = worker[w] \/ worker'[w] = Idle,
           enabled' \in BOOLEAN, frozen' \in BOOLEAN, switches' \in Nat, lost' \in Nat
    PROVE  IInv'
<1>1. draft' = draft /\ draft \in [Drafts -> Draft]
    BY DEF IInv, TypeOK
<1>2. ASSUME NEW d \in Drafts PROVE Kept(d)
    <2>1. draft[d].attempts \in 0..MAX_ATTEMPTS
        BY <1>1, FieldsFit
    <2>2. draft[d].attempts >= draft[d].attempts
        BY <2>1 DEF Numbers
    <2>3. QED
        BY <1>1, <2>2 DEF Kept
<1>3. latest' = latest /\ worded' = worded /\ unscheduled' = unscheduled /\ catalogue' = catalogue /\ asked' = asked
    BY DEF inbox
<1>4. draft' \in [Drafts -> Draft]
    BY <1>1
<1>5. QED
    BY <1>2, <1>3, <1>4, NoWorkBegins

LEMMA SettlingKeeps ==
    ASSUME Numbers, IInv, NEW w \in Workers, NEW status \in Ended,
           Settles(w, status),
           (Owns(w) /\ status = "STALE") => Outrun(worker[w].draft),
           UNCHANGED <<inbox, world, asked>>
    PROVE  IInv'
<1>1. /\ worker' \in [Workers -> Work]
      /\ \A v \in Workers : worker'[v] = worker[v] \/ worker'[v] = Idle
    BY WorkerRests DEF Settles, IInv
<1>2. PICK d \in Drafts : d = worker[w].draft
    BY DEF IInv, TypeOK, Work
<1>3. /\ UNCHANGED <<inbox, catalogue, enabled, frozen, switches, asked>> /\ lost' \in Nat
      /\ enabled' \in BOOLEAN /\ frozen' \in BOOLEAN /\ switches' \in Nat
    BY DEF world, IInv, TypeOK
<1>4. CASE Owns(w)
    <2>1. PICK row : row = With(d, status)
        OBVIOUS
    <2>2. draft' = [draft EXCEPT ![d] = row]
        BY <1>2, <1>4, <2>1 DEF Settles
    <2>3. status \in Statuses /\ status # "NONE" /\ status # "PROCESSING"
        BY DEF Statuses, Ended
    <2>4. /\ row \in Draft /\ row.status = status /\ row.anchor = draft[d].anchor
          /\ row.source = draft[d].source /\ row.started = draft[d].started /\ row.attempts = draft[d].attempts
        BY <2>1, <2>3, WithFits DEF IInv
    <2>5. row.attempts >= draft[d].attempts
        BY <2>4, FieldsFit DEF Numbers
    <2>6. draft[d].status = "PROCESSING"
        BY <1>2, <1>4 DEF Owns
    <2>7. QED
        BY <1>1, <1>2, <1>3, <1>4, <2>2, <2>3, <2>4, <2>5, <2>6, OneRowIsKept
<1>5. CASE ~Owns(w)
    <2>1. draft' = draft
        BY <1>5 DEF Settles
    <2>2. QED
        BY <1>1, <1>3, <2>1, NothingChanges
<1>6. QED
    BY <1>4, <1>5

-----------------------------------------------------------------------------
(* The steps                                                                *)

\* What supersedes a draft outruns it, and the new row is of the latest message.
LEMMA SupersededAreOutrun ==
    ASSUME Numbers, IInv, NEW a \in 0..MaxMessages,
           a = latest \/ a = LatestWorded
    PROVE  /\ Superseded(a) \in [Drafts -> Draft]
           /\ \A d \in Drafts :
                  \/ Superseded(a)[d] = draft[d]
                  \/ /\ draft[d].status \in Active \cup {"READY"} /\ Outrun(d)
                     /\ Superseded(a)[d] = With(d, "STALE")
<1>1. "STALE" \in Statuses
    BY DEF Statuses, Ended
<1>2. ASSUME NEW d \in Drafts PROVE With(d, "STALE") \in Draft /\ draft[d] \in Draft
    BY <1>1, WithFits DEF IInv, TypeOK
<1>3. Superseded(a) \in [Drafts -> Draft]
    BY <1>2 DEF Superseded
<1>4. ASSUME NEW d \in Drafts, draft[d].anchor # a PROVE Outrun(d)
    <2>1. draft[d].anchor \in 0..MaxMessages /\ draft[d].anchor <= latest /\ latest \in 0..MaxMessages
        BY FieldsFit DEF IInv, TypeOK, DraftFits
    <2>2. latest > draft[d].anchor \/ draft[d].anchor \notin worded
        BY <1>4, <2>1, OlderIsOutrun DEF IInv, Numbers
    <2>3. QED
        BY <2>2 DEF Outrun
<1>5. QED
    BY <1>3, <1>4 DEF Superseded

LEMMA SupersedingKeeps ==
    ASSUME Numbers, IInv, NEW a \in 0..MaxMessages, a <= latest,
           a = latest \/ a = LatestWorded,
           \/ draft' = Superseded(a)
           \/ \E d \in Next1, automatic \in BOOLEAN : draft' = Queued(d, a, automatic),
           UNCHANGED <<latest, worded, worker, world, asked>>, unscheduled' \subseteq unscheduled
    PROVE  IInv'
<1>1. PICK s : s = Superseded(a)
    OBVIOUS
<1>2. s \in [Drafts -> Draft]
    BY <1>1, SupersededAreOutrun
<1>3. ASSUME NEW d \in Drafts, draft'[d] = s[d] PROVE Kept(d)
    <2>1. \/ s[d] = draft[d]
          \/ draft[d].status \in Active \cup {"READY"} /\ Outrun(d) /\ s[d] = With(d, "STALE")
        BY <1>1, SupersededAreOutrun
    <2>2. draft[d].attempts \in 0..MAX_ATTEMPTS
        BY FieldsFit DEF IInv, TypeOK
    <2>3. draft[d].attempts >= draft[d].attempts
        BY <2>2 DEF Numbers
    <2>4. CASE s[d] = draft[d]
        BY <1>3, <2>3, <2>4 DEF Kept
    <2>5. CASE draft[d].status \in Active \cup {"READY"} /\ Outrun(d) /\ s[d] = With(d, "STALE")
        <3>1. "STALE" \in Statuses
            BY DEF Statuses, Ended
        <3>2. /\ s[d].status = "STALE" /\ s[d].anchor = draft[d].anchor /\ s[d].attempts = draft[d].attempts
              /\ s[d].started = draft[d].started /\ s[d].source = draft[d].source
            BY <2>5, <3>1, WithFits DEF IInv
        <3>3. QED
            BY <1>3, <2>3, <2>5, <3>2 DEF Kept, Active
    <2>6. QED
        BY <2>1, <2>4, <2>5
<1>4. /\ worker' \in [Workers -> Work] /\ worker' = worker
      /\ UNCHANGED <<latest, worded, catalogue, asked>>
      /\ enabled' \in BOOLEAN /\ frozen' \in BOOLEAN /\ switches' \in Nat /\ lost' \in Nat
    BY DEF world, IInv, TypeOK
<1>5. CASE draft' = Superseded(a)
    BY <1>1, <1>2, <1>3, <1>4, <1>5, NoWorkBegins
<1>6. ASSUME NEW d \in Next1, NEW automatic \in BOOLEAN, draft' = Queued(d, a, automatic) PROVE IInv'
    <2>1. d \in Drafts /\ draft[d].status = "NONE"
        BY DEF Next1
    <2>2. PICK row : row = [NoDraft EXCEPT !.status = "QUEUED", !.anchor = a, !.automatic = automatic,
                                           !.available = ~automatic]
        OBVIOUS
    <2>3. row \in Draft /\ row.status = "QUEUED" /\ row.anchor = a /\ ~row.started /\ row.source = -1
        <3>1. row = [status |-> "QUEUED", anchor |-> a, automatic |-> automatic, available |-> ~automatic,
                     attempts |-> 0, expired |-> FALSE, started |-> FALSE, source |-> -1]
            BY <2>2 DEF NoDraft
        <3>2. 0 \in 0..MAX_ATTEMPTS
            BY DEF Numbers
        <3>3. (~automatic) \in BOOLEAN
            OBVIOUS
        <3>4. QED
            BY <3>1, <3>2, <3>3 DEF Draft, Active
    <2>4. draft' = [s EXCEPT ![d] = row]
        BY <1>1, <1>6, <2>2 DEF Queued
    <2>5. draft' \in [Drafts -> Draft] /\ draft'[d] = row /\ \A e \in Drafts \ {d} : draft'[e] = s[e]
        BY <1>2, <2>1, <2>3, <2>4
    <2>6. Added(d)
        BY <2>1, <2>3, <2>5 DEF Added
    <2>7. \A e \in Drafts \ {d} : Kept(e)
        BY <1>3, <2>5
    <2>8. QED
        BY <1>4, <2>5, <2>6, <2>7, NoWorkBegins
<1>7. QED
    BY <1>5, <1>6

LEMMA ScheduleStep == ASSUME Numbers, IInv, NEW m \in Messages, Schedule(m) PROVE IInv'
<1>1. m \in 0..MaxMessages /\ m <= latest
    BY DEF Schedule, IInv, TypeOK, Numbers
<1>2. UNCHANGED <<latest, worded, worker, world, asked>> /\ unscheduled' \subseteq unscheduled
    BY DEF Schedule
<1>3. CASE UNCHANGED draft
    <2>1. /\ worker' \in [Workers -> Work] /\ \A w \in Workers : worker'[w] = worker[w]
          /\ enabled' \in BOOLEAN /\ frozen' \in BOOLEAN /\ switches' \in Nat /\ lost' \in Nat
          /\ draft' \in [Drafts -> Draft] /\ catalogue' = catalogue
        BY <1>2, <1>3 DEF world, IInv, TypeOK
    <2>2. ASSUME NEW d \in Drafts PROVE Kept(d)
        <3>1. draft[d].attempts \in 0..MAX_ATTEMPTS
            BY FieldsFit DEF IInv, TypeOK
        <3>2. draft[d].attempts >= draft[d].attempts
            BY <3>1 DEF Numbers
        <3>3. QED
            BY <1>3, <3>2 DEF Kept
    <2>3. QED
        BY <1>2, <2>1, <2>2, NoWorkBegins
<1>4. CASE ~UNCHANGED draft
    <2>1. m = LatestWorded
        BY <1>4 DEF Schedule
    <2>2. draft' = Superseded(m) \/ \E d \in Next1, automatic \in BOOLEAN : draft' = Queued(d, m, automatic)
        BY <1>4 DEF Schedule
    <2>3. QED
        BY <1>1, <1>2, <2>1, <2>2, SupersedingKeeps
<1>5. QED
    BY <1>3, <1>4

LEMMA RequestStep == ASSUME Numbers, IInv, Request PROVE IInv'
<1>1. latest \in 0..MaxMessages /\ latest <= latest
    BY DEF IInv, TypeOK, Numbers
<1>2. UNCHANGED <<latest, worded, worker, world, asked>> /\ unscheduled' \subseteq unscheduled
    BY DEF Request, inbox
<1>3. draft' = Superseded(latest) \/ \E d \in Next1, automatic \in BOOLEAN : draft' = Queued(d, latest, automatic)
    BY DEF Request
<1>4. QED
    BY <1>1, <1>2, <1>3, SupersedingKeeps

\* A row gets another status, and no worker does anything.
LEMMA StatusStep ==
    ASSUME Numbers, IInv, NEW d \in Drafts, NEW status \in Ended,
           draft' = [draft EXCEPT ![d] = With(d, status)],
           draft[d].status # "NONE",
           status = "STALE" => Outrun(d),
           UNCHANGED <<inbox, worker, world, asked>>
    PROVE  IInv'
<1>1. PICK row : row = With(d, status)
    OBVIOUS
<1>2. status \in Statuses /\ status # "NONE" /\ status # "PROCESSING"
    BY DEF Statuses, Ended
<1>3. /\ row \in Draft /\ row.status = status /\ row.anchor = draft[d].anchor
      /\ row.source = draft[d].source /\ row.started = draft[d].started /\ row.attempts = draft[d].attempts
    BY <1>1, <1>2, WithFits DEF IInv
<1>4. row.attempts >= draft[d].attempts
    BY <1>3, FieldsFit DEF Numbers
<1>5. /\ worker' \in [Workers -> Work] /\ \A w \in Workers : worker'[w] = worker[w]
      /\ UNCHANGED <<inbox, catalogue, enabled, frozen, switches, asked>> /\ lost' \in Nat
    BY DEF world, IInv, TypeOK
<1>6. draft' = [draft EXCEPT ![d] = row]
    BY <1>1
<1>7. QED
    BY <1>2, <1>3, <1>4, <1>5, <1>6, OneRowIsKept

LEMMA FailExpiredStep == ASSUME Numbers, IInv, NEW d \in Drafts, FailExpired(d) PROVE IInv'
<1>1. "FAILED" \in Ended /\ "FAILED" # "STALE"
    BY DEF Ended
<1>2. QED
    BY <1>1, StatusStep DEF FailExpired

LEMMA UseStep == ASSUME Numbers, IInv, NEW d \in Drafts, Use(d) PROVE IInv'
<1>1. PICK status : status = IF draft[d].anchor = latest /\ SourcesCurrent(draft[d].source) THEN "USED" ELSE "STALE"
    OBVIOUS
<1>2. status \in Ended
    BY <1>1 DEF Ended
<1>3. draft' = [draft EXCEPT ![d] = With(d, status)] /\ draft[d].status # "NONE"
    BY <1>1 DEF Use
<1>4. ASSUME status = "STALE" PROVE Outrun(d)
    <2>1. draft[d].anchor \in 0..MaxMessages /\ draft[d].anchor <= latest /\ latest \in 0..MaxMessages
        BY FieldsFit DEF IInv, TypeOK, DraftFits
    <2>2. draft[d].anchor # latest => latest > draft[d].anchor
        BY <2>1 DEF Numbers
    <2>3. QED
        BY <1>1, <1>4, <2>2 DEF SourcesCurrent, Outrun
<1>5. QED
    BY <1>2, <1>3, <1>4, StatusStep DEF Use

\* Time passes for a row, and nothing else.
LEMMA TimeStep ==
    ASSUME Numbers, IInv, NEW d \in Drafts, QuietPasses(d) \/ ExpireLease(d)
    PROVE  IInv'
<1>1. draft[d] \in Draft
    BY DEF IInv, TypeOK
<1>2. PICK row \in Draft :
          /\ draft' = [draft EXCEPT ![d] = row]
          /\ row.anchor = draft[d].anchor /\ row.source = draft[d].source /\ row.started = draft[d].started
          /\ row.attempts = draft[d].attempts /\ row.status = draft[d].status
    <2>1. PICK quiet : quiet = [draft[d] EXCEPT !.available = TRUE]
        OBVIOUS
    <2>2. PICK late : late = [draft[d] EXCEPT !.expired = TRUE]
        OBVIOUS
    <2>3. /\ quiet \in Draft /\ quiet.anchor = draft[d].anchor /\ quiet.source = draft[d].source
          /\ quiet.started = draft[d].started /\ quiet.attempts = draft[d].attempts /\ quiet.status = draft[d].status
        BY <1>1, <2>1 DEF Draft
    <2>4. /\ late \in Draft /\ late.anchor = draft[d].anchor /\ late.source = draft[d].source
          /\ late.started = draft[d].started /\ late.attempts = draft[d].attempts /\ late.status = draft[d].status
        BY <1>1, <2>2 DEF Draft
    <2>5. draft' = [draft EXCEPT ![d] = quiet] \/ draft' = [draft EXCEPT ![d] = late]
        BY <2>1, <2>2 DEF QuietPasses, ExpireLease
    <2>6. QED
        BY <2>3, <2>4, <2>5
<1>3. row.attempts >= draft[d].attempts
    BY <1>2, FieldsFit DEF Numbers
<1>4. lost \in Nat
    BY DEF IInv, TypeOK
<1>5. lost' = lost \/ lost' = lost + 1
    BY DEF QuietPasses, ExpireLease, world
<1>6. /\ worker' \in [Workers -> Work] /\ \A w \in Workers : worker'[w] = worker[w]
      /\ UNCHANGED <<inbox, catalogue, enabled, frozen, switches, asked>>
    BY DEF QuietPasses, ExpireLease, world, inbox, IInv, TypeOK
<1>7. lost' \in Nat
    BY <1>4, <1>5
<1>8. QED
    BY <1>2, <1>3, <1>6, <1>7, OneRowIsKept

LEMMA CrashStep == ASSUME Numbers, IInv, NEW w \in Workers, Crash(w) PROVE IInv'
<1>1. worker' \in [Workers -> Work] /\ \A v \in Workers : worker'[v] = worker[v] \/ worker'[v] = Idle
    BY WorkerRests DEF Crash, IInv
<1>2. UNCHANGED <<inbox, draft, catalogue, asked>> /\ enabled' \in BOOLEAN /\ frozen' \in BOOLEAN
      /\ switches' \in Nat
    BY DEF Crash, IInv, TypeOK
<1>3. lost' \in Nat
    BY DEF Crash, IInv, TypeOK
<1>4. QED
    BY <1>1, <1>2, <1>3, NothingChanges

LEMMA SwitchStep == ASSUME Numbers, IInv, Switch PROVE IInv'
<1>1. worker' \in [Workers -> Work] /\ (\A v \in Workers : worker'[v] = worker[v])
      /\ UNCHANGED <<inbox, draft, catalogue, asked>> /\ lost' \in Nat
    BY DEF Switch, IInv, TypeOK
<1>2. enabled' \in BOOLEAN /\ frozen' \in BOOLEAN
    BY DEF Switch, IInv, TypeOK
<1>3. switches \in Nat /\ (switches' = switches \/ switches' = switches + 1)
    BY DEF Switch, IInv, TypeOK
<1>4. switches' \in Nat
    BY <1>3
<1>5. QED
    BY <1>1, <1>2, <1>4, NothingChanges

-----------------------------------------------------------------------------
(* The worker that ends its work                                            *)

LEMMA RecallRefusedStep == ASSUME Numbers, IInv, NEW w \in Workers, RecallRefused(w) PROVE IInv'
<1>1. UNCHANGED <<inbox, world, asked>>
    BY DEF RecallRefused
<1>2. PICK d \in Drafts : d = worker[w].draft
    BY DEF IInv, TypeOK, Work
<1>3. CASE ~Owns(w) /\ Rests(w) /\ UNCHANGED draft
    <2>1. Settles(w, "FAILED") /\ "FAILED" \in Ended
        BY <1>3 DEF Settles, Ended
    <2>2. QED
        BY <1>1, <1>3, <2>1, SettlingKeeps
<1>4. CASE Owns(w) /\ RecallObjection(w) # "NONE" /\ Settles(w, RecallObjection(w))
    <2>1. RecallObjection(w) \in Ended
        BY <1>4, ObjectionIs DEF Ended
    <2>2. ASSUME RecallObjection(w) = "STALE" PROVE Outrun(d)
        <3>1. draft[d].anchor # LatestWorded
            BY <1>2, <2>2, ObjectionIs DEF IsCurrent
        <3>2. draft[d].anchor \in 0..MaxMessages /\ draft[d].anchor <= latest
            BY FieldsFit DEF IInv, TypeOK, DraftFits
        <3>3. QED
            BY <3>1, <3>2, OlderIsOutrun DEF Outrun, IInv
    <2>3. QED
        BY <1>1, <1>2, <1>4, <2>1, <2>2, SettlingKeeps
<1>5. QED
    BY <1>3, <1>4 DEF RecallRefused

LEMMA RecallEndsStep == ASSUME Numbers, IInv, NEW w \in Workers, RecallEnds(w) PROVE IInv'
<1>1. PICK status \in {"READY", "BLOCKED", "FAILED"} : Settles(w, status)
    BY DEF RecallEnds
<1>2. status \in Ended /\ status # "STALE"
    BY DEF Ended
<1>3. QED
    BY <1>1, <1>2, SettlingKeeps DEF RecallEnds

LEMMA FailStep == ASSUME Numbers, IInv, NEW w \in Workers, Fail(w) PROVE IInv'
<1>1. "FAILED" \in Ended /\ "FAILED" # "STALE"
    BY DEF Ended
<1>2. QED
    BY <1>1, SettlingKeeps DEF Fail

LEMMA CheckStep == ASSUME Numbers, IInv, NEW w \in Workers, Check(w) PROVE IInv'
<1>1. PICK d \in Drafts : d = worker[w].draft
    BY DEF IInv, TypeOK, Work
<1>2. PICK status \in Ended :
          /\ Settles(w, status)
          /\ status = "STALE" => ~IsCurrent(d) \/ ~SourcesCurrent(worker[w].source)
    BY <1>1 DEF Check, Ended
<1>3. ASSUME Owns(w), status = "STALE" PROVE Outrun(d)
    <2>1. CASE ~IsCurrent(d)
        <3>1. draft[d].anchor \in 0..MaxMessages /\ draft[d].anchor <= latest
            BY FieldsFit DEF IInv, TypeOK, DraftFits
        <3>2. QED
            BY <2>1, <3>1, OlderIsOutrun DEF Outrun, IInv, IsCurrent
    <2>2. CASE ~SourcesCurrent(worker[w].source)
        <3>1. worker[w].phase = "checking"
            BY DEF Check
        <3>2. draft[d].source = worker[w].source
            BY <1>1, <1>3, <3>1 DEF IInv, WorkerFits, Knows
        <3>3. QED
            BY <2>2, <3>2 DEF SourcesCurrent, Outrun
    <2>3. QED
        BY <1>2, <1>3, <2>1, <2>2
<1>4. QED
    BY <1>1, <1>2, <1>3, SettlingKeeps DEF Check

-----------------------------------------------------------------------------
(* The worker that claims a draft and asks the model                        *)

\* A claimed row: one attempt more, of a draft whose model was not asked.
LEMMA ClaimedRow ==
    ASSUME Numbers, IInv, NEW d \in Drafts, Due(d), NEW status \in Statuses
    PROVE  LET row == [With(d, status) EXCEPT !.attempts = @ + 1] IN
           /\ row \in Draft /\ row.status = status /\ row.anchor = draft[d].anchor
           /\ row.source = draft[d].source /\ row.started = draft[d].started
           /\ row.attempts = draft[d].attempts + 1
           /\ draft[d].attempts \in Nat /\ draft[d].status # "NONE"
<1>1. PICK x : x = With(d, status)
    OBVIOUS
<1>2. /\ x \in Draft /\ x.status = status /\ x.anchor = draft[d].anchor /\ x.attempts = draft[d].attempts
      /\ x.started = draft[d].started /\ x.source = draft[d].source
    BY <1>1, WithFits DEF IInv
<1>3. x.attempts \in 0..MAX_ATTEMPTS /\ draft[d].attempts < MAX_ATTEMPTS
    BY <1>2, FieldsFit DEF Due
<1>4. x.attempts \in Nat /\ x.attempts + 1 \in 0..MAX_ATTEMPTS
    BY <1>2, <1>3 DEF Numbers
<1>5. PICK row : row = [x EXCEPT !.attempts = x.attempts + 1]
    OBVIOUS
<1>6. row \in Draft
    BY <1>2, <1>4, <1>5 DEF Draft
<1>7. /\ row.status = x.status /\ row.anchor = x.anchor /\ row.source = x.source
      /\ row.started = x.started /\ row.attempts = x.attempts + 1
    BY <1>2, <1>5 DEF Draft
<1>8. draft[d].status # "NONE"
    BY DEF Due, Reclaimable
<1>9. QED
    BY <1>1, <1>2, <1>4, <1>5, <1>6, <1>7, <1>8

LEMMA ClaimStep == ASSUME Numbers, IInv, NEW w \in Workers, NEW d \in Drafts, Claim(w, d) PROVE IInv'
<1>1. Due(d) /\ worker[w].phase = "idle" /\ UNCHANGED <<inbox, world, asked>>
    BY DEF Claim
<1>2. /\ latest' = latest /\ worded' = worded /\ unscheduled' = unscheduled /\ catalogue' = catalogue
      /\ enabled' = enabled /\ frozen' = frozen /\ switches' = switches /\ lost' = lost /\ asked' = asked
    BY <1>1 DEF inbox, world
<1>3. CASE UNCHANGED worker
    <2>1. PICK status \in {"BLOCKED", "STALE"} :
              /\ draft' = [draft EXCEPT ![d] = [With(d, status) EXCEPT !.attempts = @ + 1]]
              /\ status = "STALE" => ~IsCurrent(d)
        <3>1. [Idle EXCEPT !.phase = "recalling", !.draft = d, !.lease = draft[d].attempts + 1].phase = "recalling"
            BY DEF Idle
        <3>2. worker' # [worker EXCEPT ![w] = [Idle EXCEPT !.phase = "recalling", !.draft = d,
                                                             !.lease = draft[d].attempts + 1]]
            BY <1>1, <1>3, <3>1 DEF IInv, TypeOK
        <3>3. QED
            BY <3>2 DEF Claim
    <2>2. PICK row : row = [With(d, status) EXCEPT !.attempts = @ + 1]
        OBVIOUS
    <2>3. status \in Statuses /\ status # "NONE" /\ status # "PROCESSING"
        BY DEF Statuses, Ended
    <2>4. /\ row \in Draft /\ row.status = status /\ row.anchor = draft[d].anchor
          /\ row.source = draft[d].source /\ row.started = draft[d].started
          /\ row.attempts = draft[d].attempts + 1
          /\ draft[d].attempts \in Nat /\ draft[d].status # "NONE"
        BY <1>1, <2>2, <2>3, ClaimedRow
    <2>5. row.attempts >= draft[d].attempts
        BY <2>4
    <2>6. status = "STALE" => Outrun(d)
        <3>1. draft[d].anchor \in 0..MaxMessages /\ draft[d].anchor <= latest
            BY FieldsFit DEF IInv, TypeOK, DraftFits
        <3>2. QED
            BY <2>1, <3>1, OlderIsOutrun DEF IInv, Outrun, IsCurrent
    <2>7. draft' = [draft EXCEPT ![d] = row]
        BY <2>1, <2>2
    <2>8. /\ worker' \in [Workers -> Work] /\ (\A v \in Workers : worker'[v] = worker[v]) /\ lost' \in Nat
          /\ UNCHANGED <<inbox, catalogue, enabled, frozen, switches, asked>>
        BY <1>1, <1>2, <1>3 DEF IInv, TypeOK
    <2>9. QED
        BY <2>3, <2>4, <2>5, <2>6, <2>7, <2>8, OneRowIsKept
<1>4. CASE ~UNCHANGED worker
    <2>1. PICK row : row = [With(d, "PROCESSING") EXCEPT !.attempts = @ + 1]
        OBVIOUS
    <2>2. PICK job : job = [Idle EXCEPT !.phase = "recalling", !.draft = d, !.lease = draft[d].attempts + 1]
        OBVIOUS
    <2>3. draft' = [draft EXCEPT ![d] = row] /\ worker' = [worker EXCEPT ![w] = job]
        BY <1>4, <2>1, <2>2 DEF Claim
    <2>4. /\ row \in Draft /\ row.status = "PROCESSING" /\ row.anchor = draft[d].anchor
          /\ row.source = draft[d].source /\ row.started = draft[d].started
          /\ row.attempts = draft[d].attempts + 1
          /\ draft[d].attempts \in Nat /\ draft[d].status # "NONE"
        <3>1. "PROCESSING" \in Statuses
            BY DEF Statuses, Active
        <3>2. QED
            BY <1>1, <2>1, <3>1, ClaimedRow
    <2>5. job = [phase |-> "recalling", draft |-> d, lease |-> draft[d].attempts + 1, source |-> -1]
        BY <2>2 DEF Idle
    <2>6. draft[d].attempts + 1 \in 0..MAX_ATTEMPTS
        BY <2>4, FieldsFit
    <2>7. job \in Work /\ job.phase = "recalling" /\ job.draft = d /\ job.lease = draft[d].attempts + 1
        BY <2>5, <2>6 DEF Work, Phase
    <2>8. draft \in [Drafts -> Draft] /\ worker \in [Workers -> Work]
        BY DEF IInv, TypeOK
    <2>9. /\ draft' \in [Drafts -> Draft] /\ draft'[d] = row /\ \A e \in Drafts \ {d} : draft'[e] = draft[e]
          /\ worker' \in [Workers -> Work] /\ worker'[w] = job /\ \A v \in Workers \ {w} : worker'[v] = worker[v]
        BY <2>3, <2>4, <2>7, <2>8
    <2>10. TypeOK'
        BY <1>2, <2>9 DEF IInv, TypeOK
    <2>11. ASSUME NEW e \in Drafts PROVE DraftFits(e)'
        BY <1>2, <2>4, <2>9 DEF IInv, DraftFits, Outrun
    \* No other worker has the new lease.
    <2>12. ASSUME NEW v \in Workers \ {w}, worker[v].phase # "idle", worker[v].draft = d
           PROVE  worker[v].lease <= draft[d].attempts /\ worker[v].lease # draft[d].attempts + 1
        <3>1. worker[v].lease <= draft[d].attempts
            BY <2>12 DEF IInv, WorkerFits
        <3>2. worker[v].lease \in 0..MAX_ATTEMPTS
            BY <2>8 DEF Work
        <3>3. QED
            BY <2>4, <3>1, <3>2 DEF Numbers
    <2>13. ASSUME NEW v \in Workers PROVE WorkerFits(v)'
        <3>1. CASE v = w
            <4>1. job.lease <= row.attempts
                BY <2>4, <2>7
            <4>2. job.phase \notin Knows /\ job.phase # "calling"
                BY <2>7 DEF Knows
            <4>3. worker'[v] = job /\ draft'[job.draft] = row
                BY <2>7, <2>9, <3>1
            <4>4. QED
                BY <2>4, <4>1, <4>2, <4>3 DEF WorkerFits
        <3>2. CASE v # w /\ worker[v].draft # d
            <4>1. worker[v].draft \in Drafts /\ WorkerFits(v)
                BY <2>8 DEF Work, IInv
            <4>2. worker'[v] = worker[v] /\ draft'[worker[v].draft] = draft[worker[v].draft]
                BY <2>9, <3>2, <4>1
            <4>3. QED
                BY <1>2, <4>1, <4>2 DEF WorkerFits, Owns
        <3>3. CASE v # w /\ worker[v].draft = d
            <4>1. worker'[v] = worker[v] /\ draft'[d] = row /\ WorkerFits(v)
                BY <2>9, <3>3 DEF IInv
            <4>2. SUFFICES ASSUME worker[v].phase # "idle" PROVE WorkerFits(v)'
                BY <4>1 DEF WorkerFits
            <4>3. worker[v].lease <= draft[d].attempts /\ worker[v].lease # draft[d].attempts + 1
                BY <2>12, <3>3, <4>2
            <4>4. worker[v].lease \in 0..MAX_ATTEMPTS
                BY <2>8 DEF Work
            <4>5. worker[v].lease <= row.attempts
                BY <2>4, <4>3, <4>4 DEF Numbers
            <4>6. ~Owns(v)'
                BY <2>4, <3>3, <4>1, <4>3 DEF Owns
            <4>7. QED
                BY <1>2, <2>4, <3>3, <4>1, <4>5, <4>6 DEF WorkerFits
        <3>4. QED
            BY <3>1, <3>2, <3>3
    <2>14. ClaimsAreOnes'
        <3>1. SUFFICES ASSUME NEW v \in Workers, NEW u \in Workers, v # u, worker'[v].phase # "idle",
                              worker'[u].phase # "idle", worker'[v].draft = worker'[u].draft
                       PROVE  /\ worker'[v].lease # worker'[u].lease
                              /\ ~(worker'[v].phase = "calling" /\ worker'[u].phase = "calling")
            BY DEF ClaimsAreOnes
        <3>2. CASE v # w /\ u # w
            BY <2>9, <3>1, <3>2 DEF IInv, ClaimsAreOnes
        <3>3. CASE v = w
            BY <2>7, <2>9, <2>12, <3>1, <3>3
        <3>4. CASE u = w
            BY <2>7, <2>9, <2>12, <3>1, <3>4
        <3>5. QED
            BY <3>2, <3>3, <3>4
    <2>15. QED
        BY <2>10, <2>11, <2>13, <2>14 DEF IInv
<1>5. QED
    BY <1>3, <1>4

\* A worker that goes on with its claim stays its only holder.
LEMMA ClaimsStayOnes ==
    ASSUME IInv, NEW w \in Workers, NEW job \in Work, worker' = [worker EXCEPT ![w] = job],
           worker[w].phase # "idle", job.draft = worker[w].draft, job.lease = worker[w].lease,
           job.phase = "calling" => \A v \in Workers \ {w} :
               ~(worker[v].phase = "calling" /\ worker[v].draft = worker[w].draft)
    PROVE  /\ worker' \in [Workers -> Work] /\ worker'[w] = job /\ \A v \in Workers \ {w} : worker'[v] = worker[v]
           /\ ClaimsAreOnes'
<1>1. worker \in [Workers -> Work] /\ ClaimsAreOnes
    BY DEF IInv, TypeOK
<1>2. worker' \in [Workers -> Work] /\ worker'[w] = job /\ \A v \in Workers \ {w} : worker'[v] = worker[v]
    BY <1>1
<1>3. SUFFICES ASSUME NEW v \in Workers, NEW u \in Workers, v # u, worker'[v].phase # "idle",
                      worker'[u].phase # "idle", worker'[v].draft = worker'[u].draft
               PROVE  /\ worker'[v].lease # worker'[u].lease
                      /\ ~(worker'[v].phase = "calling" /\ worker'[u].phase = "calling")
    BY <1>2 DEF ClaimsAreOnes
<1>4. CASE v # w /\ u # w
    BY <1>1, <1>2, <1>3, <1>4 DEF ClaimsAreOnes
<1>5. CASE v = w
    BY <1>1, <1>2, <1>3, <1>5 DEF ClaimsAreOnes
<1>6. CASE u = w
    BY <1>1, <1>2, <1>3, <1>6 DEF ClaimsAreOnes
<1>7. QED
    BY <1>4, <1>5, <1>6

LEMMA RecallStep == ASSUME Numbers, IInv, NEW w \in Workers, Recall(w) PROVE IInv'
<1>1. PICK d \in Drafts : d = worker[w].draft
    BY DEF IInv, TypeOK, Work
<1>2. /\ worker[w].phase = "recalling" /\ draft[d].status = "PROCESSING" /\ draft[d].attempts = worker[w].lease
      /\ latest' = latest /\ worded' = worded /\ unscheduled' = unscheduled /\ catalogue' = catalogue
      /\ enabled' = enabled /\ frozen' = frozen /\ switches' = switches /\ lost' = lost /\ asked' = asked
    BY <1>1 DEF Recall, Owns, inbox, world
<1>3. PICK source \in {catalogue, -1} :
          /\ draft' = [draft EXCEPT ![d].source = source]
          /\ worker' = [worker EXCEPT ![w] = [worker[w] EXCEPT !.phase = "starting", !.source = source]]
    BY <1>1 DEF Recall
<1>4. PICK row : row = [draft[d] EXCEPT !.source = source]
    OBVIOUS
<1>5. PICK job : job = [worker[w] EXCEPT !.phase = "starting", !.source = source]
    OBVIOUS
<1>6. draft \in [Drafts -> Draft] /\ worker \in [Workers -> Work] /\ source \in Editions \cup {-1}
    BY DEF IInv, TypeOK
<1>7. /\ row \in Draft /\ row.status = "PROCESSING" /\ row.anchor = draft[d].anchor /\ row.source = source
      /\ row.started = draft[d].started /\ row.attempts = draft[d].attempts
    BY <1>2, <1>4, <1>6 DEF Draft
<1>8. /\ job \in Work /\ job.phase = "starting" /\ job.draft = d /\ job.lease = worker[w].lease
      /\ job.source = source
    BY <1>1, <1>5, <1>6 DEF Work, Phase
<1>9. draft' \in [Drafts -> Draft] /\ draft'[d] = row /\ \A e \in Drafts \ {d} : draft'[e] = draft[e]
    BY <1>3, <1>4, <1>6, <1>7
<1>10. /\ worker' \in [Workers -> Work] /\ worker'[w] = job /\ \A v \in Workers \ {w} : worker'[v] = worker[v]
       /\ ClaimsAreOnes'
    BY <1>1, <1>2, <1>3, <1>5, <1>8, ClaimsStayOnes
<1>11. TypeOK'
    BY <1>2, <1>9, <1>10 DEF IInv, TypeOK
<1>12. ASSUME NEW e \in Drafts PROVE DraftFits(e)'
    <2>1. source <= catalogue
        BY DEF IInv, TypeOK, Editions, Numbers
    <2>2. QED
        BY <1>2, <1>7, <1>9, <2>1 DEF IInv, DraftFits, Outrun
<1>13. ASSUME NEW v \in Workers PROVE WorkerFits(v)'
    <2>1. WorkerFits(v) /\ WorkerFits(w) /\ worker[v].draft \in Drafts
        BY <1>6 DEF IInv, Work
    <2>2. CASE v = w
        <3>1. worker'[v] = job /\ draft'[job.draft] = row
            BY <1>8, <1>9, <1>10, <2>2
        <3>2. worker[w].lease <= draft[d].attempts
            BY <1>1, <1>2, <2>1 DEF WorkerFits
        <3>3. QED
            BY <1>7, <1>8, <3>1, <3>2 DEF WorkerFits
    <2>3. CASE v # w /\ worker[v].draft # d
        BY <1>2, <1>9, <1>10, <2>1, <2>3 DEF WorkerFits, Owns
    <2>4. CASE v # w /\ worker[v].draft = d
        <3>1. worker[v].phase # "idle" => ~Owns(v)'
            BY <1>1, <1>2, <1>7, <1>9, <1>10, <2>4 DEF IInv, ClaimsAreOnes, Owns
        <3>2. QED
            BY <1>2, <1>7, <1>9, <1>10, <2>1, <2>4, <3>1 DEF WorkerFits
    <2>5. QED
        BY <2>2, <2>3, <2>4
<1>14. QED
    BY <1>10, <1>11, <1>12, <1>13 DEF IInv

LEMMA StartStep == ASSUME Numbers, IInv, NEW w \in Workers, Start(w) PROVE IInv'
<1>1. PICK d \in Drafts : d = worker[w].draft
    BY DEF IInv, TypeOK, Work
<1>2. /\ worker[w].phase = "starting" /\ UNCHANGED <<inbox, world, asked>>
      /\ latest' = latest /\ worded' = worded /\ unscheduled' = unscheduled /\ catalogue' = catalogue
      /\ enabled' = enabled /\ frozen' = frozen /\ switches' = switches /\ lost' = lost /\ asked' = asked
    BY DEF Start, inbox, world
<1>3. CASE ~(Owns(w) /\ ~draft[d].started)
    <2>1. Rests(w) /\ UNCHANGED draft
        BY <1>1, <1>3 DEF Start
    <2>2. worker' \in [Workers -> Work] /\ \A v \in Workers : worker'[v] = worker[v] \/ worker'[v] = Idle
        BY <2>1, WorkerRests DEF IInv
    <2>3. UNCHANGED <<inbox, draft, catalogue, asked>> /\ enabled' \in BOOLEAN /\ frozen' \in BOOLEAN
          /\ switches' \in Nat /\ lost' \in Nat
        BY <1>2, <2>1 DEF IInv, TypeOK
    <2>4. QED
        BY <2>2, <2>3, NothingChanges
<1>4. CASE Owns(w) /\ ~draft[d].started
    <2>1. /\ draft' = [draft EXCEPT ![d].started = TRUE]
          /\ worker' = [worker EXCEPT ![w].phase = "calling"]
        BY <1>1, <1>4 DEF Start, Goes
    <2>2. PICK row : row = [draft[d] EXCEPT !.started = TRUE]
        OBVIOUS
    <2>3. PICK job : job = [worker[w] EXCEPT !.phase = "calling"]
        OBVIOUS
    <2>4. draft \in [Drafts -> Draft] /\ worker \in [Workers -> Work]
        BY DEF IInv, TypeOK
    <2>5. draft[d].status = "PROCESSING" /\ draft[d].attempts = worker[w].lease
        BY <1>1, <1>4 DEF Owns
    <2>6. /\ row \in Draft /\ row.status = "PROCESSING" /\ row.anchor = draft[d].anchor
          /\ row.source = draft[d].source /\ row.started = TRUE /\ row.attempts = draft[d].attempts
        BY <2>2, <2>4, <2>5 DEF Draft
    <2>7. /\ job \in Work /\ job.phase = "calling" /\ job.draft = d /\ job.lease = worker[w].lease
          /\ job.source = worker[w].source
        BY <1>1, <2>3, <2>4 DEF Work, Phase
    <2>8. draft' \in [Drafts -> Draft] /\ draft'[d] = row /\ \A e \in Drafts \ {d} : draft'[e] = draft[e]
        BY <2>1, <2>2, <2>4, <2>6
    <2>9. \A v \in Workers : ~(worker[v].phase = "calling" /\ worker[v].draft = d)
        BY <1>4 DEF IInv, WorkerFits
    <2>10. worker' = [worker EXCEPT ![w] = job]
        BY <2>1, <2>3
    <2>11. /\ worker' \in [Workers -> Work] /\ worker'[w] = job /\ \A v \in Workers \ {w} : worker'[v] = worker[v]
           /\ ClaimsAreOnes'
        BY <1>1, <1>2, <2>7, <2>9, <2>10, ClaimsStayOnes
    <2>12. TypeOK'
        BY <1>2, <2>8, <2>11 DEF IInv, TypeOK
    <2>13. DraftFits(d)
        BY DEF IInv
    <2>14. ASSUME NEW e \in Drafts PROVE DraftFits(e)'
        BY <1>2, <2>5, <2>6, <2>8, <2>13 DEF IInv, DraftFits, Outrun
    <2>15. ASSUME NEW v \in Workers PROVE WorkerFits(v)'
        <3>1. WorkerFits(v) /\ WorkerFits(w) /\ worker[v].draft \in Drafts
            BY <2>4 DEF IInv, Work
        <3>2. CASE v = w
            <4>1. worker'[v] = job /\ draft'[job.draft] = row
                BY <2>7, <2>8, <2>11, <3>2
            <4>2. worker[w].lease <= draft[d].attempts /\ draft[d].source = worker[w].source
                BY <1>1, <1>2, <1>4, <3>1 DEF WorkerFits, Knows
            <4>3. asked[d] = 0
                BY <1>4, <2>13 DEF DraftFits
            <4>4. QED
                BY <1>2, <2>6, <2>7, <4>1, <4>2, <4>3 DEF WorkerFits
        <3>3. CASE v # w /\ worker[v].draft # d
            BY <1>2, <2>8, <2>11, <3>1, <3>3 DEF WorkerFits, Owns
        <3>4. CASE v # w /\ worker[v].draft = d
            BY <1>2, <2>5, <2>6, <2>8, <2>9, <2>11, <3>1, <3>4 DEF WorkerFits, Owns
        <3>5. QED
            BY <3>2, <3>3, <3>4
    <2>16. QED
        BY <2>11, <2>12, <2>14, <2>15 DEF IInv
<1>5. QED
    BY <1>3, <1>4

LEMMA GenerateStep == ASSUME Numbers, IInv, NEW w \in Workers, Generate(w) PROVE IInv'
<1>1. PICK d \in Drafts : d = worker[w].draft
    BY DEF IInv, TypeOK, Work
<1>2. /\ worker[w].phase = "calling" /\ draft' = draft
      /\ latest' = latest /\ worded' = worded /\ unscheduled' = unscheduled /\ catalogue' = catalogue
      /\ enabled' = enabled /\ frozen' = frozen /\ switches' = switches /\ lost' = lost
    BY DEF Generate, inbox, world
<1>3. PICK phase \in {"checking", "failing"} : worker' = [worker EXCEPT ![w].phase = phase]
    BY DEF Generate, Goes
<1>4. PICK job : job = [worker[w] EXCEPT !.phase = phase]
    OBVIOUS
<1>5. draft \in [Drafts -> Draft] /\ worker \in [Workers -> Work] /\ asked \in [Drafts -> Nat]
    BY DEF IInv, TypeOK
<1>6. /\ job \in Work /\ job.phase = phase /\ job.draft = d /\ job.lease = worker[w].lease
      /\ job.source = worker[w].source
    BY <1>1, <1>4, <1>5 DEF Work, Phase
<1>7. draft[d].started /\ asked[d] = 0 /\ worker[w].phase # "idle"
    BY <1>1, <1>2 DEF IInv, WorkerFits
<1>8. /\ asked' = [asked EXCEPT ![d] = 1] /\ asked' \in [Drafts -> Nat]
      /\ asked'[d] = 1 /\ \A e \in Drafts \ {d} : asked'[e] = asked[e]
    BY <1>1, <1>5, <1>7 DEF Generate
<1>9. worker' = [worker EXCEPT ![w] = job]
    BY <1>3, <1>4
<1>10. /\ worker' \in [Workers -> Work] /\ worker'[w] = job /\ \A v \in Workers \ {w} : worker'[v] = worker[v]
       /\ ClaimsAreOnes'
    BY <1>1, <1>6, <1>7, <1>9, ClaimsStayOnes
<1>11. \A v \in Workers \ {w} : ~(worker[v].phase = "calling" /\ worker[v].draft = d)
    BY <1>1, <1>2 DEF IInv, ClaimsAreOnes
<1>12. TypeOK'
    BY <1>2, <1>8, <1>10 DEF IInv, TypeOK
<1>13. ASSUME NEW e \in Drafts PROVE DraftFits(e)'
    BY <1>2, <1>7, <1>8 DEF IInv, DraftFits, Outrun
<1>14. ASSUME NEW v \in Workers PROVE WorkerFits(v)'
    <2>1. WorkerFits(v) /\ WorkerFits(w) /\ worker[v].draft \in Drafts
        BY <1>5 DEF IInv, Work
    <2>2. CASE v = w
        BY <1>1, <1>2, <1>6, <1>7, <1>10, <2>1, <2>2 DEF WorkerFits, Owns, Knows
    <2>3. CASE v # w
        BY <1>1, <1>2, <1>8, <1>10, <1>11, <2>1, <2>3 DEF WorkerFits, Owns
    <2>4. QED
        BY <2>2, <2>3
<1>15. QED
    BY <1>10, <1>12, <1>13, <1>14 DEF IInv

-----------------------------------------------------------------------------
(* Customers and managers                                                   *)

LEMMA ArriveStep == ASSUME Numbers, IInv, NEW hasWords \in BOOLEAN, Arrive(hasWords) PROVE IInv'
<1>1. /\ latest < MaxMessages /\ latest' = latest + 1
      /\ worded \subseteq worded' /\ worded' \subseteq worded \cup {latest'}
      /\ unscheduled' \subseteq worded'
      /\ draft' = draft /\ worker' = worker /\ catalogue' = catalogue /\ enabled' = enabled
      /\ frozen' = frozen /\ switches' = switches /\ lost' = lost /\ asked' = asked
    BY DEF Arrive, world, IInv, TypeOK
<1>2. latest \in Nat /\ latest' \in 0..MaxMessages
    BY <1>1 DEF IInv, TypeOK, Numbers
<1>3. worded' \subseteq 1..latest'
    BY <1>1, <1>2 DEF IInv, TypeOK
<1>4. TypeOK'
    BY <1>1, <1>2, <1>3 DEF IInv, TypeOK
<1>5. ASSUME NEW d \in Drafts PROVE DraftFits(d)'
    <2>1. DraftFits(d) /\ draft[d].anchor \in Nat
        BY FieldsFit DEF IInv, TypeOK, Numbers
    <2>2. latest' > draft[d].anchor
        BY <1>1, <1>2, <2>1 DEF DraftFits
    <2>3. QED
        BY <1>1, <1>2, <2>1, <2>2 DEF DraftFits, Outrun
<1>6. \A w \in Workers : WorkerFits(w)'
    BY <1>1 DEF IInv, WorkerFits, Owns
<1>7. ClaimsAreOnes'
    BY <1>1 DEF IInv, ClaimsAreOnes
<1>8. QED
    BY <1>4, <1>5, <1>6, <1>7 DEF IInv

\* What cites an edition that is gone cites one that will not come back.
LEMMA EditStep == ASSUME Numbers, IInv, EditProducts PROVE IInv'
<1>1. /\ catalogue < MaxEdits /\ catalogue' = catalogue + 1
      /\ latest' = latest /\ worded' = worded /\ unscheduled' = unscheduled
      /\ draft' = draft /\ worker' = worker /\ enabled' = enabled
      /\ frozen' = frozen /\ switches' = switches /\ lost' = lost /\ asked' = asked
    BY DEF EditProducts, inbox
<1>2. catalogue \in Nat /\ catalogue' \in Editions
    BY <1>1 DEF IInv, TypeOK, Editions, Numbers
<1>3. TypeOK'
    BY <1>1, <1>2 DEF IInv, TypeOK
<1>4. ASSUME NEW d \in Drafts PROVE DraftFits(d)'
    <2>1. DraftFits(d) /\ draft[d].source \in Int
        BY FieldsFit DEF IInv, TypeOK, Editions, Numbers
    <2>2. draft[d].source <= catalogue' /\ (draft[d].source \notin {-1, catalogue} => draft[d].source \notin {-1, catalogue'})
        BY <1>1, <1>2, <2>1 DEF DraftFits
    <2>3. QED
        BY <1>1, <2>1, <2>2 DEF DraftFits, Outrun
<1>5. \A w \in Workers : WorkerFits(w)'
    BY <1>1 DEF IInv, WorkerFits, Owns
<1>6. ClaimsAreOnes'
    BY <1>1 DEF IInv, ClaimsAreOnes
<1>7. QED
    BY <1>3, <1>4, <1>5, <1>6 DEF IInv

-----------------------------------------------------------------------------
(* The theorems                                                             *)

LEMMA Start0 == ASSUME Numbers, Init PROVE IInv
<1>1. 0 \in 0..MaxMessages /\ 0 \in 0..MAX_ATTEMPTS /\ 0 \in Editions
    BY DEF Numbers, Editions
<1>2. NoDraft \in Draft /\ NoDraft.status = "NONE" /\ NoDraft.anchor = 0 /\ NoDraft.source = -1 /\ ~NoDraft.started
    BY <1>1 DEF NoDraft, Draft
<1>3. /\ draft \in [Drafts -> Draft] /\ \A d \in Drafts : draft[d] = NoDraft
      /\ worker \in [Workers -> Work] /\ \A w \in Workers : worker[w] = Idle
      /\ asked \in [Drafts -> Nat] /\ \A d \in Drafts : asked[d] = 0
    BY <1>2, IdleFits DEF Init
<1>4. TypeOK
    BY <1>1, <1>3 DEF Init, TypeOK
<1>5. ASSUME NEW d \in Drafts PROVE DraftFits(d)
    BY <1>2, <1>3 DEF Init, DraftFits
<1>6. \A w \in Workers : WorkerFits(w)
    BY <1>3, IdleFits DEF WorkerFits
<1>7. ClaimsAreOnes
    BY <1>3, IdleFits DEF ClaimsAreOnes
<1>8. QED
    BY <1>4, <1>5, <1>6, <1>7 DEF IInv

LEMMA Steps == ASSUME Numbers, IInv, [Next]_vars PROVE IInv'
<1>1. CASE UNCHANGED vars
    <2>1. /\ worker' \in [Workers -> Work] /\ (\A v \in Workers : worker'[v] = worker[v])
          /\ UNCHANGED <<inbox, draft, catalogue, asked>>
          /\ enabled' \in BOOLEAN /\ frozen' \in BOOLEAN /\ switches' \in Nat /\ lost' \in Nat
        BY <1>1 DEF vars, inbox, IInv, TypeOK
    <2>2. QED
        BY <2>1, NothingChanges
<1>2. ASSUME NEW w \in Workers, WorkerGoesOn(w) PROVE IInv'
    BY <1>2, RecallRefusedStep, RecallStep, RecallEndsStep, StartStep, GenerateStep, FailStep, CheckStep
    DEF WorkerGoesOn
<1>3. CASE Next
    BY <1>2, <1>3, ScheduleStep, RequestStep, CrashStep, ClaimStep, TimeStep, FailExpiredStep, UseStep,
       ArriveStep, EditStep, SwitchStep
    DEF Next
<1>4. QED
    BY <1>1, <1>3

LEMMA Invariance == ASSUME Numbers PROVE Spec => []IInv
<1>1. Init => IInv
    BY Start0
<1>2. IInv /\ [Next]_vars => IInv'
    BY Steps
<1>3. QED
    BY <1>1, <1>2, PTL DEF Spec

\* The rows, the workers and the conversation keep their types
\* (reply-draft.processor.ts, reply-drafts.service.ts).
THEOREM TypeCorrect == ASSUME Numbers PROVE Spec => []TypeOK
<1>1. IInv => TypeOK
    BY DEF IInv
<1>2. QED
    BY <1>1, Invariance, PTL

\* The model is asked once for a draft, whatever claims crash, expire or go on too
\* late: modelRequestStartedAt is set by the claim's only holder before it asks, and
\* nobody who finds it set asks again.
THEOREM DraftsAreAskedOnce == ASSUME Numbers PROVE Spec => []ModelIsAskedOnce
<1>1. IInv => ModelIsAskedOnce
    BY DEF IInv, DraftFits, ModelIsAskedOnce
<1>2. QED
    BY <1>1, Invariance, PTL

\* A draft is STALE only when a newer message came, the products it cites changed,
\* or its message has no words: the scheduler, the requests, the checks of the
\* worker and the send agree in that, and a draft that is outrun stays so.
THEOREM OnlyTheOutrunAreStale == ASSUME Numbers PROVE Spec => []StaleIsOutrun
<1>1. IInv => StaleIsOutrun
    BY DEF IInv, DraftFits, Outrun, StaleIsOutrun
<1>2. QED
    BY <1>1, Invariance, PTL
=============================================================================
