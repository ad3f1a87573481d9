------------------------------ MODULE ReplyDraft ------------------------------
(***************************************************************************)
(* The AI reply drafts of one conversation.  AutomaticReplyDraftScheduler  *)
(* asks for one when an inbound message is stored, ReplyDraftsService when *)
(* a manager does; ReplyDraftProcessor claims it with a lease and asks the *)
(* model; ConversationsService.send uses it for a reply.                   *)
(*                                                                         *)
(* Inbound messages are numbered in their order; one without words counts  *)
(* as the latest in apps/api, never in apps/worker.  The reconciler repeats*)
(* lost wake-ups, so that a worker may look for a due draft at any time.   *)
(* Texts, catalogue search and claims are reduced to what may come of them:*)
(* the products a draft cites are a version of the catalogue.              *)
(***************************************************************************)
EXTENDS Integers

CONSTANTS
    Drafts,         \* 1..n: rows of ai_reply_drafts, in the order of creation
    Workers,        \* worker processes
    MAX_ATTEMPTS,   \* claims of a draft: 3 in the code
    MaxMessages,    \* bound: inbound messages
    MaxEdits,       \* bound: changes to cited products
    MaxSwitches,    \* bound: times drafts are disabled, or the tenant frozen
    MaxLost         \* bound: claims lost to a crash or to a lease outlived

VARIABLES
    latest,       \* the latest inbound message, 0 if there is none
    worded,       \* the inbound messages that have words
    unscheduled,  \* worded messages whose event still is to ask for a draft
    draft,        \* ai_reply_drafts
    worker,       \* what each worker process is doing
    catalogue,    \* version of the products that drafts cite
    enabled,      \* the tenant's reply style is enabled
    frozen,       \* the tenant has an open request to delete its data
    switches,
    lost,         \* claims lost so far
    asked         \* ghost: calls of the model, by draft

vars == <<latest, worded, unscheduled, draft, worker, catalogue, enabled, frozen, switches, lost, asked>>
inbox == <<latest, worded, unscheduled>>
world == <<catalogue, enabled, frozen, switches, lost>>

-----------------------------------------------------------------------------
Messages == 1..MaxMessages
Editions == 0..MaxEdits
Active == {"QUEUED", "PROCESSING"}
Ended == {"READY", "USED", "STALE", "BLOCKED", "FAILED"}
Draft == [status : Active \cup Ended \cup {"NONE"},
          anchor : 0..MaxMessages,
          automatic : BOOLEAN,
          available : BOOLEAN,          \* availableAt is over
          attempts : 0..MAX_ATTEMPTS,   \* and the lease of the last claim
          expired : BOOLEAN,
          started : BOOLEAN,            \* modelRequestStartedAt is set
          source : Editions \cup {-1}]  \* sourceSnapshot, -1 if it cites nothing
NoDraft == [status |-> "NONE", anchor |-> 0, automatic |-> FALSE, available |-> FALSE,
            attempts |-> 0, expired |-> FALSE, started |-> FALSE, source |-> -1]

Phase == {"idle", "recalling", "starting", "calling", "checking", "failing"}
Work == [phase : Phase, draft : Drafts, lease : 0..MAX_ATTEMPTS, source : Editions \cup {-1}]
Idle == [phase |-> "idle", draft |-> 1, lease |-> 0, source |-> -1]

LatestWorded == IF worded = {} THEN 0 ELSE CHOOSE m \in worded : \A n \in worded : n <= m

With(d, status) == [draft[d] EXCEPT !.status = status, !.expired = FALSE]

\* Drafts of older messages become STALE, and one more is queued.
Superseded(anchor) ==
    [d \in Drafts |-> IF draft[d].status \in Active \cup {"READY"} /\ draft[d].anchor # anchor
                      THEN With(d, "STALE") ELSE draft[d]]
Next1 == {d \in Drafts : draft[d].status = "NONE" /\ \A e \in Drafts : draft[e].status = "NONE" => d <= e}
Queued(d, anchor, automatic) ==
    [Superseded(anchor) EXCEPT ![d] =
        [NoDraft EXCEPT !.status = "QUEUED", !.anchor = anchor, !.automatic = automatic,
                        !.available = ~automatic]]
\* The index ai_reply_drafts_one_active_anchor_key.
ActiveOn(anchor) == \E d \in Drafts : draft[d].status \in Active /\ draft[d].anchor = anchor

-----------------------------------------------------------------------------
(* AutomaticReplyDraftScheduler and ReplyDraftsService                      *)

Schedule(m) ==
    LET replayed == \E d \in Drafts : draft[d].automatic /\ draft[d].anchor = m IN
    /\ m \in unscheduled
    /\ ~frozen
    /\ unscheduled' = unscheduled \ {m}
    /\ \/ /\ (~enabled \/ m # LatestWorded \/ replayed)
          /\ UNCHANGED draft
       \/ /\ enabled /\ m = LatestWorded /\ ~replayed /\ ~ActiveOn(m)
          /\ \E d \in Next1 : draft' = Queued(d, m, TRUE)
       \* Too many drafts of the tenant: those of older messages are STALE all the same.
       \/ enabled /\ m = LatestWorded /\ ~replayed /\ draft' = Superseded(m)
    /\ UNCHANGED <<latest, worded, worker, world, asked>>

Request ==
    /\ ~frozen /\ enabled /\ latest > 0
    /\ IF ActiveOn(latest)
       THEN draft' = Superseded(latest)
       ELSE \E d \in Next1 : draft' = Queued(d, latest, FALSE)
    /\ UNCHANGED <<inbox, worker, world, asked>>

QuietPasses(d) ==
    /\ draft[d].status = "QUEUED" /\ ~draft[d].available
    /\ draft' = [draft EXCEPT ![d].available = TRUE]
    /\ UNCHANGED <<inbox, worker, world, asked>>

-----------------------------------------------------------------------------
(* ReplyDraftProcessor                                                      *)

Owns(w) ==
    LET d == draft[worker[w].draft] IN
    worker[w].phase # "idle" /\ d.status = "PROCESSING" /\ d.attempts = worker[w].lease

Goes(w, phase) == worker' = [worker EXCEPT ![w].phase = phase]
Rests(w) == worker' = [worker EXCEPT ![w] = Idle]

\* A claim that crashed before the model was asked may be taken over.
Reclaimable(d) == draft[d].status = "PROCESSING" /\ draft[d].expired /\ ~draft[d].started

Due(d) ==
    /\ (draft[d].status = "QUEUED" /\ draft[d].available) \/ Reclaimable(d)
    /\ draft[d].attempts < MAX_ATTEMPTS

\* The newest message that a draft is for, as the worker sees it.
IsCurrent(d) == draft[d].anchor = LatestWorded

Claim(w, d) ==
    LET claimed(status) == [With(d, status) EXCEPT !.attempts = @ + 1] IN
    /\ worker[w].phase = "idle"
    /\ Due(d) /\ ~frozen
    /\ \/ /\ ~enabled
          /\ draft' = [draft EXCEPT ![d] = claimed("BLOCKED")] /\ UNCHANGED worker
       \/ /\ enabled /\ ~IsCurrent(d)
          /\ draft' = [draft EXCEPT ![d] = claimed("STALE")] /\ UNCHANGED worker
       \/ /\ enabled /\ IsCurrent(d)
          /\ draft' = [draft EXCEPT ![d] = claimed("PROCESSING")]
          /\ worker' = [worker EXCEPT ![w] = [Idle EXCEPT !.phase = "recalling", !.draft = d,
                                                          !.lease = draft[d].attempts + 1]]
    /\ UNCHANGED <<inbox, world, asked>>

Settles(w, status) ==
    /\ draft' = IF Owns(w) THEN [draft EXCEPT ![worker[w].draft] = With(worker[w].draft, status)] ELSE draft
    /\ Rests(w)

RecallObjection(w) ==
    CASE frozen -> "BLOCKED"
      [] ~frozen /\ ~IsCurrent(worker[w].draft) -> "STALE"
      [] ~frozen /\ IsCurrent(worker[w].draft) /\ ~enabled -> "BLOCKED"
      [] OTHER -> "NONE"

RecallRefused(w) ==
    /\ worker[w].phase = "recalling"
    /\ \/ ~Owns(w) /\ Rests(w) /\ UNCHANGED draft
       \/ Owns(w) /\ RecallObjection(w) # "NONE" /\ Settles(w, RecallObjection(w))
    /\ UNCHANGED <<inbox, world, asked>>

Recall(w) ==
    LET d == worker[w].draft IN
    /\ worker[w].phase = "recalling" /\ Owns(w) /\ RecallObjection(w) = "NONE"
    /\ \E source \in {catalogue, -1} :
           /\ draft' = [draft EXCEPT ![d].source = source]
           /\ worker' = [worker EXCEPT ![w] = [@ EXCEPT !.phase = "starting", !.source = source]]
    /\ UNCHANGED <<inbox, world, asked>>

\* Too many models to choose from, or a search that failed.
RecallEnds(w) ==
    /\ worker[w].phase = "recalling" /\ Owns(w) /\ RecallObjection(w) = "NONE"
    /\ \/ draft[worker[w].draft].automatic /\ Settles(w, "READY")
       \/ ~draft[worker[w].draft].automatic /\ Settles(w, "BLOCKED")
       \/ Settles(w, "FAILED")
    /\ UNCHANGED <<inbox, world, asked>>

Start(w) ==
    /\ worker[w].phase = "starting"
    /\ IF Owns(w) /\ ~draft[worker[w].draft].started
       THEN Goes(w, "calling") /\ draft' = [draft EXCEPT ![worker[w].draft].started = TRUE]
       ELSE Rests(w) /\ UNCHANGED draft
    /\ UNCHANGED <<inbox, world, asked>>

Generate(w) ==
    /\ worker[w].phase = "calling"
    /\ asked' = [asked EXCEPT ![worker[w].draft] = @ + 1]
    /\ \E phase \in {"checking", "failing"} : Goes(w, phase)
    /\ UNCHANGED <<inbox, draft, world>>

Fail(w) ==
    /\ worker[w].phase = "failing"
    /\ Settles(w, "FAILED")
    /\ UNCHANGED <<inbox, world, asked>>

SourcesUnchanged(source) == source = catalogue
SourcesCurrent(source) == source \in {-1, catalogue}

Check(w) ==
    /\ worker[w].phase = "checking"
    /\ IF frozen \/ ~enabled THEN Settles(w, "BLOCKED")
       ELSE IF ~IsCurrent(worker[w].draft) \/ ~SourcesCurrent(worker[w].source) THEN Settles(w, "STALE")
       ELSE \E status \in {"READY", "BLOCKED"} : Settles(w, status)
    /\ UNCHANGED <<inbox, world, asked>>

\* worker_fail_expired_ai_reply_drafts: what no worker may take over.
ExhaustedOnly(d) == draft[d].attempts >= MAX_ATTEMPTS
Exhausted(d) == draft[d].started \/ draft[d].attempts >= MAX_ATTEMPTS

FailExpired(d) ==
    /\ draft[d].status = "PROCESSING" /\ draft[d].expired
    /\ Exhausted(d)
    /\ draft' = [draft EXCEPT ![d] = With(d, "FAILED")]
    /\ UNCHANGED <<inbox, worker, world, asked>>

-----------------------------------------------------------------------------
(* ConversationsService.send, with a draft                                  *)

Use(d) ==
    /\ ~frozen /\ enabled /\ draft[d].status = "READY"
    /\ draft' = [draft EXCEPT ![d] = With(d,
            IF draft[d].anchor = latest /\ SourcesCurrent(draft[d].source) THEN "USED" ELSE "STALE")]
    /\ UNCHANGED <<inbox, worker, world, asked>>

-----------------------------------------------------------------------------
(* Customers, managers, time and failures                                   *)

Arrive(hasWords) ==
    /\ latest < MaxMessages
    /\ latest' = latest + 1
    /\ worded' = IF hasWords THEN worded \cup {latest'} ELSE worded
    /\ unscheduled' = IF hasWords THEN unscheduled \cup {latest'} ELSE unscheduled
    /\ UNCHANGED <<draft, worker, world, asked>>

EditProducts ==
    /\ catalogue < MaxEdits
    /\ catalogue' = catalogue + 1
    /\ UNCHANGED <<inbox, draft, worker, enabled, frozen, switches, lost, asked>>

Switch ==
    /\ \/ enabled' = ~enabled /\ (enabled => switches < MaxSwitches) /\ UNCHANGED frozen
          /\ switches' = IF enabled THEN switches + 1 ELSE switches
       \/ frozen' = ~frozen /\ (frozen \/ switches < MaxSwitches) /\ UNCHANGED enabled
          /\ switches' = IF frozen THEN switches ELSE switches + 1
    /\ UNCHANGED <<inbox, draft, worker, catalogue, lost, asked>>

ExpireLease(d) ==
    LET outlived == \E w \in Workers : Owns(w) /\ worker[w].draft = d IN
    /\ draft[d].status = "PROCESSING" /\ ~draft[d].expired
    /\ outlived => lost < MaxLost
    /\ lost' = IF outlived THEN lost + 1 ELSE lost
    /\ draft' = [draft EXCEPT ![d].expired = TRUE]
    /\ UNCHANGED <<inbox, worker, catalogue, enabled, frozen, switches, asked>>

Crash(w) ==
    /\ worker[w].phase # "idle" /\ lost < MaxLost
    /\ lost' = lost + 1
    /\ Rests(w)
    /\ UNCHANGED <<inbox, draft, catalogue, enabled, frozen, switches, asked>>

-----------------------------------------------------------------------------
Init ==
    /\ latest = 0 /\ worded = {} /\ unscheduled = {}
    /\ draft = [d \in Drafts |-> NoDraft]
    /\ worker = [w \in Workers |-> Idle]
    /\ catalogue = 0
    /\ enabled = TRUE
    /\ frozen = FALSE
    /\ switches = 0
    /\ lost = 0
    /\ asked = [d \in Drafts |-> 0]

WorkerGoesOn(w) ==
    \/ RecallRefused(w) \/ Recall(w) \/ RecallEnds(w)
    \/ Start(w) \/ Generate(w) \/ Fail(w) \/ Check(w)

DraftStep(d) ==
    \/ QuietPasses(d)
    \/ FailExpired(d)
    \/ ~(\E w \in Workers : Owns(w) /\ worker[w].draft = d) /\ ExpireLease(d)

Next ==
    \/ \E m \in Messages : Schedule(m)
    \/ Request
    \/ \E w \in Workers : WorkerGoesOn(w) \/ Crash(w) \/ \E d \in Drafts : Claim(w, d)
    \/ \E d \in Drafts : QuietPasses(d) \/ FailExpired(d) \/ ExpireLease(d) \/ Use(d)
    \/ \E hasWords \in BOOLEAN : Arrive(hasWords)
    \/ EditProducts \/ Switch

Spec == Init /\ [][Next]_vars

(* A worker goes on, time passes, and the reconciler, which looks after the *)
(* drafts of enabled and unfrozen tenants every few seconds, wakes a worker *)
(* for whatever is due.                                                     *)
Fairness ==
    /\ \A w \in Workers : WF_vars(WorkerGoesOn(w))
    /\ \A d \in Drafts : WF_vars(DraftStep(d)) /\ WF_vars(enabled /\ \E w \in Workers : Claim(w, d))

FairSpec == Spec /\ Fairness

-----------------------------------------------------------------------------
(* Properties                                                               *)

TypeOK ==
    /\ latest \in 0..MaxMessages
    /\ unscheduled \subseteq worded /\ worded \subseteq 1..latest
    /\ draft \in [Drafts -> Draft]
    /\ worker \in [Workers -> Work]
    /\ catalogue \in Editions
    /\ enabled \in BOOLEAN /\ frozen \in BOOLEAN
    /\ switches \in Nat /\ lost \in Nat
    /\ asked \in [Drafts -> Nat]

\* "Reconciliation cannot create duplicate provider calls": the model is asked
\* once for a draft at most, whatever claims crash, expire or go on too late.  The
\* client may repeat a request that fails on the way (OpenAI's maxRetries).
ModelIsAskedOnce == \A d \in Drafts : asked[d] <= 1

\* A draft becomes STALE because of a newer message or a changed product, or
\* because the message it was asked for has no words: the API takes such a
\* message for the latest, the worker does not.
StaleIsOutrun ==
    \A d \in Drafts : draft[d].status = "STALE" =>
        \/ latest > draft[d].anchor
        \/ draft[d].source \notin {-1, catalogue}
        \/ draft[d].anchor \notin worded

\* Every draft that was asked for ends, while drafts are enabled and the tenant
\* is not frozen.
DraftsEnd ==
    \A d \in Drafts : (draft[d].status \in Active) ~> (draft[d].status \in Ended \/ ~enabled \/ frozen)
=============================================================================
