------------------------- MODULE InstagramDelivery -------------------------
(***************************************************************************)
(* A manager's replies to one customer on Instagram.  The API writes and   *)
(* retries them (ConversationsService), the worker claims and sends them   *)
(* (InstagramMessageDeliveryService), and Instagram reports every text it  *)
(* delivered in an echo, which SocialInboundIngestionService matches to    *)
(* the reply it belongs to, or stores as a message of its own.             *)
(*                                                                         *)
(* Unlike TikTok's, a reply whose lease has expired is claimed and sent    *)
(* again.  An echo is compared with a few of the replies still without an  *)
(* echo, whatever their texts, that the database returns in no order.      *)
(*                                                                         *)
(* Time comes in spells shorter than the 30 s of an echo's window, with    *)
(* pauses longer than the 60 s of a lease in between (TimePasses).         *)
(***************************************************************************)
EXTENDS Integers, FiniteSets

CONSTANTS
    Messages,        \* replies in one conversation
    Text,            \* the normalised text of each, and of those typed in the app
    Workers,         \* worker processes
    Managers,        \* API requests that may be retrying a reply
    NoMessage,       \* stands for none, and for the Instagram app as a sender
    MAX_ATTEMPTS,    \* MAX_RATE_LIMIT_ATTEMPTS
    MAX_CANDIDATES,  \* replies that an echo is compared with at most: 3
    MaxRetries,      \* bound: manual retries of a reply
    MaxGenerations,  \* bound: times the Instagram account is connected
    MaxStalls,       \* bound: claims lost to a crash or to a lease outlived
    MaxTyped         \* bound: times a text is typed in the Instagram app

VARIABLES
    message,     \* messages: delivery status, attempts, lease, provider id
    connection,  \* instagram_connections: credential generation and status
    retrying,    \* the reply each manager's retry has read, and not written
    queue,       \* replies with a job in BullMQ
    worker,      \* what each worker process is doing
    rows,        \* echoes stored as messages of their own
    stalls,
    retries,     \* ghost: manual retries written, by reply
    sent,        \* external: texts Instagram delivered, <<reply, number>>
    recent,      \* replies written and texts delivered since time last passed
    near,        \* pairs of a text and a reply written within its window
    unusable     \* external: generations whose token Meta refuses

vars == <<message, connection, retrying, queue, worker, rows, stalls, retries,
          sent, recent, near, unusable>>
clock == <<recent, near>>
account == <<connection, unusable>>

-----------------------------------------------------------------------------
\* RATE_LIMITED is FAILED with the code INSTAGRAM_RATE_LIMITED.
Final == {"SENT", "FAILED", "RATE_LIMITED", "UNKNOWN"}
Status == {"NONE", "PENDING", "SENDING"} \cup Final

\* A text's id is its sender and a number; <<NoMessage, 0>> is none.
Sends == (Messages \cup {NoMessage}) \X Nat
NoSend == <<NoMessage, 0>>

Message == [status : Status, attempts : Nat, due : BOOLEAN, lease : Nat,
            expired : BOOLEAN, provider : Sends]
None == [status |-> "NONE", attempts |-> 0, due |-> FALSE, lease |-> 0,
         expired |-> FALSE, provider |-> NoSend]

Phase == {"idle", "claimed", "loaded", "sending", "refusing", "finishing"}
Result == {"NONE", "PENDING"} \cup Final
Idle == [phase |-> "idle", message |-> NoMessage, lease |-> 0, account |-> 0, result |-> "NONE"]
Work == [phase : Phase, message : Messages \cup {NoMessage}, lease : Nat,
         account : Nat, result : Result]

HasStatus(m, S) == message[m].status \in S
Owns(w, m) ==
    /\ worker[w].phase # "idle" /\ worker[w].message = m
    /\ HasStatus(m, {"SENDING"}) /\ message[m].lease = worker[w].lease

-----------------------------------------------------------------------------
(* ConversationsService.  The wake-up that ends a request may fail.  A      *)
(* frozen tenant makes both throw, which no rule of the model relies on.    *)

Wake(m) == queue' \in {queue, queue \cup {m}}

Send(m) ==
    /\ connection.status = "ACTIVE"
    /\ HasStatus(m, {"NONE"})
    /\ message' = [message EXCEPT ![m] = [None EXCEPT !.status = "PENDING", !.due = TRUE]]
    /\ recent' = recent \cup {m}
    /\ near' = near \cup ((recent \cap sent) \X {m})
    /\ Wake(m)
    /\ UNCHANGED <<account, retrying, worker, rows, stalls, retries, sent>>

\* A retry reads the reply without locking it ...
RetryRead(r, m) ==
    /\ retrying[r] = NoMessage
    /\ connection.status = "ACTIVE"
    /\ HasStatus(m, {"RATE_LIMITED"})
    /\ retrying' = [retrying EXCEPT ![r] = m]
    /\ UNCHANGED <<account, clock, message, queue, worker, rows, stalls, retries, sent>>

\* ... and writes it whatever it has become by then.
RetryWrite(r) ==
    LET m == retrying[r] IN
    /\ m # NoMessage
    /\ retries[m] < MaxRetries
    /\ message' = [message EXCEPT ![m] =
            [@ EXCEPT !.status = "PENDING", !.due = TRUE, !.lease = 0, !.expired = FALSE]]
    /\ retrying' = [retrying EXCEPT ![r] = NoMessage]
    /\ retries' = [retries EXCEPT ![m] = @ + 1]
    /\ Wake(m)
    /\ UNCHANGED <<account, clock, worker, rows, stalls, sent>>

-----------------------------------------------------------------------------
(* The worker                                                               *)

DueWithUnknown(m) ==
    \/ HasStatus(m, {"PENDING"}) /\ message[m].due
    \/ HasStatus(m, {"SENDING"}) /\ message[m].expired
    \/ HasStatus(m, {"UNKNOWN"})
DueOnce(m) == HasStatus(m, {"PENDING"}) /\ message[m].due
Due(m) ==
    \/ HasStatus(m, {"PENDING"}) /\ message[m].due
    \/ HasStatus(m, {"SENDING"}) /\ message[m].expired

\* InstagramMessageReconciler.reconcile.  BullMQ drops a job whose id it has.
Reconcile(m) ==
    /\ Due(m)
    /\ queue' = queue \cup {m}
    /\ UNCHANGED <<account, clock, message, retrying, worker, rows, stalls, retries, sent>>

\* process up to the claim, one conditional update.
TakesJob(w, m) == worker[w].phase = "idle" /\ m \in queue /\ queue' = queue \ {m}

Claim(w, m) ==
    LET claim == message[m].attempts + 1 IN
    /\ TakesJob(w, m)
    /\ Due(m) /\ (message[m].lease = 0 \/ message[m].expired)
    /\ message' = [message EXCEPT ![m] =
            [@ EXCEPT !.status = "SENDING", !.attempts = claim, !.lease = claim,
                      !.expired = FALSE, !.due = FALSE]]
    /\ worker' = [worker EXCEPT ![w] = [Idle EXCEPT !.phase = "claimed", !.message = m, !.lease = claim]]
    /\ UNCHANGED <<account, clock, retrying, rows, stalls, retries, sent>>

Ignore(w, m) ==
    /\ TakesJob(w, m)
    /\ ~(Due(m) /\ (message[m].lease = 0 \/ message[m].expired))
    /\ UNCHANGED <<account, clock, message, retrying, worker, rows, stalls, retries, sent>>

Goes(w, phase, result) ==
    worker' = [worker EXCEPT ![w].phase = phase, ![w].result = result]

\* The worker reads its reply by its lease, then the connection, whose account
\* it sends through.  Without either, or with the reply window over, it fails.
Load(w) ==
    /\ worker[w].phase = "claimed"
    /\ Owns(w, worker[w].message)
    /\ Goes(w, "loaded", "NONE")
    /\ UNCHANGED <<account, clock, message, retrying, queue, rows, stalls, retries, sent>>

LookUp(w) ==
    /\ worker[w].phase = "loaded"
    /\ connection.status = "ACTIVE"
    /\ worker' = [worker EXCEPT ![w].phase = "sending", ![w].account = connection.generation]
    /\ UNCHANGED <<account, clock, message, retrying, queue, rows, stalls, retries, sent>>

FailEarly(w) ==
    /\ worker[w].phase \in {"claimed", "loaded"}
    /\ worker[w].phase = "claimed" => ~Owns(w, worker[w].message)
    /\ Goes(w, "finishing", "FAILED")
    /\ UNCHANGED <<account, clock, message, retrying, queue, rows, stalls, retries, sent>>

\* The Send API's answer, and whether the customer got the text.
Answer(w, delivered, phase, result) ==
    LET s == <<worker[w].message, worker[w].lease>> IN
    /\ worker[w].phase = "sending"
    /\ Goes(w, phase, result)
    /\ IF delivered
       THEN /\ sent' = sent \cup {s}
            /\ recent' = recent \cup {s}
            /\ near' = near \cup ({s} \X (recent \cap Messages))
       ELSE UNCHANGED <<sent, clock>>
    /\ UNCHANGED <<account, message, retrying, queue, rows, stalls, retries>>

SendAccepted(w) ==
    /\ worker[w].account \notin unusable
    /\ Answer(w, TRUE, "finishing", "SENT")

\* 429 is retried until the attempts run out.
SendRateLimited(w) ==
    Answer(w, FALSE, "finishing", IF worker[w].lease >= MAX_ATTEMPTS THEN "RATE_LIMITED" ELSE "PENDING")

\* Timeouts and 5xx: nobody knows.
SendAmbiguous(w) == \E delivered \in BOOLEAN : Answer(w, delivered, "finishing", "UNKNOWN")

\* Refused, or a 200 whose body is not what the client expects.
SendFailed(w) == \E delivered \in BOOLEAN : Answer(w, delivered, "finishing", "FAILED")

\* Provider code 190, or a token that cannot be decrypted.
SendUnauthorized(w) ==
    /\ worker[w].account \in unusable
    /\ Answer(w, FALSE, "refusing", "FAILED")

\* finish: only what is SENDING under the worker's lease.
Settled(w, result) ==
    LET m == worker[w].message IN
    [message EXCEPT ![m] =
        [@ EXCEPT !.status = result, !.lease = 0, !.expired = FALSE, !.due = FALSE,
                  !.provider = IF result = "SENT" THEN <<m, worker[w].lease>>
                               ELSE message[m].provider]]

Finish(w) ==
    /\ worker[w].phase = "finishing"
    /\ message' = IF Owns(w, worker[w].message) THEN Settled(w, worker[w].result) ELSE message
    /\ worker' = [worker EXCEPT ![w] = Idle]
    /\ UNCHANGED <<account, clock, retrying, queue, rows, stalls, retries, sent>>

\* markReconnectRequired, by the generation the worker had read.
ShutsIts(w) == connection.generation = worker[w].account

MarkReconnectRequired(w) ==
    /\ worker[w].phase = "refusing"
    /\ message' = IF Owns(w, worker[w].message) THEN Settled(w, "FAILED") ELSE message
    /\ connection' = IF ShutsIts(w) THEN [connection EXCEPT !.status = "REAUTH_REQUIRED"] ELSE connection
    /\ worker' = [worker EXCEPT ![w] = Idle]
    /\ UNCHANGED <<clock, retrying, queue, rows, stalls, retries, sent, unusable>>

-----------------------------------------------------------------------------
(* SocialInboundIngestionService.processAccepted, of the echo of text s.    *)
(* Echoes come late, repeatedly, in any order, or never.                    *)

OpenPending(s) == {m \in Messages : HasStatus(m, {"PENDING", "SENDING"}) /\ <<s, m>> \in near}
Open(s) ==
    {m \in Messages : ~HasStatus(m, {"NONE"}) /\ message[m].provider = NoSend /\ <<s, m>> \in near}
ProviderMatch(s) == {m \in Messages : message[m].provider = s}

\* findMany takes MAX_CANDIDATES of the open replies, in no order ...
Taken(s) ==
    {T \in SUBSET Open(s) : Cardinality(T) <= MAX_CANDIDATES /\ (T = Open(s) \/ Cardinality(T) = MAX_CANDIDATES)}

\* ... and only then are their texts compared.
Matches(s, T) == {m \in T : Text[m] = Text[s[1]]}

\* findOutboundEchoCandidate: none or one.
EchoCandidate(s, T) ==
    IF ProviderMatch(s) # {} THEN ProviderMatch(s)
    ELSE IF Cardinality(Matches(s, T)) = 1 THEN Matches(s, T) ELSE {}

EchoMatches(s, m) ==
    /\ s \in sent
    /\ \E T \in Taken(s) : m \in EchoCandidate(s, T)
    /\ message' = [message EXCEPT ![m] =
            [@ EXCEPT !.status = "SENT", !.provider = s, !.lease = 0, !.expired = FALSE, !.due = FALSE]]
    /\ UNCHANGED <<account, clock, retrying, queue, worker, rows, stalls, retries, sent>>

EchoIsStored(s) ==
    /\ s \in sent
    /\ \E T \in Taken(s) : EchoCandidate(s, T) = {}
    /\ rows' = rows \cup {s}
    /\ UNCHANGED <<account, clock, message, retrying, queue, worker, stalls, retries, sent>>

-----------------------------------------------------------------------------
(* Time, failures and the rest of the world                                 *)

\* The delay of a rate limit has passed.
BecomeDue(m) ==
    /\ HasStatus(m, {"PENDING"}) /\ ~message[m].due
    /\ message' = [message EXCEPT ![m].due = TRUE]
    /\ UNCHANGED <<account, clock, retrying, queue, worker, rows, stalls, retries, sent>>

\* More than a minute passes.  Leases expire, also of workers that stall: those
\* are counted.
Held == {m \in Messages : HasStatus(m, {"SENDING"}) /\ ~message[m].expired}
Outlived == {m \in Held : \E w \in Workers : Owns(w, m)}

\* More than half a minute does.
WindowCloses ==
    /\ recent # {}
    /\ recent' = {}
    /\ UNCHANGED <<account, message, retrying, queue, worker, rows, stalls, retries, sent, near>>

TimePasses ==
    /\ recent # {} \/ Held # {}
    /\ stalls + Cardinality(Outlived) <= MaxStalls
    /\ stalls' = stalls + Cardinality(Outlived)
    /\ recent' = {}
    /\ message' = [m \in Messages |->
            IF m \in Held THEN [message[m] EXCEPT !.expired = TRUE] ELSE message[m]]
    /\ UNCHANGED <<account, retrying, queue, worker, rows, retries, sent, near>>

\* BullMQ takes a job back from a worker that did not renew its lock in time.
Redeliver(w) ==
    /\ worker[w].phase # "idle"
    /\ queue' = queue \cup {worker[w].message}
    /\ UNCHANGED <<account, clock, message, retrying, worker, rows, stalls, retries, sent>>

Crash(w) ==
    /\ worker[w].phase # "idle"
    /\ stalls < MaxStalls
    /\ stalls' = stalls + 1
    /\ worker' = [worker EXCEPT ![w] = Idle]
    /\ UNCHANGED <<account, clock, message, retrying, queue, rows, retries, sent>>

\* The manager types a text in the Instagram app.
TypeInApp ==
    LET typed == {s \in sent : s[1] = NoMessage}
        s == <<NoMessage, Cardinality(typed) + 1>>
    IN  /\ Cardinality(typed) < MaxTyped
        /\ sent' = sent \cup {s}
        /\ recent' = recent \cup {s}
        /\ near' = near \cup ({s} \X (recent \cap Messages))
        /\ UNCHANGED <<account, message, retrying, queue, worker, rows, stalls, retries>>

\* Meta revokes the token, which nobody here notices.
Revoke ==
    /\ connection.generation # 0
    /\ unusable' = unusable \cup {connection.generation}
    /\ UNCHANGED <<connection, clock, message, retrying, queue, worker, rows, stalls, retries, sent>>

\* InstagramOAuthService.completeCallback: new credentials replace any others in
\* one transaction, and another activates them after the calls to Meta between.
Connect ==
    /\ connection.generation < MaxGenerations
    /\ connection' = [generation |-> connection.generation + 1, status |-> "ERROR"]
    /\ UNCHANGED <<unusable, clock, message, retrying, queue, worker, rows, stalls, retries, sent>>

Activate ==
    /\ connection.status = "ERROR"
    /\ connection' = [connection EXCEPT !.status = "ACTIVE"]
    /\ UNCHANGED <<unusable, clock, message, retrying, queue, worker, rows, stalls, retries, sent>>

Disconnect ==
    /\ connection.status # "DISCONNECTED"
    /\ connection' = [connection EXCEPT !.status = "DISCONNECTED"]
    /\ unusable' = unusable \cup {connection.generation}
    /\ UNCHANGED <<clock, message, retrying, queue, worker, rows, stalls, retries, sent>>

-----------------------------------------------------------------------------
Init ==
    /\ message = [m \in Messages |-> None]
    /\ connection = [generation |-> 0, status |-> "DISCONNECTED"]
    /\ retrying = [r \in Managers |-> NoMessage]
    /\ queue = {}
    /\ worker = [w \in Workers |-> Idle]
    /\ rows = {}
    /\ stalls = 0
    /\ retries = [m \in Messages |-> 0]
    /\ sent = {}
    /\ recent = {}
    /\ near = {}
    /\ unusable = {}

WorkerStep(w) ==
    \/ \E m \in Messages : Claim(w, m) \/ Ignore(w, m)
    \/ Load(w) \/ LookUp(w) \/ FailEarly(w)
    \/ SendAccepted(w) \/ SendRateLimited(w) \/ SendAmbiguous(w) \/ SendFailed(w) \/ SendUnauthorized(w)
    \/ Finish(w) \/ MarkReconnectRequired(w)

MessageStep(m) == Reconcile(m) \/ BecomeDue(m)

Next ==
    \/ \E m \in Messages : Send(m) \/ MessageStep(m)
    \/ \E r \in Managers : RetryWrite(r) \/ \E m \in Messages : RetryRead(r, m)
    \/ \E w \in Workers : WorkerStep(w) \/ Redeliver(w) \/ Crash(w)
    \/ \E s \in sent : EchoIsStored(s) \/ \E m \in Messages : EchoMatches(s, m)
    \/ WindowCloses \/ TimePasses \/ TypeInApp
    \/ Revoke \/ Connect \/ Activate \/ Disconnect

Spec == Init /\ [][Next]_vars

\* The reconciler runs every five seconds, time passes, the worker takes the
\* jobs there are and every call of the Send API ends, if only by its timeout.
Fairness ==
    /\ WF_vars(TimePasses)
    /\ \A m \in Messages : WF_vars(MessageStep(m))
    /\ \A w \in Workers : WF_vars(WorkerStep(w))

FairSpec == Spec /\ Fairness

-----------------------------------------------------------------------------
(* Properties                                                               *)

TypeOK ==
    /\ message \in [Messages -> Message]
    /\ connection \in [generation : Nat, status : {"ERROR", "ACTIVE", "REAUTH_REQUIRED", "DISCONNECTED"}]
    /\ retrying \in [Managers -> Messages \cup {NoMessage}]
    /\ queue \subseteq Messages
    /\ worker \in [Workers -> Work]
    /\ rows \subseteq sent
    /\ stalls \in Nat
    /\ retries \in [Messages -> Nat]
    /\ sent \subseteq Sends
    /\ recent \subseteq Messages \cup sent
    /\ near \subseteq sent \X Messages
    /\ unusable \subseteq Nat

SendsOf(m) == {s \in sent : s[1] = m}

\* "Never be duplicated by a repeated browser request, worker retry, or echo":
\* the customer gets a reply once more than claims of it were lost or a manager
\* retried it, at most, whatever echoes and late answers do to its status.
SendsAreAccountedFor ==
    \A m \in Messages : Cardinality(SendsOf(m)) <= 1 + stalls + retries[m]

\* "UNKNOWN: automatic retry is prohibited until an echo resolves it": nothing
\* but an echo, or a manager whose retry was decided on before, moves a reply
\* that may have been sent; a refusal or a late answer does not reopen it.
Reopens(m) == \E r \in Managers : retrying[r] = m /\ retrying'[r] = NoMessage
AwaitsEcho ==
    \A m \in Messages : HasStatus(m, {"UNKNOWN"}) =>
        message'[m].status \in {"UNKNOWN", "SENT"} \/ Reopens(m)

\* The reply of text s may not be among those its echo is compared with: it was
\* written more than 30 s before the text left, it has the echo of another text,
\* or more than MAX_CANDIDATES replies are open.
MayBeMissed(s) ==
    \/ <<s, s[1]>> \notin near
    \/ message[s[1]].provider \notin {NoSend, s}
    \/ Cardinality(Open(s)) > MAX_CANDIDATES

\* "A later Meta echo webhook reconciles with the local outbound message and
\* does not create a second message": it does create one only if it may have
\* missed the reply, or if another of the same text was written in its window.
AddsAmbiguousRow ==
    \A s \in rows' \ rows : s[1] \in Messages =>
        \/ MayBeMissed(s)
        \/ \E n \in Messages : n # s[1] /\ Text[n] = Text[s[1]] /\ <<s, n>> \in near

\* Two replies of one text are not told apart by guessing: an echo settles another
\* reply than its own only if it may have missed its own.
SettlesItsOwn ==
    \A m \in Messages : LET s == message'[m].provider IN
        (s # message[m].provider /\ s[1] \in Messages \ {m}) => MayBeMissed(s)

\* Every reply ends, echo or not.
DeliveryEnds == \A m \in Messages : HasStatus(m, {"PENDING", "SENDING"}) ~> HasStatus(m, Final)
=============================================================================
