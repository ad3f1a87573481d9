--------------------------- MODULE TikTokDelivery ---------------------------
(***************************************************************************)
(* A manager's replies to customers on TikTok: ConversationsService in     *)
(* apps/api writes a message and lets a manager retry it,                  *)
(* TikTokMessageDeliveryService in apps/worker claims it, sends it and     *)
(* settles it, and TikTokMessageReconciler wakes what is due and gives up  *)
(* on what nobody settled.  The module follows the replies of one tenant.  *)
(*                                                                         *)
(* TikTok has no idempotency key and no echo of what was sent, so the code *)
(* never claims a message that may have been sent: it becomes UNKNOWN.     *)
(*                                                                         *)
(* Time is abstracted to what the code compares: whether the next attempt  *)
(* is due.  The 60 s of a lease and the 48 h of the reply window may be    *)
(* over whenever the code asks.  The lease id, a new UUID of every claim,  *)
(* is the number of the claim, which "attempts" counts.                    *)
(***************************************************************************)
EXTENDS Integers, FiniteSets

CONSTANTS
    Messages,        \* the replies, by clientIdempotencyKey
    Workers,         \* worker processes
    Managers,        \* API requests that may be retrying a message
    NoMessage,       \* stands for none
    MAX_ATTEMPTS,    \* MAX_SAFE_RETRY_ATTEMPTS
    MaxRetries,      \* bound: manual retries of a message
    MaxGenerations,  \* bound: times the TikTok account is connected
    MaxCrashes       \* bound: jobs lost with their worker

ASSUME TikTokDeliveryAssumption ==
    /\ NoMessage \notin Messages
    /\ MAX_ATTEMPTS \in Nat \ {0}
    /\ MaxRetries \in Nat
    /\ MaxGenerations \in Nat
    /\ MaxCrashes \in Nat

VARIABLES
    message,     \* messages: delivery status, attempts, lease, generation
    connection,  \* tiktok_connections: generation (0 for null) and status
    enabled,     \* the platform's switch of the channel
    frozen,      \* the tenant has an open request to delete its data
    retrying,    \* the message each manager's retry has read, and not written
    queue,       \* messages with a job in BullMQ
    worker,      \* what each worker process is doing
    generations, \* generations given out so far
    callbacks,   \* OAuth callbacks that found no connection, and have made none
    expiring,    \* generation whose expiry a settings page has seen, and not written
    crashes,
    retries,     \* ghost: manual retries written, by message
    got,         \* external: how often the customer got it, by retry
    through,     \* external: generations of the accounts it was sent through
    unusable     \* external: generations refused, revoked, expired or without a token

vars == <<message, connection, enabled, frozen, retrying, queue, worker,
          generations, callbacks, expiring, crashes, retries, got, through, unusable>>
switches == <<enabled, frozen, generations, callbacks, expiring>>
settings == <<connection, switches, unusable>>
outside == <<got, through>>

-----------------------------------------------------------------------------
\* RATE_LIMITED is FAILED with the code TIKTOK_RATE_LIMITED: the only failure
\* a manager may retry.
Final == {"SENT", "FAILED", "RATE_LIMITED", "UNKNOWN"}
Status == {"NONE", "PENDING", "SENDING"} \cup Final
Generations == 0..MaxGenerations
Rounds == 0..MaxRetries

Message == [status : Status, attempts : Nat, due : BOOLEAN, lease : Nat, generation : Generations]
None == [status |-> "NONE", attempts |-> 0, due |-> FALSE, lease |-> 0, generation |-> 0]

ConnectionStatus == {"ACTIVE", "INBOUND_ONLY", "REAUTH_REQUIRED", "DISCONNECTED"}

Phase == {"idle", "claiming", "frozen", "claimed", "token", "checking", "sending", "finishing", "refusing"}
Result == {"NONE", "PENDING"} \cup Final
Work == [phase : Phase, message : Messages \cup {NoMessage}, lease : Nat,
         round : Rounds, account : Generations, result : Result]
Idle == [phase |-> "idle", message |-> NoMessage, lease |-> 0,
         round |-> 0, account |-> 0, result |-> "NONE"]

HasStatus(m, S) == message[m].status \in S
CanReply(g) == connection.generation = g /\ connection.status = "ACTIVE"

\* The message is still this worker's: SENDING under the lease of its claim.
Holds(w) ==
    LET m == worker[w].message IN HasStatus(m, {"SENDING"}) /\ message[m].lease = worker[w].lease

-----------------------------------------------------------------------------
(* ConversationsService.  The wake-up that ends a request may fail.         *)

Wake(m) == queue' \in {queue, queue \cup {m}}

Send(m) ==
    /\ ~frozen /\ enabled
    /\ connection.generation # 0 /\ connection.status = "ACTIVE"
    /\ HasStatus(m, {"NONE"})
    /\ message' = [message EXCEPT ![m] =
            [None EXCEPT !.status = "PENDING", !.due = TRUE, !.generation = connection.generation]]
    /\ Wake(m)
    /\ UNCHANGED <<settings, outside, retrying, worker, crashes, retries>>

\* A retry reads the message without locking it ...
MaySafelyRetry(m) == HasStatus(m, {"RATE_LIMITED"}) /\ CanReply(message[m].generation)

RetryRead(r, m) ==
    /\ retrying[r] = NoMessage
    /\ ~frozen /\ enabled
    /\ MaySafelyRetry(m)
    /\ retrying' = [retrying EXCEPT ![r] = m]
    /\ UNCHANGED <<settings, outside, message, queue, worker, crashes, retries>>

\* ... and writes it whatever it has become by then.
RetryWrite(r) ==
    LET m == retrying[r] IN
    /\ m # NoMessage
    /\ retries[m] < MaxRetries
    /\ message' = [message EXCEPT ![m].status = "PENDING", ![m].lease = 0, ![m].due = TRUE]
    /\ retrying' = [retrying EXCEPT ![r] = NoMessage]
    /\ retries' = [retries EXCEPT ![m] = @ + 1]
    /\ Wake(m)
    /\ UNCHANGED <<settings, outside, worker, crashes>>

-----------------------------------------------------------------------------
(* TikTokMessageReconciler.reconcile                                        *)

DueUntried(m) == HasStatus(m, {"PENDING"}) /\ message[m].attempts = 0
Due(m) == HasStatus(m, {"PENDING"}) /\ message[m].due /\ message[m].lease = 0

Reconcile(m) ==
    /\ enabled
    /\ Due(m)
    /\ queue' = queue \cup {m}
    /\ UNCHANGED <<settings, outside, message, retrying, worker, crashes, retries>>

\* worker_mark_stale_tiktok_messages_unknown, even when the channel is off.
MarkStaleUnknown(m) ==
    /\ HasStatus(m, {"SENDING"})
    /\ message' = [message EXCEPT ![m].status = "UNKNOWN", ![m].lease = 0]
    /\ UNCHANGED <<settings, outside, retrying, queue, worker, crashes, retries>>

-----------------------------------------------------------------------------
(* TikTokMessageDeliveryService.process.  The wake-up is used up.           *)

TakeJob(w, m) ==
    /\ worker[w].phase = "idle" /\ m \in queue
    /\ queue' = queue \ {m}
    /\ worker' = IF enabled
                 THEN [worker EXCEPT ![w] = [Idle EXCEPT !.phase = "claiming", !.message = m]]
                 ELSE worker
    /\ UNCHANGED <<settings, outside, message, retrying, crashes, retries>>

Claimable(m) == HasStatus(m, {"PENDING"}) /\ message[m].due /\ message[m].lease = 0

Claim(w) ==
    LET m == worker[w].message
        claim == message[m].attempts + 1
    IN  /\ worker[w].phase = "claiming"
        /\ ~frozen
        /\ Claimable(m)
        /\ message' = [message EXCEPT ![m] =
                [@ EXCEPT !.status = "SENDING", !.attempts = claim, !.lease = claim, !.due = FALSE]]
        /\ worker' = [worker EXCEPT ![w] =
                [@ EXCEPT !.phase = "claimed", !.lease = claim, !.round = retries[m]]]
        /\ UNCHANGED <<settings, outside, retrying, queue, crashes, retries>>

Ignore(w) ==
    /\ worker[w].phase = "claiming"
    /\ ~frozen
    /\ ~Claimable(worker[w].message)
    /\ worker' = [worker EXCEPT ![w] = Idle]
    /\ UNCHANGED <<settings, outside, message, retrying, queue, crashes, retries>>

\* A frozen tenant's message fails, in a transaction of its own.
MeetFreeze(w) ==
    /\ worker[w].phase = "claiming"
    /\ frozen
    /\ worker' = [worker EXCEPT ![w].phase = "frozen"]
    /\ UNCHANGED <<settings, outside, message, retrying, queue, crashes, retries>>

FailFrozen(w) ==
    LET m == worker[w].message IN
    /\ worker[w].phase = "frozen"
    /\ message' = IF HasStatus(m, {"PENDING"})
                  THEN [message EXCEPT ![m].status = "FAILED", ![m].lease = 0, ![m].due = FALSE]
                  ELSE message
    /\ worker' = [worker EXCEPT ![w] = Idle]
    /\ UNCHANGED <<settings, outside, retrying, queue, crashes, retries>>

-----------------------------------------------------------------------------
(* From the claim to the call                                               *)

Goes(w, phase, result) ==
    worker' = [worker EXCEPT ![w].phase = phase, ![w].result = result]

\* scheduleSafeRetry, of a message that TikTok did not take.
SafeRetryAsTelegram(w, exhausted) ==
    IF worker[w].lease >= MAX_ATTEMPTS THEN exhausted ELSE "RETRYABLE"
SafeRetry(w, exhausted) == IF worker[w].lease >= MAX_ATTEMPTS THEN exhausted ELSE "PENDING"

\* The message by its lease, and the connection of its generation.  The reply
\* window may be over: then the reply fails too.
Prepare(w) ==
    LET m == worker[w].message IN
    /\ worker[w].phase = "claimed"
    /\ \/ message[m].lease = worker[w].lease /\ CanReply(message[m].generation) /\ Goes(w, "token", "NONE")
       \/ Goes(w, "finishing", "FAILED")
    /\ UNCHANGED <<settings, outside, message, retrying, queue, crashes, retries>>

\* getFreshAccessToken, of the message's generation.  Without a token, and with
\* nothing that a retry may help, the connection is shut: at once if TikTok
\* refused to refresh the token or the refresh token has expired.
ShutsCurrent(m) == TRUE
Shuts(m) == connection.generation = message[m].generation

Shut(m) == IF Shuts(m) THEN [connection EXCEPT !.status = "REAUTH_REQUIRED"] ELSE connection

TokenFresh(w) ==
    /\ worker[w].phase = "token"
    /\ connection.generation = message[worker[w].message].generation
    /\ connection.status \in {"ACTIVE", "INBOUND_ONLY"}
    /\ Goes(w, "checking", "NONE")
    /\ UNCHANGED <<settings, outside, message, retrying, queue, crashes, retries>>

TokenDeferred(w) ==
    /\ worker[w].phase = "token"
    /\ Goes(w, "finishing", SafeRetry(w, "FAILED"))
    /\ UNCHANGED <<settings, outside, message, retrying, queue, crashes, retries>>

TokenUnusable(w) ==
    /\ worker[w].phase = "token"
    /\ Goes(w, "refusing", "FAILED")
    /\ unusable' = unusable \cup {message[worker[w].message].generation}
    /\ connection' \in {connection, Shut(worker[w].message)}
    /\ UNCHANGED <<switches, outside, message, retrying, queue, crashes, retries>>

\* The second look, right before the call.
MaySendAnyGeneration(w) == ~frozen /\ Holds(w) /\ connection.status = "ACTIVE"
MaySend(w) == ~frozen /\ Holds(w) /\ CanReply(message[worker[w].message].generation)

Recheck(w) ==
    /\ worker[w].phase = "checking"
    /\ \/ /\ MaySend(w)
          /\ worker' = [worker EXCEPT ![w].phase = "sending", ![w].account = connection.generation]
       \/ Goes(w, "finishing", "FAILED")
    /\ UNCHANGED <<settings, outside, message, retrying, queue, crashes, retries>>

-----------------------------------------------------------------------------
(* sendText and what the code makes of the answer                           *)

Reaches(w) ==
    LET m == worker[w].message IN
    /\ got' = [got EXCEPT ![m][worker[w].round] = @ + 1]
    /\ through' = [through EXCEPT ![m] = @ \cup {worker[w].account}]

Answer(w, phase, result) ==
    /\ worker[w].phase = "sending"
    /\ Goes(w, phase, result)
    /\ UNCHANGED <<connection, switches, message, retrying, queue, crashes, retries>>

SendAccepted(w) == Answer(w, "finishing", "SENT") /\ Reaches(w) /\ UNCHANGED unusable

\* 429, or a code of TikTok's that means "later".
SendDeferred(w) ==
    \E exhausted \in {"RATE_LIMITED", "FAILED"} :
        Answer(w, "finishing", SafeRetry(w, exhausted)) /\ UNCHANGED <<outside, unusable>>

\* Refused; or accepted with an answer the client cannot read.
SendFailed(w) ==
    /\ Answer(w, "finishing", "FAILED")
    /\ Reaches(w) \/ UNCHANGED outside
    /\ UNCHANGED unusable

\* 401
SendUnauthorized(w) ==
    /\ Answer(w, "refusing", "FAILED")
    /\ unusable' = unusable \cup {message[worker[w].message].generation}
    /\ UNCHANGED outside

\* No answer in time, or 5xx: the message may have arrived.
SendAmbiguousDeferred(w) ==
    /\ Answer(w, "finishing", SafeRetry(w, "FAILED"))
    /\ Reaches(w) \/ UNCHANGED outside
    /\ UNCHANGED unusable
SendAmbiguous(w) ==
    /\ Answer(w, "finishing", "UNKNOWN")
    /\ Reaches(w) \/ UNCHANGED outside
    /\ UNCHANGED unusable

-----------------------------------------------------------------------------
(* finish and markReconnectRequired, fenced by the status and the lease     *)

SettleUnfenced(w, result) ==
    message' = [message EXCEPT ![worker[w].message] =
                   [@ EXCEPT !.status = result, !.lease = 0, !.due = FALSE]]
Settle(w, result) ==
    message' = IF Holds(w)
               THEN [message EXCEPT ![worker[w].message] =
                        [@ EXCEPT !.status = result, !.lease = 0, !.due = FALSE]]
               ELSE message

Finish(w) ==
    /\ worker[w].phase = "finishing"
    /\ Settle(w, worker[w].result)
    /\ worker' = [worker EXCEPT ![w] = Idle]
    /\ UNCHANGED <<settings, outside, retrying, queue, crashes, retries>>

MarkReconnectRequired(w) ==
    /\ worker[w].phase = "refusing"
    /\ Settle(w, "FAILED")
    /\ connection' = Shut(worker[w].message)
    /\ worker' = [worker EXCEPT ![w] = Idle]
    /\ UNCHANGED <<switches, unusable, outside, retrying, queue, crashes, retries>>

-----------------------------------------------------------------------------
(* Time, failures and the rest of the system                                *)

BecomeDue(m) ==
    /\ HasStatus(m, {"PENDING"}) /\ ~message[m].due
    /\ message' = [message EXCEPT ![m].due = TRUE]
    /\ UNCHANGED <<settings, outside, retrying, queue, worker, crashes, retries>>

\* BullMQ gives a job to another worker while the first goes on.
Redeliver(w) ==
    /\ worker[w].phase # "idle"
    /\ queue' = queue \cup {worker[w].message}
    /\ UNCHANGED <<settings, outside, message, retrying, worker, crashes, retries>>

\* The process dies, or a transaction of its throws: the job is not repeated.
Crash(w) ==
    /\ worker[w].phase # "idle"
    /\ crashes < MaxCrashes
    /\ crashes' = crashes + 1
    /\ worker' = [worker EXCEPT ![w] = Idle]
    /\ UNCHANGED <<settings, outside, message, retrying, queue, retries>>

\* Nothing of the replies themselves.
Elsewhere == UNCHANGED <<message, retrying, queue, worker, crashes, retries, outside>>

\* A platform administrator turns the channel on or off.
Switch ==
    /\ enabled' = ~enabled
    /\ UNCHANGED <<connection, frozen, generations, callbacks, expiring, unusable>>
    /\ Elsewhere

\* The owner asks for the tenant's data to be deleted, and thinks better of it.
Freeze ==
    /\ frozen' = ~frozen
    /\ UNCHANGED <<connection, enabled, generations, callbacks, expiring, unusable>>
    /\ Elsewhere

\* TikTokOAuthService.completeCallback finds nothing connected ...
FindNothingConnected ==
    /\ enabled
    /\ connection.generation = 0
    /\ generations + callbacks < MaxGenerations
    /\ callbacks' = callbacks + 1
    /\ UNCHANGED <<connection, enabled, frozen, generations, expiring, unusable>>
    /\ Elsewhere

\* ... and connects, over what another callback may have connected meanwhile:
\* a new generation, that may reply or not.
Activate ==
    /\ callbacks > 0
    /\ enabled
    /\ generations' = generations + 1
    /\ callbacks' = callbacks - 1
    /\ \E s \in {"ACTIVE", "INBOUND_ONLY"} :
            connection' = [generation |-> generations + 1, status |-> s]
    /\ UNCHANGED <<enabled, frozen, expiring, unusable>>
    /\ Elsewhere

Disconnect ==
    /\ ~frozen
    /\ connection.generation # 0
    /\ connection' = [generation |-> 0, status |-> "DISCONNECTED"]
    /\ UNCHANGED <<switches, unusable>>
    /\ Elsewhere

\* A webhook finds that the token has expired.
ExpireToken ==
    /\ connection.status \in {"ACTIVE", "INBOUND_ONLY"}
    /\ connection' = [connection EXCEPT !.status = "REAUTH_REQUIRED"]
    /\ unusable' = unusable \cup {connection.generation}
    /\ UNCHANGED switches
    /\ Elsewhere

\* So does the settings page, which writes it in a transaction of its own: over
\* a disconnection, that keeps the expiry, but not over a new token's expiry.
SeeExpiry ==
    /\ expiring = 0
    /\ connection.status \in {"ACTIVE", "INBOUND_ONLY"}
    /\ expiring' = connection.generation
    /\ unusable' = unusable \cup {connection.generation}
    /\ UNCHANGED <<connection, enabled, frozen, generations, callbacks>>
    /\ Elsewhere

WriteExpiry ==
    /\ expiring # 0
    /\ \/ UNCHANGED connection
       \/ /\ generations = expiring
          /\ connection' = [connection EXCEPT !.status = "REAUTH_REQUIRED"]
    /\ expiring' = 0
    /\ UNCHANGED <<enabled, frozen, generations, callbacks, unusable>>
    /\ Elsewhere

-----------------------------------------------------------------------------
Init ==
    /\ message = [m \in Messages |-> None]
    /\ connection = [generation |-> 0, status |-> "DISCONNECTED"]
    /\ enabled = FALSE
    /\ frozen = FALSE
    /\ retrying = [r \in Managers |-> NoMessage]
    /\ queue = {}
    /\ worker = [w \in Workers |-> Idle]
    /\ generations = 0
    /\ callbacks = 0
    /\ expiring = 0
    /\ crashes = 0
    /\ retries = [m \in Messages |-> 0]
    /\ got = [m \in Messages |-> [k \in Rounds |-> 0]]
    /\ through = [m \in Messages |-> {}]
    /\ unusable = {}

WorkerStep(w) ==
    \/ \E m \in Messages : TakeJob(w, m)
    \/ Claim(w) \/ Ignore(w) \/ MeetFreeze(w) \/ FailFrozen(w)
    \/ Prepare(w) \/ TokenFresh(w) \/ TokenDeferred(w) \/ TokenUnusable(w) \/ Recheck(w)
    \/ SendAccepted(w) \/ SendDeferred(w) \/ SendFailed(w) \/ SendUnauthorized(w) \/ SendAmbiguous(w)
    \/ Finish(w) \/ MarkReconnectRequired(w)

MessageStep(m) == Reconcile(m) \/ MarkStaleUnknown(m) \/ BecomeDue(m)

Environment ==
    \/ Switch \/ Freeze
    \/ FindNothingConnected \/ Activate \/ Disconnect
    \/ ExpireToken \/ SeeExpiry \/ WriteExpiry

Next ==
    \/ \E m \in Messages : Send(m) \/ MessageStep(m)
    \/ \E r \in Managers : RetryWrite(r) \/ \E m \in Messages : RetryRead(r, m)
    \/ \E w \in Workers : WorkerStep(w) \/ Redeliver(w) \/ Crash(w)
    \/ Environment

Spec == Init /\ [][Next]_vars

\* The reconciler runs every five seconds, the worker takes the jobs there are
\* and every call of TikTok's API ends, if only by its timeout.
FairSpec ==
    /\ Spec
    /\ \A m \in Messages : WF_vars(MessageStep(m))
    /\ \A w \in Workers : WF_vars(WorkerStep(w))

-----------------------------------------------------------------------------
(* Properties                                                               *)

TypeOK ==
    /\ message \in [Messages -> Message]
    /\ connection \in [generation : Generations, status : ConnectionStatus]
    /\ enabled \in BOOLEAN
    /\ frozen \in BOOLEAN
    /\ retrying \in [Managers -> Messages \cup {NoMessage}]
    /\ queue \subseteq Messages
    /\ worker \in [Workers -> Work]
    /\ generations \in Generations
    /\ callbacks \in 0..MaxGenerations - generations
    /\ expiring \in Generations
    /\ crashes \in Nat
    /\ retries \in [Messages -> Rounds]
    /\ got \in [Messages -> [Rounds -> Nat]]
    /\ through \in [Messages -> SUBSET Generations]
    /\ unusable \subseteq Generations

\* "One provider send": whatever crashes, is redelivered, deferred or answered
\* late, the customer gets a text at most once for the manager's sending it and
\* at most once more for each retry that was written.
OneTextPerRequest == \A m \in Messages, k \in Rounds : got[m][k] <= 1

\* "Browser retries and worker redelivery cannot create duplicate outbound
\* messages": the customer gets each reply at most once.
NeverTwice ==
    \A m \in Messages : \A j, k \in Rounds :
        got[m][j] > 0 /\ got[m][k] > 0 => j = k /\ got[m][k] = 1

\* A text that was sent, or may have been, is sent again only by a manager's
\* retry that was decided on before: no late answer, timer or job reopens it.
SettledStays ==
    [][\A m \in Messages : HasStatus(m, {"SENT", "UNKNOWN"}) =>
            \/ message'[m] = message[m]
            \/ \E r \in Managers : retrying[r] = m /\ retrying'[r] # m]_vars

\* A reply goes out through the connection it was written for: reconnecting
\* does not "allow old queued sends to use a new connection generation".
SentThroughItsConnection ==
    \A m \in Messages : through[m] \subseteq {message[m].generation}

\* What an old generation was refused, or an old page saw, never shuts a newer
\* connection.
OnlyUnusableIsShut ==
    connection.status = "REAUTH_REQUIRED" => connection.generation \in {0} \cup unusable

\* Every reply ends, in spite of lost wake-ups, freezes, crashes and refusals,
\* unless the channel is turned off again and again.
DeliveryEnds ==
    <>[]enabled => \A m \in Messages : HasStatus(m, {"PENDING", "SENDING"}) ~> HasStatus(m, Final)
=============================================================================
