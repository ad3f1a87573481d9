------------------------ MODULE TikTokDeliveryProofs ------------------------
(***************************************************************************)
(* Proofs about TikTokDelivery, for every number of messages, workers,     *)
(* managers, retries, connections and crashes; after them, those about     *)
(* TikTokToken, the tokens that replies are sent with, and about           *)
(* InstagramDelivery, the replies of the other channel.                    *)
(***************************************************************************)
EXTENDS TikTokDelivery, FiniteSetTheorems, TLAPS

-----------------------------------------------------------------------------
(* The inductive invariant                                                  *)

\* Between its claim and the end of its job.
Claimed(w) == worker[w].phase \in {"claimed", "token", "checking", "sending", "finishing", "refusing"}

\* A worker that may still send, or may still let the message be sent.
Live(w) ==
    \/ worker[w].phase \in {"claimed", "token", "checking", "sending"}
    \/ worker[w].phase = "finishing" /\ worker[w].result = "PENDING"

\* A worker knows its message, its own claim and the retry that it serves.
WorkersKnow ==
    \A w \in Workers :
        /\ worker[w].phase # "idle" => worker[w].message \in Messages
        /\ Claimed(w) => /\ worker[w].lease > 0
                         /\ worker[w].lease <= message[worker[w].message].attempts
                         /\ worker[w].round <= retries[worker[w].message]
        /\ worker[w].phase = "finishing" => worker[w].result # "NONE"

\* What a live worker may still send has not been sent ...
LiveIsUnsent == \A w \in Workers : Live(w) => got[worker[w].message][worker[w].round] = 0

\* ... and nobody else may send it.
LiveIsAlone ==
    \A v, w \in Workers :
        (/\ Live(v) /\ Live(w)
         /\ worker[v].message = worker[w].message
         /\ worker[v].round = worker[w].round) => v = w

\* A message that waits has not been sent since its last retry, and is in
\* nobody's hands.
PendingIsUnsent ==
    \A m \in Messages : HasStatus(m, {"PENDING"}) =>
        /\ got[m][retries[m]] = 0
        /\ \A w \in Workers : (Live(w) /\ worker[w].message = m) => worker[w].round # retries[m]

\* Whoever holds the lease claimed the message after its last retry.
HolderIsCurrent ==
    \A w \in Workers : (Claimed(w) /\ Holds(w)) => worker[w].round = retries[worker[w].message]

\* Nothing has happened to a message that is not written yet.
NewIsUntouched ==
    \A m \in Messages : HasStatus(m, {"NONE"}) =>
        /\ message[m].attempts = 0 /\ through[m] = {}
        /\ \A k \in Rounds : got[m][k] = 0

LaterIsUnsent == \A m \in Messages, k \in Rounds : k > retries[m] => got[m][k] = 0

RetriedIsWritten ==
    \A r \in Managers : retrying[r] \in Messages => ~HasStatus(retrying[r], {"NONE"})

\* Between the second look and the call the account is the message's own.
SendsToItsAccount ==
    \A w \in Workers : worker[w].phase = "sending" =>
        worker[w].account = message[worker[w].message].generation

\* Only a generation that was refused is being shut.
RefusedIsUnusable ==
    \A w \in Workers : worker[w].phase = "refusing" =>
        message[worker[w].message].generation \in unusable

\* The connection, if any, is the last that was made ...
LatestIsConnected == connection.generation \in {0, generations}

\* ... and a settings page writes an expiry that it has seen.
SeenIsUnusable == expiring \in {0} \cup unusable

SendInv ==
    /\ WorkersKnow /\ LiveIsUnsent /\ LiveIsAlone /\ PendingIsUnsent /\ HolderIsCurrent
    /\ NewIsUntouched /\ LaterIsUnsent /\ RetriedIsWritten
    /\ OneTextPerRequest

AccountInv ==
    /\ SendsToItsAccount /\ SentThroughItsConnection
    /\ RefusedIsUnusable /\ OnlyUnusableIsShut
    /\ LatestIsConnected /\ SeenIsUnusable

IInv == TypeOK /\ SendInv /\ AccountInv

LEMMA Initially == Init => IInv
<1>. SUFFICES ASSUME Init PROVE IInv
    OBVIOUS
<1>1. None \in Message /\ Idle \in Work /\ 0 \in Generations /\ 0 \in Rounds
    BY TikTokDeliveryAssumption DEF None, Message, Status, Final, Idle, Work, Phase, Result, Generations, Rounds
<1>2. TypeOK
  <2>1. generations \in Generations /\ callbacks \in 0..MaxGenerations - generations /\ expiring \in Generations
    BY TikTokDeliveryAssumption DEF Init, Generations
  <2>. QED
    BY <1>1, <2>1 DEF Init, TypeOK, ConnectionStatus
<1>3. \A w \in Workers : worker[w].phase = "idle"
    BY DEF Init, Idle
<1>4. \A m \in Messages : HasStatus(m, {"NONE"}) /\ message[m].attempts = 0
    BY DEF Init, None, HasStatus
<1>5. SendInv
  <2>1. WorkersKnow /\ LiveIsUnsent /\ LiveIsAlone /\ HolderIsCurrent
    BY <1>3 DEF WorkersKnow, LiveIsUnsent, LiveIsAlone, HolderIsCurrent, Claimed, Live
  <2>2. PendingIsUnsent
    BY <1>4 DEF PendingIsUnsent, HasStatus
  <2>3. NewIsUntouched /\ LaterIsUnsent /\ OneTextPerRequest
    BY <1>1, <1>4 DEF Init, NewIsUntouched, LaterIsUnsent, OneTextPerRequest
  <2>4. RetriedIsWritten
    BY TikTokDeliveryAssumption DEF Init, RetriedIsWritten
  <2>. QED
    BY <2>1, <2>2, <2>3, <2>4 DEF SendInv
<1>6. AccountInv
    BY <1>3 DEF Init, AccountInv, SendsToItsAccount, SentThroughItsConnection, RefusedIsUnusable,
           OnlyUnusableIsShut, LatestIsConnected, SeenIsUnusable
<1>. QED
    BY <1>2, <1>5, <1>6 DEF IInv

-----------------------------------------------------------------------------
(* Types                                                                    *)

\* What the actions write into a message is a message.
LEMMA MessageType ==
    ASSUME NEW x \in Message, NEW s \in Status, NEW n \in Nat
    PROVE  /\ [x EXCEPT !.status = s, !.lease = 0] \in Message
           /\ [x EXCEPT !.status = s, !.lease = 0, !.due = TRUE] \in Message
           /\ [x EXCEPT !.status = s, !.lease = 0, !.due = FALSE] \in Message
           /\ [x EXCEPT !.status = s, !.attempts = n, !.lease = n, !.due = FALSE] \in Message
           /\ [x EXCEPT !.due = TRUE] \in Message
BY DEF Message

\* What the actions write into a worker is a worker.
LEMMA WorkerType ==
    ASSUME NEW x \in Work, NEW phase \in Phase
    PROVE  /\ \A m \in Messages : [x EXCEPT !.phase = phase, !.message = m] \in Work
           /\ \A n \in Nat, k \in Rounds : [x EXCEPT !.phase = phase, !.lease = n, !.round = k] \in Work
           /\ \A g \in Generations : [x EXCEPT !.phase = phase, !.account = g] \in Work
           /\ \A result \in Result : [x EXCEPT !.phase = phase, !.result = result] \in Work
           /\ [x EXCEPT !.phase = phase] \in Work
BY DEF Work

LEMMA IdleIsWork == Idle \in Work
BY TikTokDeliveryAssumption DEF Idle, Work, Phase, Result, Generations, Rounds

\* A worker that goes on keeps its type.
LEMMA WorkType ==
    ASSUME TypeOK, NEW w \in Workers, NEW phase \in Phase, NEW result \in Result, Goes(w, phase, result)
    PROVE  worker' \in [Workers -> Work]
<1>1. [worker[w] EXCEPT !.phase = phase, !.result = result] \in Work
    BY WorkerType DEF TypeOK
<1>. QED
    BY <1>1 DEF Goes, TypeOK

LEMMA IdleType ==
    ASSUME TypeOK, NEW w \in Workers, worker' = [worker EXCEPT ![w] = Idle]
    PROVE  worker' \in [Workers -> Work]
BY IdleIsWork DEF TypeOK

LEMMA SafeRetryType ==
    ASSUME NEW w \in Workers, NEW exhausted \in Result
    PROVE  SafeRetry(w, exhausted) \in Result
BY DEF SafeRetry, Result

LEMMA SettleType ==
    ASSUME TypeOK, WorkersKnow, NEW w \in Workers, worker[w].phase # "idle", NEW result \in Result,
           result # "NONE", Settle(w, result)
    PROVE  message' \in [Messages -> Message]
<1>. DEFINE m == worker[w].message
<1>1. m \in Messages
    BY DEF WorkersKnow
<1>2. [message[m] EXCEPT !.status = result, !.lease = 0, !.due = FALSE] \in Message
    BY <1>1, MessageType DEF TypeOK, Status, Result
<1>. QED
    BY <1>1, <1>2 DEF Settle, TypeOK

LEMMA ReachesType ==
    ASSUME TypeOK, WorkersKnow, NEW w \in Workers, worker[w].phase # "idle", Reaches(w)
    PROVE  got' \in [Messages -> [Rounds -> Nat]] /\ through' \in [Messages -> SUBSET Generations]
<1>. DEFINE m == worker[w].message
            k == worker[w].round
<1>1. m \in Messages /\ k \in Rounds /\ worker[w].account \in Generations
    BY DEF WorkersKnow, TypeOK, Work
<1>2. got' \in [Messages -> [Rounds -> Nat]]
  <2>1. [got[m] EXCEPT ![k] = @ + 1] \in [Rounds -> Nat]
    BY <1>1 DEF TypeOK
  <2>. QED
    BY <1>1, <2>1 DEF Reaches, TypeOK
<1>3. through' \in [Messages -> SUBSET Generations]
  <2>1. through[m] \cup {worker[w].account} \in SUBSET Generations
    BY <1>1 DEF TypeOK
  <2>. QED
    BY <1>1, <2>1 DEF Reaches, TypeOK
<1>. QED
    BY <1>2, <1>3

LEMMA AnswerType ==
    ASSUME TypeOK, WorkersKnow, NEW w \in Workers, NEW phase \in Phase, NEW result \in Result,
           Answer(w, phase, result), Reaches(w) \/ UNCHANGED outside, unusable' \subseteq Generations
    PROVE  TypeOK'
<1>1. worker' \in [Workers -> Work]
    BY WorkType DEF Answer
<1>2. got' \in [Messages -> [Rounds -> Nat]] /\ through' \in [Messages -> SUBSET Generations]
    BY ReachesType DEF Answer, TypeOK, outside
<1>. QED
    BY <1>1, <1>2 DEF Answer, TypeOK, switches

LEMMA TypeStep == TypeOK /\ WorkersKnow /\ [Next]_vars => TypeOK'
<1>. SUFFICES ASSUME TypeOK, WorkersKnow, [Next]_vars PROVE TypeOK'
    OBVIOUS
<1>. USE DEF settings, switches, outside
<1>1. ASSUME NEW m \in Messages, Send(m) PROVE TypeOK'
  <2>1. connection.generation \in Generations
    BY DEF TypeOK
  <2>2. [None EXCEPT !.status = "PENDING", !.due = TRUE, !.generation = connection.generation] \in Message
    BY <2>1 DEF None, Message, Status
  <2>. QED
    BY <1>1, <2>2 DEF Send, Wake, TypeOK
<1>2. ASSUME NEW m \in Messages, Reconcile(m) PROVE TypeOK'
    BY <1>2 DEF Reconcile, TypeOK
<1>3. ASSUME NEW m \in Messages, MarkStaleUnknown(m) PROVE TypeOK'
  <2>1. [message[m] EXCEPT !.status = "UNKNOWN", !.lease = 0] \in Message
    BY MessageType DEF TypeOK, Status, Final
  <2>. QED
    BY <1>3, <2>1 DEF MarkStaleUnknown, TypeOK
<1>4. ASSUME NEW m \in Messages, BecomeDue(m) PROVE TypeOK'
  <2>1. [message[m] EXCEPT !.due = TRUE] \in Message
    BY MessageType DEF TypeOK, Status
  <2>. QED
    BY <1>4, <2>1 DEF BecomeDue, TypeOK
<1>5. ASSUME NEW r \in Managers, RetryWrite(r) PROVE TypeOK'
  <2>. DEFINE m == retrying[r]
  <2>1. m \in Messages
    BY <1>5 DEF RetryWrite, TypeOK
  <2>2. message' \in [Messages -> Message]
    <3>1. [message[m] EXCEPT !.status = "PENDING", !.lease = 0, !.due = TRUE] \in Message
        BY <2>1, MessageType DEF TypeOK, Status
    <3>. QED
        BY <1>5, <2>1, <3>1 DEF RetryWrite, TypeOK
  <2>3. retries' \in [Messages -> Rounds]
    BY <1>5, <2>1, TikTokDeliveryAssumption DEF RetryWrite, TypeOK, Rounds
  <2>. QED
    BY <1>5, <2>1, <2>2, <2>3 DEF RetryWrite, Wake, TypeOK
<1>6. ASSUME NEW r \in Managers, NEW m \in Messages, RetryRead(r, m) PROVE TypeOK'
    BY <1>6 DEF RetryRead, TypeOK
<1>7. ASSUME NEW w \in Workers, NEW m \in Messages, TakeJob(w, m) PROVE TypeOK'
  <2>1. [Idle EXCEPT !.phase = "claiming", !.message = m] \in Work
    BY IdleIsWork, WorkerType DEF Phase
  <2>2. worker' \in [Workers -> Work]
    BY <1>7, <2>1 DEF TakeJob, TypeOK
  <2>. QED
    BY <1>7, <2>2 DEF TakeJob, TypeOK
<1>8. ASSUME NEW w \in Workers, Claim(w) PROVE TypeOK'
  <2>. DEFINE m == worker[w].message
              claim == message[m].attempts + 1
  <2>1. m \in Messages
    BY <1>8 DEF Claim, WorkersKnow
  <2>2. claim \in Nat /\ retries[m] \in Rounds
    BY <2>1 DEF TypeOK, Message
  <2>3. [message[m] EXCEPT !.status = "SENDING", !.attempts = claim, !.lease = claim, !.due = FALSE] \in Message
    BY <2>1, <2>2, MessageType DEF TypeOK, Status
  <2>4. [worker[w] EXCEPT !.phase = "claimed", !.lease = claim, !.round = retries[m]] \in Work
    <3>1. worker[w] \in Work /\ "claimed" \in Phase
        BY DEF TypeOK, Phase
    <3>. QED
        BY <2>2, <3>1, WorkerType
  <2>5. message' \in [Messages -> Message]
    BY <1>8, <2>3 DEF Claim, TypeOK
  <2>6. worker' \in [Workers -> Work]
    BY <1>8, <2>4 DEF Claim, TypeOK
  <2>. QED
    BY <1>8, <2>5, <2>6 DEF Claim, TypeOK
<1>9. ASSUME NEW w \in Workers, Ignore(w) PROVE TypeOK'
  <2>1. worker' \in [Workers -> Work]
    BY <1>9, IdleType DEF Ignore
  <2>. QED
    BY <1>9, <2>1 DEF Ignore, TypeOK
<1>10. ASSUME NEW w \in Workers, MeetFreeze(w) PROVE TypeOK'
  <2>1. [worker[w] EXCEPT !.phase = "frozen"] \in Work
    BY WorkerType DEF TypeOK, Phase
  <2>2. worker' \in [Workers -> Work]
    BY <1>10, <2>1 DEF MeetFreeze, TypeOK
  <2>. QED
    BY <1>10, <2>2 DEF MeetFreeze, TypeOK
<1>11. ASSUME NEW w \in Workers, FailFrozen(w) PROVE TypeOK'
  <2>. DEFINE m == worker[w].message
  <2>1. worker' \in [Workers -> Work]
    BY <1>11, IdleType DEF FailFrozen
  <2>2. m \in Messages
    BY <1>11 DEF FailFrozen, WorkersKnow
  <2>3. message' \in [Messages -> Message]
    <3>1. [message[m] EXCEPT !.status = "FAILED", !.lease = 0, !.due = FALSE] \in Message
        BY <2>2, MessageType DEF TypeOK, Status, Final
    <3>. QED
        BY <1>11, <2>2, <3>1 DEF FailFrozen, TypeOK
  <2>. QED
    BY <1>11, <2>1, <2>3 DEF FailFrozen, TypeOK
<1>12. ASSUME NEW w \in Workers, Prepare(w) PROVE TypeOK'
  <2>1. worker' \in [Workers -> Work]
    BY <1>12, WorkType DEF Prepare, Phase, Result, Final
  <2>. QED
    BY <1>12, <2>1 DEF Prepare, TypeOK
<1>13. ASSUME NEW w \in Workers, TokenFresh(w) \/ TokenDeferred(w) \/ TokenUnusable(w) PROVE TypeOK'
  <2>1. worker' \in [Workers -> Work]
    BY <1>13, WorkType, SafeRetryType DEF TokenFresh, TokenDeferred, TokenUnusable, Phase, Result, Final
  <2>2. worker[w].message \in Messages
    BY <1>13 DEF TokenFresh, TokenDeferred, TokenUnusable, WorkersKnow
  <2>3. unusable' \subseteq Generations
    BY <1>13, <2>2 DEF TokenFresh, TokenDeferred, TokenUnusable, TypeOK, Message
  <2>4. connection' \in [generation : Generations, status : ConnectionStatus]
    BY <1>13 DEF TokenFresh, TokenDeferred, TokenUnusable, Shut, TypeOK, ConnectionStatus
  <2>. QED
    BY <1>13, <2>1, <2>3, <2>4 DEF TokenFresh, TokenDeferred, TokenUnusable, TypeOK
<1>14. ASSUME NEW w \in Workers, Recheck(w) PROVE TypeOK'
  <2>1. CASE Goes(w, "finishing", "FAILED")
    <3>1. worker' \in [Workers -> Work]
        BY <2>1, WorkType DEF Phase, Result, Final
    <3>. QED
        BY <1>14, <3>1 DEF Recheck, TypeOK
  <2>2. CASE worker' = [worker EXCEPT ![w].phase = "sending", ![w].account = connection.generation]
    <3>1. [worker[w] EXCEPT !.phase = "sending", !.account = connection.generation] \in Work
        <4>1. connection.generation \in Generations /\ worker[w] \in Work
            BY DEF TypeOK
        <4>. QED
            BY <4>1, WorkerType DEF Phase
    <3>2. worker' \in [Workers -> Work]
        BY <2>2, <3>1 DEF TypeOK
    <3>. QED
        BY <1>14, <3>2 DEF Recheck, TypeOK
  <2>. QED
    BY <1>14, <2>1, <2>2 DEF Recheck
<1>15. ASSUME NEW w \in Workers,
              SendAccepted(w) \/ SendDeferred(w) \/ SendFailed(w) \/ SendUnauthorized(w) \/ SendAmbiguous(w)
       PROVE  TypeOK'
  <2>1. worker[w].message \in Messages
    BY <1>15 DEF SendAccepted, SendDeferred, SendFailed, SendUnauthorized, SendAmbiguous, Answer, WorkersKnow
  <2>2. unusable' \subseteq Generations
    BY <1>15, <2>1 DEF SendAccepted, SendDeferred, SendFailed, SendUnauthorized, SendAmbiguous, TypeOK, Message
  <2>3. {"finishing", "refusing"} \subseteq Phase /\ Final \subseteq Result
    BY DEF Phase, Result
  <2>4. CASE SendAccepted(w) \/ SendFailed(w) \/ SendUnauthorized(w) \/ SendAmbiguous(w)
    BY <2>2, <2>3, <2>4, AnswerType DEF SendAccepted, SendFailed, SendUnauthorized, SendAmbiguous, Final
  <2>5. CASE SendDeferred(w)
    <3>1. PICK exhausted \in {"RATE_LIMITED", "FAILED"} :
              Answer(w, "finishing", SafeRetry(w, exhausted)) /\ UNCHANGED <<outside, unusable>>
        BY <2>5 DEF SendDeferred
    <3>2. SafeRetry(w, exhausted) \in Result
        BY <2>3, SafeRetryType DEF Final
    <3>. QED
        BY <2>2, <2>3, <3>1, <3>2, AnswerType
  <2>. QED
    BY <1>15, <2>4, <2>5
<1>16. ASSUME NEW w \in Workers, Finish(w) PROVE TypeOK'
  <2>1. message' \in [Messages -> Message]
    BY <1>16, SettleType DEF Finish, TypeOK, Work, WorkersKnow
  <2>2. worker' \in [Workers -> Work]
    BY <1>16, IdleType DEF Finish
  <2>. QED
    BY <1>16, <2>1, <2>2 DEF Finish, TypeOK
<1>17. ASSUME NEW w \in Workers, MarkReconnectRequired(w) PROVE TypeOK'
  <2>1. message' \in [Messages -> Message]
    BY <1>17, SettleType DEF MarkReconnectRequired, Result, Final
  <2>2. worker' \in [Workers -> Work]
    BY <1>17, IdleType DEF MarkReconnectRequired
  <2>3. connection' \in [generation : Generations, status : ConnectionStatus]
    BY <1>17 DEF MarkReconnectRequired, Shut, TypeOK, ConnectionStatus
  <2>. QED
    BY <1>17, <2>1, <2>2, <2>3 DEF MarkReconnectRequired, TypeOK
<1>18. ASSUME NEW w \in Workers, Redeliver(w) PROVE TypeOK'
    BY <1>18 DEF Redeliver, TypeOK, WorkersKnow
<1>19. ASSUME NEW w \in Workers, Crash(w) PROVE TypeOK'
  <2>1. worker' \in [Workers -> Work]
    BY <1>19, IdleType DEF Crash
  <2>. QED
    BY <1>19, <2>1 DEF Crash, TypeOK
<1>20. CASE Environment
  <2>. USE DEF Elsewhere
  <2>1. CASE Switch \/ Freeze
    BY <2>1 DEF Switch, Freeze, TypeOK
  <2>2. CASE FindNothingConnected
    BY <2>2, TikTokDeliveryAssumption DEF FindNothingConnected, TypeOK, Generations
  <2>3. CASE Activate
    BY <2>3, TikTokDeliveryAssumption DEF Activate, TypeOK, Generations, ConnectionStatus
  <2>4. CASE Disconnect
    BY <2>4, TikTokDeliveryAssumption DEF Disconnect, TypeOK, Generations, ConnectionStatus
  <2>5. CASE ExpireToken
    BY <2>5 DEF ExpireToken, TypeOK, ConnectionStatus
  <2>6. CASE SeeExpiry
    BY <2>6 DEF SeeExpiry, TypeOK
  <2>7. CASE WriteExpiry
    BY <2>7, TikTokDeliveryAssumption DEF WriteExpiry, TypeOK, Generations, ConnectionStatus
  <2>. QED
    BY <1>20, <2>1, <2>2, <2>3, <2>4, <2>5, <2>6, <2>7 DEF Environment
<1>21. CASE UNCHANGED vars
    BY <1>21 DEF vars, TypeOK
<1>. QED
    BY <1>1, <1>2, <1>3, <1>4, <1>5, <1>6, <1>7, <1>8, <1>9, <1>10, <1>11, <1>12, <1>13, <1>14,
       <1>15, <1>16, <1>17, <1>18, <1>19, <1>20, <1>21 DEF Next, MessageStep, WorkerStep

-----------------------------------------------------------------------------
(* Steps that send nothing and let nothing be sent                          *)

\* Worker w ends, or goes on with the message, the claim and the retry it had.
GoesOn(w) ==
    /\ worker'[w].phase # "idle" => worker'[w].message \in Messages
    /\ worker'[w].phase = "finishing" => worker'[w].result # "NONE"
    /\ Claimed(w)' => /\ Claimed(w)
                      /\ worker'[w].message = worker[w].message
                      /\ worker'[w].lease = worker[w].lease
                      /\ worker'[w].round = worker[w].round
    /\ Live(w)' => Live(w)

\* Message m is neither written nor claimed nor put back.
NotOpened(m) ==
    /\ message'[m].attempts = message[m].attempts
    /\ HasStatus(m, {"NONE"})' <=> HasStatus(m, {"NONE"})
    /\ HasStatus(m, {"PENDING"})' => HasStatus(m, {"PENDING"})
    /\ HasStatus(m, {"SENDING"})' => HasStatus(m, {"SENDING"}) /\ message'[m].lease = message[m].lease

LEMMA LiveIsClaimed == \A w \in Workers : Live(w) => Claimed(w)
BY DEF Live, Claimed

LEMMA LiveIsClaimedAfter == \A w \in Workers : Live(w)' => Claimed(w)'
BY DEF Live, Claimed

LEMMA QuietStep ==
    ASSUME TypeOK, SendInv, UNCHANGED <<retries, outside>>,
           \A w \in Workers : GoesOn(w),
           \A m \in Messages : NotOpened(m),
           \A r \in Managers : retrying'[r] \in Messages => ~HasStatus(retrying'[r], {"NONE"})
    PROVE  SendInv'
<1>. USE DEF SendInv, outside, GoesOn, NotOpened
<1>1. WorkersKnow'
    BY DEF WorkersKnow, Claimed
<1>2. LiveIsUnsent'
    BY LiveIsClaimedAfter DEF LiveIsUnsent
<1>3. LiveIsAlone'
    BY LiveIsClaimedAfter DEF LiveIsAlone
<1>4. PendingIsUnsent'
    BY LiveIsClaimedAfter DEF PendingIsUnsent
<1>5. HolderIsCurrent'
  <2>1. ASSUME NEW w \in Workers, Claimed(w)', Holds(w)' PROVE Claimed(w) /\ Holds(w)
    <3>1. worker[w].message \in Messages
        BY <2>1 DEF WorkersKnow, Claimed
    <3>. QED
        BY <2>1, <3>1 DEF Holds, HasStatus
  <2>. QED
    BY <2>1 DEF HolderIsCurrent
<1>6. NewIsUntouched'
    BY DEF NewIsUntouched
<1>7. LaterIsUnsent' /\ OneTextPerRequest'
    BY DEF LaterIsUnsent, OneTextPerRequest
<1>8. RetriedIsWritten'
    BY DEF RetriedIsWritten, HasStatus
<1>. QED
    BY <1>1, <1>2, <1>3, <1>4, <1>5, <1>6, <1>7, <1>8

-----------------------------------------------------------------------------
(* Steps that send, or let a message be sent                                *)

\* The text reaches the customer, and its worker will not put it back.
LEMMA ReachesStep ==
    ASSUME TypeOK, SendInv, NEW w \in Workers, NEW result \in Final,
           Answer(w, "finishing", result), Reaches(w)
    PROVE  SendInv'
<1>. DEFINE m == worker[w].message
            k == worker[w].round
<1>. USE DEF SendInv
<1>1. m \in Messages /\ k \in Rounds /\ Live(w) /\ Claimed(w)
    BY DEF Answer, WorkersKnow, TypeOK, Work, Live, Claimed
<1>2. got[m][k] = 0 /\ got'[m][k] = 1
    BY <1>1 DEF LiveIsUnsent, Reaches, TypeOK
<1>3. \A n \in Messages, j \in Rounds : (n # m \/ j # k) => got'[n][j] = got[n][j]
    BY <1>1 DEF Reaches, TypeOK
<1>4. UNCHANGED <<message, retries, retrying>>
    BY DEF Answer
<1>5. /\ worker'[w].phase = "finishing" /\ worker'[w].result = result /\ ~Live(w)'
      /\ worker'[w].message = m /\ worker'[w].round = k /\ worker'[w].lease = worker[w].lease
      /\ \A v \in Workers : v # w => worker'[v] = worker[v]
    BY DEF Answer, Goes, TypeOK, Work, Live, Final
<1>6. \A v \in Workers : Live(v)' => Live(v) /\ v # w
    BY <1>5 DEF Live
<1>7. \A v \in Workers : Claimed(v)' => Claimed(v)
    BY <1>1, <1>5 DEF Claimed
<1>8. WorkersKnow'
    BY <1>1, <1>4, <1>5, <1>7 DEF WorkersKnow, Final
<1>9. LiveIsUnsent'
  <2>. SUFFICES ASSUME NEW v \in Workers, Live(v)' PROVE got'[worker'[v].message][worker'[v].round] = 0
    BY DEF LiveIsUnsent
  <2>1. Live(v) /\ v # w /\ worker'[v] = worker[v]
    BY <1>5, <1>6
  <2>2. worker[v].message \in Messages /\ worker[v].round \in Rounds
    BY <2>1, LiveIsClaimed DEF WorkersKnow, Claimed, TypeOK, Work
  <2>3. worker[v].message # m \/ worker[v].round # k
    BY <1>1, <2>1 DEF LiveIsAlone
  <2>. QED
    BY <1>3, <2>1, <2>2, <2>3 DEF LiveIsUnsent
<1>10. LiveIsAlone'
    BY <1>5, <1>6 DEF LiveIsAlone
<1>11. PendingIsUnsent'
  <2>. SUFFICES ASSUME NEW n \in Messages, HasStatus(n, {"PENDING"})
                PROVE  /\ got'[n][retries[n]] = 0
                       /\ \A v \in Workers : (Live(v)' /\ worker'[v].message = n) => worker'[v].round # retries[n]
    BY <1>4 DEF PendingIsUnsent, HasStatus
  <2>1. n # m \/ retries[n] # k
    BY <1>1 DEF PendingIsUnsent
  <2>2. got'[n][retries[n]] = 0
    BY <1>3, <2>1 DEF PendingIsUnsent, TypeOK
  <2>. QED
    BY <1>5, <1>6, <2>2 DEF PendingIsUnsent
<1>12. HolderIsCurrent'
    BY <1>1, <1>4, <1>5, <1>7 DEF HolderIsCurrent, Holds, HasStatus
<1>13. NewIsUntouched'
  <2>1. ~HasStatus(m, {"NONE"})
    BY <1>1 DEF NewIsUntouched, WorkersKnow, TypeOK, Work
  <2>2. \A n \in Messages : n # m => through'[n] = through[n]
    BY <1>1 DEF Reaches, TypeOK
  <2>. QED
    BY <1>3, <1>4, <2>1, <2>2 DEF NewIsUntouched, HasStatus
<1>14. LaterIsUnsent'
  <2>1. k <= retries[m] /\ k \in Int /\ retries[m] \in Int
    BY <1>1, TikTokDeliveryAssumption DEF WorkersKnow, TypeOK, Rounds
  <2>2. ~(k > retries[m])
    BY <2>1
  <2>. QED
    BY <1>3, <1>4, <2>1, <2>2 DEF LaterIsUnsent
<1>15. OneTextPerRequest'
    BY <1>2, <1>3 DEF OneTextPerRequest
<1>16. RetriedIsWritten'
    BY <1>4 DEF RetriedIsWritten, HasStatus
<1>. QED
    BY <1>8, <1>9, <1>10, <1>11, <1>12, <1>13, <1>14, <1>15, <1>16

LEMMA ClaimStep ==
    ASSUME TypeOK, SendInv, NEW w \in Workers, Claim(w)
    PROVE  SendInv'
<1>. DEFINE m == worker[w].message
            claim == message[m].attempts + 1
<1>. USE DEF SendInv
<1>1. m \in Messages /\ HasStatus(m, {"PENDING"}) /\ claim \in Nat \ {0} /\ claim > message[m].attempts
    BY DEF Claim, Claimable, WorkersKnow, TypeOK, Message
<1>2. /\ message'[m].status = "SENDING" /\ message'[m].lease = claim /\ message'[m].attempts = claim
      /\ \A n \in Messages : n # m => message'[n] = message[n]
    BY <1>1 DEF Claim, TypeOK, Message
<1>3. UNCHANGED <<retries, got, through, retrying>>
    BY DEF Claim, outside
<1>4. /\ worker'[w].phase = "claimed" /\ worker'[w].message = m
      /\ worker'[w].lease = claim /\ worker'[w].round = retries[m]
      /\ \A v \in Workers : v # w => worker'[v] = worker[v]
    BY DEF Claim, TypeOK, Work
<1>5. \A v \in Workers : v # w => (Live(v)' <=> Live(v)) /\ (Claimed(v)' <=> Claimed(v))
    BY <1>4 DEF Live, Claimed
<1>6. \A n \in Messages : message[n].attempts <= message'[n].attempts
    BY <1>1, <1>2 DEF TypeOK, Message
<1>7. WorkersKnow'
  <2>1. ASSUME NEW v \in Workers, v # w, Claimed(v)
        PROVE  worker[v].lease <= message'[worker[v].message].attempts
    <3>1. worker[v].message \in Messages
        BY <2>1 DEF WorkersKnow, Claimed
    <3>2. /\ worker[v].lease \in Nat
          /\ message[worker[v].message].attempts \in Nat
          /\ message'[worker[v].message].attempts \in Nat
        BY <1>1, <1>2, <3>1 DEF TypeOK, Work, Message
    <3>. QED
        BY <1>6, <2>1, <3>1, <3>2 DEF WorkersKnow
  <2>2. retries[m] <= retries[m]
    BY <1>1, TikTokDeliveryAssumption DEF TypeOK, Rounds
  <2>3. ASSUME NEW v \in Workers, v # w
        PROVE  /\ worker'[v].phase # "idle" => worker'[v].message \in Messages
               /\ Claimed(v)' => /\ worker'[v].lease > 0
                                 /\ worker'[v].lease <= message'[worker'[v].message].attempts
                                 /\ worker'[v].round <= retries'[worker'[v].message]
               /\ worker'[v].phase = "finishing" => worker'[v].result # "NONE"
    BY <1>3, <1>4, <1>5, <2>1, <2>3 DEF WorkersKnow
  <2>4. /\ worker'[w].phase # "idle" => worker'[w].message \in Messages
        /\ worker'[w].lease > 0 /\ worker'[w].lease <= message'[worker'[w].message].attempts
        /\ worker'[w].round <= retries'[worker'[w].message]
        /\ worker'[w].phase = "finishing" => worker'[w].result # "NONE"
    BY <1>1, <1>2, <1>3, <1>4, <2>2
  <2>. QED
    BY <2>3, <2>4 DEF WorkersKnow
<1>8. LiveIsUnsent'
    BY <1>1, <1>3, <1>4, <1>5 DEF LiveIsUnsent, PendingIsUnsent
<1>9. LiveIsAlone'
    BY <1>1, <1>4, <1>5 DEF LiveIsAlone, PendingIsUnsent
<1>10. PendingIsUnsent'
    BY <1>2, <1>3, <1>4, <1>5 DEF PendingIsUnsent, HasStatus
<1>11. HolderIsCurrent'
  <2>. SUFFICES ASSUME NEW v \in Workers, Claimed(v)', Holds(v)', v # w
                PROVE  worker[v].round = retries[worker[v].message]
    BY <1>3, <1>4 DEF HolderIsCurrent
  <2>1. Claimed(v) /\ worker'[v] = worker[v] /\ worker[v].message \in Messages
    BY <1>4, <1>5 DEF WorkersKnow, Claimed
  <2>2. worker[v].message # m
    <3>1. worker[v].lease \in Nat /\ message[m].attempts \in Nat
        BY <1>1 DEF TypeOK, Work, Message
    <3>2. worker[v].message = m => worker[v].lease <= message[m].attempts
        BY <2>1 DEF WorkersKnow
    <3>3. worker[v].message = m => worker[v].lease = claim
        BY <1>2, <2>1 DEF Holds
    <3>. QED
        BY <1>1, <3>1, <3>2, <3>3
  <2>3. Holds(v)
    BY <1>2, <2>1, <2>2 DEF Holds, HasStatus
  <2>. QED
    BY <2>1, <2>3 DEF HolderIsCurrent
<1>12. NewIsUntouched' /\ LaterIsUnsent' /\ OneTextPerRequest'
    BY <1>2, <1>3 DEF NewIsUntouched, LaterIsUnsent, OneTextPerRequest, HasStatus
<1>13. RetriedIsWritten'
    BY <1>2, <1>3 DEF RetriedIsWritten, HasStatus
<1>. QED
    BY <1>7, <1>8, <1>9, <1>10, <1>11, <1>12, <1>13

\* Settling a message that the worker holds, as anything.
LEMMA SettledMessage ==
    ASSUME TypeOK, SendInv, NEW w \in Workers, worker[w].phase # "idle", Holds(w),
           NEW result \in Result, Settle(w, result)
    PROVE  LET m == worker[w].message IN
           /\ m \in Messages
           /\ message'[m].status = result /\ message'[m].lease = 0
           /\ message'[m].attempts = message[m].attempts /\ message'[m].generation = message[m].generation
           /\ \A n \in Messages : n # m => message'[n] = message[n]
<1>. DEFINE m == worker[w].message
            settled == [message[m] EXCEPT !.status = result, !.lease = 0, !.due = FALSE]
<1>1. m \in Messages
    BY DEF SendInv, WorkersKnow
<1>2. message' = [message EXCEPT ![m] = settled]
    BY DEF Settle
<1>3. /\ settled.status = result /\ settled.lease = 0
      /\ settled.attempts = message[m].attempts /\ settled.generation = message[m].generation
    BY <1>1 DEF TypeOK, Message
<1>. QED
    BY <1>1, <1>2, <1>3 DEF TypeOK

\* A worker that put its message back is gone, and was the only one.
LEMMA PutBackStep ==
    ASSUME TypeOK, SendInv, NEW w \in Workers, Finish(w), Holds(w), worker[w].result = "PENDING"
    PROVE  SendInv'
<1>. DEFINE m == worker[w].message
<1>. USE DEF SendInv
<1>1. /\ m \in Messages /\ message'[m].status = "PENDING" /\ message'[m].lease = 0
      /\ message'[m].attempts = message[m].attempts
      /\ \A n \in Messages : n # m => message'[n] = message[n]
    BY SettledMessage DEF Finish, Result
<1>2. Live(w) /\ Claimed(w) /\ worker[w].round = retries[m]
    BY DEF Finish, Live, Claimed, HolderIsCurrent
<1>3. UNCHANGED <<retries, got, through, retrying>>
    BY DEF Finish, outside
<1>4. worker'[w].phase = "idle" /\ \A v \in Workers : v # w => worker'[v] = worker[v]
    BY DEF Finish, Idle, TypeOK
<1>5. \A v \in Workers : /\ Live(v)' => Live(v) /\ v # w
                         /\ Claimed(v)' => Claimed(v) /\ v # w
    BY <1>4 DEF Live, Claimed
<1>6. \A n \in Messages : message'[n].attempts = message[n].attempts
    BY <1>1
<1>7. WorkersKnow'
    BY <1>3, <1>4, <1>5, <1>6 DEF WorkersKnow, Claimed
<1>8. LiveIsUnsent' /\ LiveIsAlone'
    BY <1>3, <1>4, <1>5 DEF LiveIsUnsent, LiveIsAlone
<1>9. PendingIsUnsent'
  <2>1. got[m][retries[m]] = 0
    BY <1>2 DEF LiveIsUnsent
  <2>2. ASSUME NEW v \in Workers, Live(v)', worker'[v].message = m PROVE worker'[v].round # retries[m]
    BY <1>2, <1>4, <1>5, <2>2 DEF LiveIsAlone
  <2>3. ASSUME NEW n \in Messages, n # m, HasStatus(n, {"PENDING"})'
        PROVE  /\ got[n][retries[n]] = 0
               /\ \A v \in Workers : (Live(v)' /\ worker'[v].message = n) => worker'[v].round # retries[n]
    BY <1>1, <1>4, <1>5, <2>3 DEF PendingIsUnsent, HasStatus
  <2>. QED
    BY <1>3, <2>1, <2>2, <2>3 DEF PendingIsUnsent
<1>10. HolderIsCurrent'
  <2>1. ASSUME NEW v \in Workers, Claimed(v)', Holds(v)' PROVE worker'[v].round = retries'[worker'[v].message]
    <3>1. Claimed(v) /\ worker'[v] = worker[v] /\ worker[v].message \in Messages
        BY <1>4, <1>5, <2>1 DEF WorkersKnow, Claimed
    <3>2. Holds(v)
        BY <1>1, <2>1, <3>1 DEF Holds, HasStatus
    <3>. QED
        BY <1>3, <3>1, <3>2 DEF HolderIsCurrent
  <2>. QED
    BY <2>1 DEF HolderIsCurrent
<1>11. NewIsUntouched' /\ LaterIsUnsent' /\ OneTextPerRequest' /\ RetriedIsWritten'
    BY <1>1, <1>3 DEF NewIsUntouched, LaterIsUnsent, OneTextPerRequest, RetriedIsWritten, HasStatus
<1>. QED
    BY <1>7, <1>8, <1>9, <1>10, <1>11

\* A message is opened: nothing of its current retry was sent or is in hand.
LEMMA OpenStep ==
    ASSUME TypeOK, SendInv, NEW m \in Messages, UNCHANGED <<worker, got, through>>,
           \A n \in Messages : n # m => message'[n] = message[n] /\ retries'[n] = retries[n],
           message'[m].status = "PENDING", message'[m].attempts = message[m].attempts,
           \A w \in Workers : (Claimed(w) /\ worker[w].message = m) =>
                worker[w].round <= retries'[m] /\ worker[w].round # retries'[m],
           got[m][retries'[m]] = 0,
           \A k \in Rounds : k > retries'[m] => got[m][k] = 0,
           \A r \in Managers : retrying'[r] \in Messages => ~HasStatus(retrying'[r], {"NONE"})
    PROVE  SendInv'
<1>. USE DEF SendInv
<1>1. \A w \in Workers : (Live(w)' <=> Live(w)) /\ (Claimed(w)' <=> Claimed(w))
    BY DEF Live, Claimed
<1>2. \A w \in Workers : Claimed(w) => worker[w].message \in Messages
    BY DEF WorkersKnow, Claimed
<1>3. WorkersKnow'
  <2>1. ASSUME NEW w \in Workers, Claimed(w)
        PROVE  /\ worker[w].lease <= message'[worker[w].message].attempts
               /\ worker[w].round <= retries'[worker[w].message]
    BY <1>2, <2>1 DEF WorkersKnow
  <2>. QED
    BY <1>1, <2>1 DEF WorkersKnow
<1>4. LiveIsUnsent' /\ LiveIsAlone'
    BY <1>1 DEF LiveIsUnsent, LiveIsAlone
<1>5. PendingIsUnsent'
  <2>1. ASSUME NEW n \in Messages, n # m, HasStatus(n, {"PENDING"})'
        PROVE  /\ got[n][retries'[n]] = 0
               /\ \A w \in Workers : (Live(w) /\ worker[w].message = n) => worker[w].round # retries'[n]
    BY <2>1 DEF PendingIsUnsent, HasStatus
  <2>. QED
    BY <1>1, <2>1, LiveIsClaimed DEF PendingIsUnsent
<1>6. HolderIsCurrent'
    BY <1>1, <1>2 DEF HolderIsCurrent, Holds, HasStatus
<1>7. NewIsUntouched' /\ LaterIsUnsent' /\ OneTextPerRequest'
    BY DEF NewIsUntouched, LaterIsUnsent, OneTextPerRequest, HasStatus
<1>8. RetriedIsWritten'
    BY DEF RetriedIsWritten, HasStatus
<1>. QED
    BY <1>3, <1>4, <1>5, <1>6, <1>7, <1>8

LEMMA SendStep ==
    ASSUME TypeOK, SendInv, NEW m \in Messages, Send(m)
    PROVE  SendInv'
<1>. USE DEF SendInv
<1>1. /\ message'[m].status = "PENDING" /\ message'[m].attempts = 0
      /\ \A n \in Messages : n # m => message'[n] = message[n]
    BY DEF Send, TypeOK, None
<1>2. HasStatus(m, {"NONE"}) /\ message[m].attempts = 0 /\ \A k \in Rounds : got[m][k] = 0
    BY DEF Send, NewIsUntouched
<1>3. ASSUME NEW w \in Workers, Claimed(w), worker[w].message = m PROVE FALSE
    BY <1>2, <1>3 DEF WorkersKnow, TypeOK, Work
<1>4. UNCHANGED <<worker, got, through, retries, retrying>>
    BY DEF Send, outside
<1>5. got[m][retries'[m]] = 0
    BY <1>2, <1>4 DEF TypeOK
<1>. QED
    BY <1>1, <1>2, <1>3, <1>4, <1>5, OpenStep DEF RetriedIsWritten

LEMMA RetryWriteStep ==
    ASSUME TypeOK, SendInv, NEW r \in Managers, RetryWrite(r)
    PROVE  SendInv'
<1>. SUFFICES ASSUME NEW m \in Messages, m = retrying[r]
              PROVE  SendInv'
    BY DEF RetryWrite, TypeOK
<1>1. retries[m] \in Int /\ retries[m] >= 0 /\ retries[m] + 1 \in Rounds
    BY TikTokDeliveryAssumption DEF RetryWrite, TypeOK, Rounds
<1>2. /\ message'[m].status = "PENDING"
      /\ message'[m].attempts = message[m].attempts
      /\ \A n \in Messages : n # m => message'[n] = message[n]
    BY DEF RetryWrite, TypeOK, Message
<1>3. /\ retries'[m] = retries[m] + 1
      /\ \A n \in Messages : n # m => retries'[n] = retries[n]
    BY DEF RetryWrite, TypeOK
<1>4. \A n \in Messages : n # m => message'[n] = message[n] /\ retries'[n] = retries[n]
    BY <1>2, <1>3
<1>5. \A w \in Workers : (Claimed(w) /\ worker[w].message = m) =>
            worker[w].round <= retries'[m] /\ worker[w].round # retries'[m]
  <2>. SUFFICES ASSUME NEW w \in Workers, Claimed(w), worker[w].message = m
                PROVE  worker[w].round <= retries'[m] /\ worker[w].round # retries'[m]
    OBVIOUS
  <2>1. worker[w].round \in Int /\ worker[w].round <= retries[m]
    BY TikTokDeliveryAssumption DEF SendInv, WorkersKnow, TypeOK, Work, Rounds
  <2>. QED
    BY <1>1, <1>3, <2>1
<1>6. \A k \in Rounds : k > retries[m] => got[m][k] = 0
    BY DEF SendInv, LaterIsUnsent
<1>7. got[m][retries'[m]] = 0
    BY <1>1, <1>3, <1>6
<1>8. \A k \in Rounds : k > retries'[m] => got[m][k] = 0
    BY <1>1, <1>3, <1>6 DEF Rounds
<1>9. UNCHANGED <<worker, got, through>>
    BY DEF RetryWrite, outside
<1>10. \A s \in Managers : retrying'[s] \in Messages => ~HasStatus(retrying'[s], {"NONE"})
  <2>1. \A s \in Managers : retrying'[s] = IF s = r THEN NoMessage ELSE retrying[s]
    BY DEF RetryWrite, TypeOK
  <2>2. \A s \in Managers : retrying[s] \in Messages => ~HasStatus(retrying[s], {"NONE"})
    BY DEF SendInv, RetriedIsWritten
  <2>3. NoMessage \notin Messages
    BY TikTokDeliveryAssumption
  <2>. QED
    BY <2>1, <2>2, <2>3
<1>. QED
    BY <1>2, <1>4, <1>5, <1>7, <1>8, <1>9, <1>10, OpenStep

\* Worker w moves on and the messages stay.
LEMMA MoveStep ==
    ASSUME TypeOK, SendInv, NEW w \in Workers, GoesOn(w),
           \A v \in Workers : v # w => worker'[v] = worker[v],
           UNCHANGED <<message, retries, outside, retrying>>
    PROVE  SendInv'
<1>1. \A v \in Workers : GoesOn(v)
    BY DEF GoesOn, Claimed, Live, SendInv, WorkersKnow
<1>2. \A m \in Messages : NotOpened(m)
    BY DEF NotOpened, HasStatus
<1>3. \A r \in Managers : retrying'[r] \in Messages => ~HasStatus(retrying'[r], {"NONE"})
    BY DEF SendInv, RetriedIsWritten
<1>. QED
    BY <1>1, <1>2, <1>3, QuietStep

LEMMA SendInvStep == TypeOK /\ SendInv /\ [Next]_vars => SendInv'
<1>. SUFFICES ASSUME TypeOK, SendInv, [Next]_vars PROVE SendInv'
    OBVIOUS
<1>. DEFINE Retried == \A r \in Managers : retrying'[r] \in Messages => ~HasStatus(retrying'[r], {"NONE"})
<1>a. UNCHANGED retrying => Retried
    BY DEF SendInv, RetriedIsWritten
<1>b. UNCHANGED worker => \A w \in Workers : GoesOn(w)
    BY DEF GoesOn, Claimed, Live, SendInv, WorkersKnow
<1>c. UNCHANGED message => \A m \in Messages : NotOpened(m)
    BY DEF NotOpened, HasStatus
<1>1. CASE UNCHANGED <<message, worker, retries, outside, retrying>>
    BY <1>1, <1>a, <1>b, <1>c, QuietStep
<1>2. ASSUME NEW m \in Messages, Send(m) PROVE SendInv'
    BY <1>2, SendStep
<1>3. ASSUME NEW m \in Messages, MarkStaleUnknown(m) \/ BecomeDue(m) PROVE SendInv'
  <2>1. \A n \in Messages : NotOpened(n)
    <3>1. /\ message'[m].attempts = message[m].attempts
          /\ \A n \in Messages : n # m => message'[n] = message[n]
        BY <1>3 DEF MarkStaleUnknown, BecomeDue, TypeOK, Message
    <3>2. CASE MarkStaleUnknown(m)
      <4>1. message[m].status = "SENDING" /\ message'[m].status = "UNKNOWN"
        BY <3>2 DEF MarkStaleUnknown, HasStatus, TypeOK, Message
      <4>. QED
        BY <3>1, <4>1 DEF NotOpened, HasStatus
    <3>3. CASE BecomeDue(m)
      <4>1. message'[m].status = message[m].status /\ message'[m].lease = message[m].lease
        BY <3>3 DEF BecomeDue, TypeOK, Message
      <4>. QED
        BY <3>1, <4>1 DEF NotOpened, HasStatus
    <3>. QED
        BY <1>3, <3>2, <3>3
  <2>. QED
    BY <1>3, <2>1, <1>a, <1>b, QuietStep DEF MarkStaleUnknown, BecomeDue
<1>4. ASSUME NEW r \in Managers, RetryWrite(r) PROVE SendInv'
    BY <1>4, RetryWriteStep
<1>5. ASSUME NEW r \in Managers, NEW m \in Messages, RetryRead(r, m) PROVE SendInv'
  <2>1. Retried
    BY <1>5 DEF RetryRead, MaySafelyRetry, HasStatus, TypeOK, SendInv, RetriedIsWritten
  <2>. QED
    BY <1>5, <2>1, <1>b, <1>c, QuietStep DEF RetryRead
<1>6. ASSUME NEW w \in Workers, NEW m \in Messages, TakeJob(w, m) PROVE SendInv'
  <2>1. CASE enabled
    <3>1. /\ worker'[w].phase = "claiming" /\ worker'[w].message = m
          /\ \A v \in Workers : v # w => worker'[v] = worker[v]
        BY <1>6, <2>1 DEF TakeJob, TypeOK, Idle
    <3>2. GoesOn(w)
        BY <3>1 DEF GoesOn, Claimed, Live
    <3>. QED
        BY <1>6, <3>1, <3>2, MoveStep DEF TakeJob
  <2>2. CASE ~enabled
    BY <1>6, <2>2, <1>1 DEF TakeJob
  <2>. QED
    BY <2>1, <2>2
<1>7. ASSUME NEW w \in Workers, Claim(w) PROVE SendInv'
    BY <1>7, ClaimStep
<1>8. ASSUME NEW w \in Workers, Ignore(w) \/ Crash(w) PROVE SendInv'
  <2>1. worker'[w].phase = "idle" /\ \A v \in Workers : v # w => worker'[v] = worker[v]
    BY <1>8 DEF Ignore, Crash, Idle, TypeOK
  <2>2. GoesOn(w)
    BY <2>1 DEF GoesOn, Claimed, Live
  <2>. QED
    BY <1>8, <2>1, <2>2, MoveStep DEF Ignore, Crash
<1>9. ASSUME NEW w \in Workers, MeetFreeze(w) PROVE SendInv'
  <2>1. /\ worker'[w].phase = "frozen" /\ worker'[w].message = worker[w].message
        /\ \A v \in Workers : v # w => worker'[v] = worker[v]
    BY <1>9 DEF MeetFreeze, TypeOK, Work
  <2>2. worker[w].phase = "claiming" /\ worker[w].message \in Messages
    BY <1>9 DEF MeetFreeze, SendInv, WorkersKnow
  <2>3. GoesOn(w)
    BY <2>1, <2>2 DEF GoesOn, Claimed, Live
  <2>. QED
    BY <1>9, <2>1, <2>3, MoveStep DEF MeetFreeze
<1>10. ASSUME NEW w \in Workers, FailFrozen(w) PROVE SendInv'
  <2>1. worker'[w].phase = "idle" /\ \A v \in Workers : v # w => worker'[v] = worker[v]
    BY <1>10 DEF FailFrozen, Idle, TypeOK
  <2>2. \A v \in Workers : GoesOn(v)
    BY <2>1 DEF GoesOn, Claimed, Live, SendInv, WorkersKnow
  <2>3. ASSUME NEW n \in Messages PROVE NotOpened(n)
    <3>1. worker[w].message \in Messages /\ message[n] \in Message
        BY <1>10 DEF FailFrozen, SendInv, WorkersKnow, TypeOK
    <3>2. CASE n = worker[w].message /\ HasStatus(n, {"PENDING"})
      <4>1. message' = [message EXCEPT ![n].status = "FAILED", ![n].lease = 0, ![n].due = FALSE]
        BY <1>10, <3>2 DEF FailFrozen
      <4>2. message'[n].status = "FAILED" /\ message'[n].attempts = message[n].attempts
        BY <3>1, <4>1 DEF TypeOK, Message
      <4>. QED
        BY <3>2, <4>2 DEF NotOpened, HasStatus
    <3>3. CASE ~(n = worker[w].message /\ HasStatus(n, {"PENDING"}))
      <4>1. message'[n] = message[n]
        BY <1>10, <3>3 DEF FailFrozen, TypeOK
      <4>. QED
        BY <4>1 DEF NotOpened, HasStatus
    <3>. QED
        BY <3>2, <3>3
  <2>. QED
    BY <1>10, <2>2, <2>3, <1>a, QuietStep DEF FailFrozen
<1>11. ASSUME NEW w \in Workers, NEW phase \in {"token", "checking", "finishing", "refusing"}, NEW result \in Result,
              Goes(w, phase, result), phase = "finishing" => result # "NONE",
              worker[w].phase \in {"claimed", "token", "checking", "sending"},
              UNCHANGED <<message, retries, outside, retrying>>
       PROVE  SendInv'
  <2>1. /\ worker'[w].phase = phase /\ worker'[w].result = result
        /\ worker'[w].message = worker[w].message /\ worker'[w].lease = worker[w].lease
        /\ worker'[w].round = worker[w].round
        /\ \A v \in Workers : v # w => worker'[v] = worker[v]
    BY <1>11 DEF Goes, TypeOK, Work
  <2>2. GoesOn(w)
    BY <1>11, <2>1 DEF GoesOn, Claimed, Live, SendInv, WorkersKnow
  <2>. QED
    BY <1>11, <2>1, <2>2, MoveStep
<1>12. \A w \in Workers : \A exhausted \in {"RATE_LIMITED", "FAILED"} :
            SafeRetry(w, exhausted) \in Result /\ SafeRetry(w, exhausted) # "NONE"
    BY DEF SafeRetry, Result, Final
<1>13. ASSUME NEW w \in Workers, Prepare(w) \/ TokenFresh(w) \/ TokenDeferred(w) \/ TokenUnusable(w)
       PROVE  SendInv'
    BY <1>11, <1>12, <1>13 DEF Prepare, TokenFresh, TokenDeferred, TokenUnusable, Result, Final
<1>14. ASSUME NEW w \in Workers, Recheck(w) PROVE SendInv'
  <2>1. CASE Goes(w, "finishing", "FAILED")
    BY <1>11, <1>14, <2>1 DEF Recheck, Result, Final
  <2>2. CASE worker' = [worker EXCEPT ![w].phase = "sending", ![w].account = connection.generation]
    <3>1. /\ worker'[w].phase = "sending"
          /\ worker'[w].message = worker[w].message /\ worker'[w].lease = worker[w].lease
          /\ worker'[w].round = worker[w].round
          /\ \A v \in Workers : v # w => worker'[v] = worker[v]
        BY <2>2 DEF TypeOK, Work
    <3>2. GoesOn(w)
        BY <1>14, <3>1 DEF Recheck, GoesOn, Claimed, Live, SendInv, WorkersKnow
    <3>. QED
        BY <1>14, <3>1, <3>2, MoveStep DEF Recheck
  <2>. QED
    BY <1>14, <2>1, <2>2 DEF Recheck
<1>15. ASSUME NEW w \in Workers, SendAccepted(w) \/ SendFailed(w) \/ SendAmbiguous(w) PROVE SendInv'
  <2>1. PICK result \in {"SENT", "FAILED", "UNKNOWN"} :
            Answer(w, "finishing", result) /\ (Reaches(w) \/ UNCHANGED outside)
    BY <1>15 DEF SendAccepted, SendFailed, SendAmbiguous
  <2>2. CASE Reaches(w)
    BY <2>1, <2>2, ReachesStep DEF Final
  <2>3. CASE UNCHANGED outside
    BY <1>11, <2>1, <2>3 DEF Answer, Result, Final
  <2>. QED
    BY <2>1, <2>2, <2>3
<1>16. ASSUME NEW w \in Workers, SendDeferred(w) PROVE SendInv'
  <2>1. PICK exhausted \in {"RATE_LIMITED", "FAILED"} :
            Answer(w, "finishing", SafeRetry(w, exhausted)) /\ UNCHANGED outside
    BY <1>16 DEF SendDeferred
  <2>. QED
    BY <1>11, <1>12, <2>1 DEF Answer
<1>17. ASSUME NEW w \in Workers, SendUnauthorized(w) PROVE SendInv'
    BY <1>11, <1>17 DEF SendUnauthorized, Answer, Result, Final
<1>18. ASSUME NEW w \in Workers, NEW result \in Final, Settle(w, result), worker[w].phase # "idle",
              worker' = [worker EXCEPT ![w] = Idle], UNCHANGED <<retries, outside, retrying>>
       PROVE  SendInv'
  <2>1. worker'[w].phase = "idle" /\ \A v \in Workers : v # w => worker'[v] = worker[v]
    BY <1>18 DEF Idle, TypeOK
  <2>2. \A v \in Workers : GoesOn(v)
    BY <2>1 DEF GoesOn, Claimed, Live, SendInv, WorkersKnow
  <2>3. \A n \in Messages : NotOpened(n)
    <3>1. CASE Holds(w)
      <4>1. HasStatus(worker[w].message, {"SENDING"})
        BY <3>1 DEF Holds
      <4>. QED
        BY <1>18, <3>1, <4>1, SettledMessage DEF NotOpened, HasStatus, Result, Final
    <3>2. CASE ~Holds(w)
        BY <1>18, <3>2, <1>c DEF Settle
    <3>. QED
        BY <3>1, <3>2
  <2>. QED
    BY <1>18, <2>2, <2>3, <1>a, QuietStep
<1>19. ASSUME NEW w \in Workers, Finish(w) PROVE SendInv'
  <2>1. worker[w].result \in Final \cup {"PENDING"}
    BY <1>19 DEF Finish, SendInv, WorkersKnow, TypeOK, Work, Result
  <2>2. CASE worker[w].result \in Final
    BY <1>18, <1>19, <2>2 DEF Finish
  <2>3. CASE worker[w].result = "PENDING" /\ Holds(w)
    BY <1>19, <2>3, PutBackStep
  <2>4. CASE ~Holds(w)
    <3>1. worker'[w].phase = "idle" /\ \A v \in Workers : v # w => worker'[v] = worker[v]
        BY <1>19 DEF Finish, Idle, TypeOK
    <3>2. GoesOn(w)
        BY <3>1 DEF GoesOn, Claimed, Live
    <3>. QED
        BY <1>19, <2>4, <3>1, <3>2, MoveStep DEF Finish, Settle
  <2>. QED
    BY <2>1, <2>2, <2>3, <2>4
<1>20. ASSUME NEW w \in Workers, MarkReconnectRequired(w) PROVE SendInv'
    BY <1>18, <1>20 DEF MarkReconnectRequired, Final
<1>21. ASSUME NEW m \in Messages, Reconcile(m) PROVE SendInv'
    BY <1>1, <1>21 DEF Reconcile
<1>22. ASSUME NEW w \in Workers, Redeliver(w) PROVE SendInv'
    BY <1>1, <1>22 DEF Redeliver
<1>23. CASE Environment \/ UNCHANGED vars
    BY <1>1, <1>23 DEF Environment, Elsewhere, Switch, Freeze, FindNothingConnected, Activate, Disconnect,
           ExpireToken, SeeExpiry, WriteExpiry, vars, outside
<1>. QED
    BY <1>2, <1>3, <1>4, <1>5, <1>6, <1>7, <1>8, <1>9, <1>10, <1>13, <1>14, <1>15, <1>16, <1>17,
       <1>19, <1>20, <1>21, <1>22, <1>23 DEF Next, MessageStep, WorkerStep

-----------------------------------------------------------------------------
(* Accounts                                                                 *)

\* A message keeps the generation it was written with.
LEMMA GenerationStays ==
    ASSUME TypeOK, SendInv, [Next]_vars, NEW m \in Messages, ~HasStatus(m, {"NONE"})
    PROVE  message'[m].generation = message[m].generation
<1>. DEFINE Stays == message'[m].generation = message[m].generation
<1>1. CASE UNCHANGED message
    BY <1>1
<1>2. ASSUME NEW n \in Messages, Send(n) PROVE Stays
    BY <1>2 DEF Send, HasStatus, TypeOK
<1>3. ASSUME NEW n \in Messages, MessageStep(n) PROVE Stays
  <2>1. CASE Reconcile(n)
    BY <2>1 DEF Reconcile
  <2>2. CASE MarkStaleUnknown(n)
    BY <2>2 DEF MarkStaleUnknown, TypeOK, Message
  <2>3. CASE BecomeDue(n)
    BY <2>3 DEF BecomeDue, TypeOK, Message
  <2>. QED
    BY <1>3, <2>1, <2>2, <2>3 DEF MessageStep
<1>4. ASSUME NEW r \in Managers, RetryWrite(r) PROVE Stays
    BY <1>4 DEF RetryWrite, TypeOK, Message
<1>5. ASSUME NEW w \in Workers, Claim(w) PROVE Stays
    BY <1>5 DEF Claim, TypeOK, Message
<1>6. ASSUME NEW w \in Workers, FailFrozen(w) PROVE Stays
    BY <1>6 DEF FailFrozen, TypeOK, Message
<1>7. ASSUME NEW w \in Workers, NEW result, Settle(w, result) PROVE Stays
    BY <1>7 DEF Settle, TypeOK, Message
<1>8. ASSUME NEW w \in Workers, WorkerStep(w) \/ Redeliver(w) \/ Crash(w) PROVE Stays
    BY <1>1, <1>5, <1>6, <1>7, <1>8
       DEF WorkerStep, TakeJob, Ignore, MeetFreeze, Prepare, TokenFresh, TokenDeferred, TokenUnusable,
           Recheck, SendAccepted, SendDeferred, SendFailed, SendUnauthorized, SendAmbiguous, Answer,
           Finish, MarkReconnectRequired, Redeliver, Crash
<1>9. CASE Environment \/ UNCHANGED vars
    BY <1>1, <1>9 DEF Environment, Elsewhere, Switch, Freeze, FindNothingConnected, Activate, Disconnect,
           ExpireToken, SeeExpiry, WriteExpiry, vars
<1>10. ASSUME NEW r \in Managers, NEW n \in Messages, RetryRead(r, n) PROVE Stays
    BY <1>1, <1>10 DEF RetryRead
<1>. QED
    BY <1>2, <1>3, <1>4, <1>8, <1>9, <1>10 DEF Next

\* A message that was claimed was written before.
LEMMA ClaimedIsWritten ==
    ASSUME TypeOK, SendInv, NEW w \in Workers, Claimed(w)
    PROVE  worker[w].message \in Messages /\ ~HasStatus(worker[w].message, {"NONE"})
<1>1. /\ worker[w].message \in Messages
      /\ worker[w].lease \in Nat /\ worker[w].lease > 0
      /\ worker[w].lease <= message[worker[w].message].attempts
    BY DEF SendInv, WorkersKnow, Claimed, TypeOK, Work
<1>2. message[worker[w].message].attempts \in Nat
    BY <1>1 DEF TypeOK, Message
<1>. QED
    BY <1>1, <1>2 DEF SendInv, NewIsUntouched

LEMMA GenerationOfWork ==
    ASSUME TypeOK, SendInv, [Next]_vars, NEW w \in Workers, Claimed(w)
    PROVE  message'[worker[w].message].generation = message[worker[w].message].generation
BY ClaimedIsWritten, GenerationStays

\* A worker's step is its own.
LEMMA OthersStay ==
    ASSUME TypeOK, NEW v \in Workers, NEW w \in Workers, v # w, WorkerStep(v) \/ Redeliver(v) \/ Crash(v)
    PROVE  worker'[w] = worker[w]
BY DEF WorkerStep, TakeJob, Claim, Ignore, MeetFreeze, FailFrozen, Prepare, TokenFresh,
       TokenDeferred, TokenUnusable, Recheck, SendAccepted, SendDeferred, SendFailed,
       SendUnauthorized, SendAmbiguous, Answer, Goes, Finish, MarkReconnectRequired,
       Redeliver, Crash, TypeOK

\* How a worker comes to be sending: by its second look.
LEMMA SendingStep ==
    ASSUME TypeOK, [Next]_vars, NEW w \in Workers, worker'[w].phase = "sending"
    PROVE  /\ worker'[w].message = worker[w].message
           /\ \/ worker[w].phase = "sending" /\ worker'[w].account = worker[w].account
              \/ /\ worker[w].phase = "checking"
                 /\ worker'[w].account = message[worker[w].message].generation
<1>. DEFINE Goal == /\ worker'[w].message = worker[w].message
                    /\ \/ worker[w].phase = "sending" /\ worker'[w].account = worker[w].account
                       \/ /\ worker[w].phase = "checking"
                          /\ worker'[w].account = message[worker[w].message].generation
<1>1. CASE worker'[w] = worker[w]
    BY <1>1
<1>2. CASE Recheck(w)
    BY <1>2 DEF Recheck, MaySend, CanReply, Goes, TypeOK, Work
<1>3. ASSUME NEW v \in Workers, v # w \/ ~Recheck(v), WorkerStep(v) \/ Redeliver(v) \/ Crash(v)
      PROVE  worker'[w] = worker[w]
  <2>1. CASE v # w
    BY <1>3, <2>1, OthersStay
  <2>2. CASE v = w
    <3>1. CASE \E m \in Messages : TakeJob(w, m)
      BY <3>1 DEF TakeJob, Idle, TypeOK
    <3>2. CASE Claim(w)
      <4>1. worker'[w].phase = "claimed"
        BY <3>2 DEF Claim, TypeOK, Work
      <4>. QED
        BY <4>1
    <3>6. CASE Ignore(w) \/ MeetFreeze(w) \/ FailFrozen(w)
      BY <3>6 DEF Ignore, MeetFreeze, FailFrozen, Idle, TypeOK, Work
    <3>3. CASE Prepare(w) \/ TokenFresh(w) \/ TokenDeferred(w) \/ TokenUnusable(w)
      BY <3>3 DEF Prepare, TokenFresh, TokenDeferred, TokenUnusable, Goes, TypeOK, Work
    <3>4. CASE SendAccepted(w) \/ SendDeferred(w) \/ SendFailed(w) \/ SendUnauthorized(w) \/ SendAmbiguous(w)
      BY <3>4 DEF SendAccepted, SendDeferred, SendFailed, SendUnauthorized, SendAmbiguous, Answer,
             Goes, TypeOK, Work
    <3>5. CASE Finish(w) \/ MarkReconnectRequired(w) \/ Redeliver(w) \/ Crash(w)
      BY <3>5 DEF Finish, MarkReconnectRequired, Redeliver, Crash, Idle, TypeOK
    <3>. QED
      BY <1>3, <2>2, <3>1, <3>2, <3>3, <3>4, <3>5, <3>6 DEF WorkerStep
  <2>. QED
    BY <2>1, <2>2
<1>4. CASE UNCHANGED worker
    BY <1>4
<1>5. ASSUME NEW m \in Messages, Send(m) \/ MessageStep(m) PROVE UNCHANGED worker
    BY <1>5 DEF Send, MessageStep, Reconcile, MarkStaleUnknown, BecomeDue
<1>6. ASSUME NEW r \in Managers, RetryWrite(r) \/ \E m \in Messages : RetryRead(r, m) PROVE UNCHANGED worker
    BY <1>6 DEF RetryWrite, RetryRead
<1>7. CASE Environment \/ UNCHANGED vars
    BY <1>4, <1>7 DEF Environment, Elsewhere, Switch, Freeze, FindNothingConnected, Activate, Disconnect,
           ExpireToken, SeeExpiry, WriteExpiry, vars
<1>. QED
    BY <1>1, <1>2, <1>3, <1>4, <1>5, <1>6, <1>7 DEF Next

\* How a worker comes to be refusing: without a token, or refused.
LEMMA RefusingStep ==
    ASSUME TypeOK, SendInv, [Next]_vars, NEW w \in Workers, worker'[w].phase = "refusing"
    PROVE  /\ worker'[w].message = worker[w].message
           /\ \/ worker[w].phase = "refusing"
              \/ /\ worker[w].phase \in {"token", "sending"}
                 /\ message[worker[w].message].generation \in unusable'
<1>1. CASE worker'[w] = worker[w]
    BY <1>1
<1>2. CASE TokenUnusable(w)
    BY <1>2 DEF TokenUnusable, Goes, TypeOK, Work
<1>3. CASE SendUnauthorized(w)
    BY <1>3 DEF SendUnauthorized, Answer, Goes, TypeOK, Work
<1>4. ASSUME NEW v \in Workers, v # w \/ (~TokenUnusable(v) /\ ~SendUnauthorized(v)),
             WorkerStep(v) \/ Redeliver(v) \/ Crash(v)
      PROVE  worker'[w] = worker[w]
  <2>1. CASE v # w
    BY <1>4, <2>1, OthersStay
  <2>2. CASE v = w
    <3>1. CASE \E m \in Messages : TakeJob(w, m)
      BY <3>1 DEF TakeJob, Idle, TypeOK
    <3>2. CASE Claim(w)
      <4>1. worker'[w].phase = "claimed"
        BY <3>2 DEF Claim, TypeOK, Work
      <4>. QED
        BY <4>1
    <3>3. CASE Ignore(w) \/ MeetFreeze(w) \/ FailFrozen(w)
      BY <3>3 DEF Ignore, MeetFreeze, FailFrozen, Idle, TypeOK, Work
    <3>4. CASE Prepare(w) \/ TokenFresh(w) \/ TokenDeferred(w) \/ Recheck(w)
      BY <3>4 DEF Prepare, TokenFresh, TokenDeferred, Recheck, Goes, TypeOK, Work
    <3>5. CASE SendAccepted(w) \/ SendDeferred(w) \/ SendFailed(w) \/ SendAmbiguous(w)
      BY <3>5 DEF SendAccepted, SendDeferred, SendFailed, SendAmbiguous, Answer, Goes, TypeOK, Work
    <3>6. CASE Finish(w) \/ MarkReconnectRequired(w) \/ Redeliver(w) \/ Crash(w)
      BY <3>6 DEF Finish, MarkReconnectRequired, Redeliver, Crash, Idle, TypeOK
    <3>. QED
      BY <1>4, <2>2, <3>1, <3>2, <3>3, <3>4, <3>5, <3>6 DEF WorkerStep
  <2>. QED
    BY <2>1, <2>2
<1>5. CASE UNCHANGED worker
    BY <1>5
<1>6. ASSUME NEW m \in Messages, Send(m) \/ MessageStep(m) PROVE UNCHANGED worker
    BY <1>6 DEF Send, MessageStep, Reconcile, MarkStaleUnknown, BecomeDue
<1>7. ASSUME NEW r \in Managers, RetryWrite(r) \/ \E m \in Messages : RetryRead(r, m) PROVE UNCHANGED worker
    BY <1>7 DEF RetryWrite, RetryRead
<1>8. CASE Environment \/ UNCHANGED vars
    BY <1>5, <1>8 DEF Environment, Elsewhere, Switch, Freeze, FindNothingConnected, Activate, Disconnect,
           ExpireToken, SeeExpiry, WriteExpiry, vars
<1>. QED
    BY <1>1, <1>2, <1>3, <1>4, <1>5, <1>6, <1>7, <1>8 DEF Next

\* A text goes through the account that its worker looked up.
LEMMA ThroughStep ==
    ASSUME TypeOK, [Next]_vars, NEW m \in Messages
    PROVE  \/ through'[m] = through[m]
           \/ \E w \in Workers : /\ worker[w].phase = "sending" /\ worker[w].message = m
                                 /\ through'[m] = through[m] \cup {worker[w].account}
<1>. DEFINE Goal == \/ through'[m] = through[m]
                    \/ \E w \in Workers : /\ worker[w].phase = "sending" /\ worker[w].message = m
                                          /\ through'[m] = through[m] \cup {worker[w].account}
<1>1. CASE UNCHANGED through
    BY <1>1
<1>2. ASSUME NEW w \in Workers, worker[w].phase = "sending", Reaches(w) PROVE Goal
  <2>1. CASE worker[w].message = m
    BY <1>2, <2>1 DEF Reaches, TypeOK
  <2>2. CASE worker[w].message # m
    BY <1>2, <2>2 DEF Reaches, TypeOK
  <2>. QED
    BY <2>1, <2>2
<1>3. ASSUME NEW w \in Workers, SendAccepted(w) \/ SendFailed(w) \/ SendAmbiguous(w)
      PROVE  worker[w].phase = "sending" /\ (Reaches(w) \/ UNCHANGED through)
    BY <1>3 DEF SendAccepted, SendFailed, SendAmbiguous, Answer, outside
<1>4. ASSUME NEW w \in Workers, WorkerStep(w) \/ Redeliver(w) \/ Crash(w),
             ~SendAccepted(w) /\ ~SendFailed(w) /\ ~SendAmbiguous(w)
      PROVE  UNCHANGED through
    BY <1>4 DEF WorkerStep, TakeJob, Claim, Ignore, MeetFreeze, FailFrozen, Prepare, TokenFresh,
           TokenDeferred, TokenUnusable, Recheck, SendDeferred, SendUnauthorized, Finish,
           MarkReconnectRequired, Redeliver, Crash, outside
<1>5. ASSUME NEW n \in Messages, Send(n) \/ MessageStep(n) PROVE UNCHANGED through
    BY <1>5 DEF Send, MessageStep, Reconcile, MarkStaleUnknown, BecomeDue, outside
<1>6. ASSUME NEW r \in Managers, RetryWrite(r) \/ \E n \in Messages : RetryRead(r, n) PROVE UNCHANGED through
    BY <1>6 DEF RetryWrite, RetryRead, outside
<1>7. CASE Environment \/ UNCHANGED vars
    BY <1>7 DEF Environment, Elsewhere, Switch, Freeze, FindNothingConnected, Activate, Disconnect,
           ExpireToken, SeeExpiry, WriteExpiry, vars, outside
<1>. QED
    BY <1>1, <1>2, <1>3, <1>4, <1>5, <1>6, <1>7 DEF Next

\* A generation once unusable stays so, and a connection is shut for one only.
LEMMA ShutStep ==
    ASSUME IInv, [Next]_vars
    PROVE  /\ unusable \subseteq unusable'
           /\ OnlyUnusableIsShut' /\ LatestIsConnected' /\ SeenIsUnusable'
<1>. DEFINE Goal == /\ unusable \subseteq unusable'
                    /\ OnlyUnusableIsShut' /\ LatestIsConnected' /\ SeenIsUnusable'
<1>. USE DEF IInv, AccountInv, OnlyUnusableIsShut, LatestIsConnected, SeenIsUnusable, switches
<1>1. CASE UNCHANGED <<connection, generations, expiring>> /\ unusable \subseteq unusable'
    BY <1>1
<1>2. ASSUME NEW w \in Workers, MarkReconnectRequired(w) PROVE Goal
    BY <1>2 DEF MarkReconnectRequired, Shut, Shuts, RefusedIsUnusable, TypeOK
<1>3. ASSUME NEW w \in Workers, TokenUnusable(w) PROVE Goal
  <2>1. CASE UNCHANGED connection
    BY <1>3, <2>1 DEF TokenUnusable
  <2>2. CASE connection' = Shut(worker[w].message)
    BY <1>3, <2>2 DEF TokenUnusable, Shut, Shuts, TypeOK
  <2>. QED
    BY <1>3, <2>1, <2>2 DEF TokenUnusable
<1>4. ASSUME NEW w \in Workers, WorkerStep(w) \/ Redeliver(w) \/ Crash(w),
             ~MarkReconnectRequired(w) /\ ~TokenUnusable(w)
      PROVE  UNCHANGED <<connection, generations, expiring>> /\ unusable \subseteq unusable'
    BY <1>4 DEF WorkerStep, TakeJob, Claim, Ignore, MeetFreeze, FailFrozen, Prepare, TokenFresh,
           TokenDeferred, Recheck, SendAccepted, SendDeferred, SendFailed,
           SendUnauthorized, SendAmbiguous, Answer, Finish, Redeliver, Crash, settings
<1>5. ASSUME NEW n \in Messages, Send(n) \/ MessageStep(n)
      PROVE  UNCHANGED <<connection, generations, expiring>> /\ unusable \subseteq unusable'
    BY <1>5 DEF Send, MessageStep, Reconcile, MarkStaleUnknown, BecomeDue, settings
<1>6. ASSUME NEW r \in Managers, RetryWrite(r) \/ \E n \in Messages : RetryRead(r, n)
      PROVE  UNCHANGED <<connection, generations, expiring>> /\ unusable \subseteq unusable'
    BY <1>6 DEF RetryWrite, RetryRead, settings
<1>7. CASE Switch \/ Freeze \/ FindNothingConnected
    BY <1>7 DEF Switch, Freeze, FindNothingConnected
<1>8. CASE Activate
    BY <1>8, TikTokDeliveryAssumption DEF Activate, TypeOK, Generations
<1>9. CASE Disconnect
    BY <1>9 DEF Disconnect
<1>10. CASE ExpireToken
    BY <1>10 DEF ExpireToken, TypeOK
<1>11. CASE SeeExpiry
    BY <1>11 DEF SeeExpiry, TypeOK
<1>12. CASE WriteExpiry
    BY <1>12 DEF WriteExpiry, TypeOK
<1>13. CASE UNCHANGED vars
    BY <1>13 DEF vars
<1>. QED
    BY <1>1, <1>2, <1>3, <1>4, <1>5, <1>6, <1>7, <1>8, <1>9, <1>10, <1>11, <1>12, <1>13
       DEF Next, Environment

LEMMA AccountStep == IInv /\ [Next]_vars => AccountInv'
<1>. SUFFICES ASSUME IInv, [Next]_vars PROVE AccountInv'
    OBVIOUS
<1>. USE DEF IInv, AccountInv
<1>1. SendsToItsAccount'
  <2>1. ASSUME NEW w \in Workers, worker'[w].phase = "sending"
        PROVE  worker'[w].account = message'[worker'[w].message].generation
    <3>1. Claimed(w) /\ worker'[w].message = worker[w].message
        BY <2>1, SendingStep DEF Claimed
    <3>2. worker'[w].account = message[worker[w].message].generation
        BY <2>1, SendingStep DEF SendsToItsAccount
    <3>. QED
        BY <3>1, <3>2, GenerationOfWork
  <2>. QED
    BY <2>1 DEF SendsToItsAccount
<1>2. RefusedIsUnusable'
  <2>1. ASSUME NEW w \in Workers, worker'[w].phase = "refusing"
        PROVE  message'[worker'[w].message].generation \in unusable'
    <3>1. Claimed(w) /\ worker'[w].message = worker[w].message
        BY <2>1, RefusingStep DEF Claimed
    <3>2. message[worker[w].message].generation \in unusable'
        BY <2>1, RefusingStep, ShutStep DEF RefusedIsUnusable
    <3>. QED
        BY <3>1, <3>2, GenerationOfWork
  <2>. QED
    BY <2>1 DEF RefusedIsUnusable
<1>3. SentThroughItsConnection'
  <2>1. ASSUME NEW m \in Messages PROVE through'[m] \subseteq {message'[m].generation}
    <3>1. CASE HasStatus(m, {"NONE"})
      <4>1. ASSUME NEW w \in Workers, worker[w].phase = "sending", worker[w].message = m PROVE FALSE
        BY <3>1, <4>1, ClaimedIsWritten DEF Claimed
      <4>. QED
        BY <3>1, <4>1, ThroughStep DEF SendInv, NewIsUntouched
    <3>2. CASE ~HasStatus(m, {"NONE"})
        BY <3>2, ThroughStep, GenerationStays DEF SentThroughItsConnection, SendsToItsAccount
    <3>. QED
        BY <3>1, <3>2
  <2>. QED
    BY <2>1 DEF SentThroughItsConnection
<1>4. OnlyUnusableIsShut' /\ LatestIsConnected' /\ SeenIsUnusable'
    BY ShutStep
<1>. QED
    BY <1>1, <1>2, <1>3, <1>4

-----------------------------------------------------------------------------
(* Settled messages                                                         *)

\* Only a retry that was decided on before touches what is SENT or UNKNOWN:
\* a job claims only what is PENDING, and settles only what is SENDING.
LEMMA SettledStep ==
    ASSUME TypeOK, SendInv, [Next]_vars, NEW m \in Messages, HasStatus(m, {"SENT", "UNKNOWN"})
    PROVE  \/ message'[m] = message[m]
           \/ \E r \in Managers : retrying[r] = m /\ retrying'[r] # m
<1>. DEFINE Stays == message'[m] = message[m]
<1>1. CASE UNCHANGED message
    BY <1>1
<1>2. ASSUME NEW n \in Messages, Send(n) \/ MessageStep(n) PROVE Stays
  <2>1. n # m \/ UNCHANGED message
    BY <1>2 DEF Send, MessageStep, Reconcile, MarkStaleUnknown, BecomeDue, HasStatus
  <2>. QED
    BY <1>2, <2>1 DEF Send, MessageStep, Reconcile, MarkStaleUnknown, BecomeDue, TypeOK
<1>3. ASSUME NEW r \in Managers, RetryWrite(r), ~Stays PROVE retrying[r] = m /\ retrying'[r] # m
    BY <1>3, TikTokDeliveryAssumption DEF RetryWrite, TypeOK
<1>4. ASSUME NEW w \in Workers, Claim(w) \/ FailFrozen(w) PROVE Stays
    BY <1>4 DEF Claim, Claimable, FailFrozen, HasStatus, TypeOK
<1>5. ASSUME NEW w \in Workers, NEW result, Settle(w, result) PROVE Stays
    BY <1>5 DEF Settle, Holds, HasStatus, TypeOK
<1>6. ASSUME NEW w \in Workers, WorkerStep(w) \/ Redeliver(w) \/ Crash(w) PROVE Stays
    BY <1>1, <1>4, <1>5, <1>6
       DEF WorkerStep, TakeJob, Ignore, MeetFreeze, Prepare, TokenFresh, TokenDeferred, TokenUnusable,
           Recheck, SendAccepted, SendDeferred, SendFailed, SendUnauthorized, SendAmbiguous, Answer,
           Finish, MarkReconnectRequired, Redeliver, Crash
<1>7. ASSUME NEW r \in Managers, NEW n \in Messages, RetryRead(r, n) PROVE Stays
    BY <1>1, <1>7 DEF RetryRead
<1>8. CASE Environment \/ UNCHANGED vars
    BY <1>1, <1>8 DEF Environment, Elsewhere, Switch, Freeze, FindNothingConnected, Activate, Disconnect,
           ExpireToken, SeeExpiry, WriteExpiry, vars
<1>. QED
    BY <1>2, <1>3, <1>6, <1>7, <1>8 DEF Next

-----------------------------------------------------------------------------
(* Theorems                                                                 *)

\* The inductive invariant holds in every reachable state.
LEMMA Invariance == Spec => []IInv
<1>1. IInv /\ [Next]_vars => IInv'
    BY TypeStep, SendInvStep, AccountStep DEF IInv, SendInv
<1>. QED
    BY Initially, <1>1, PTL DEF Spec

\* Messages, workers, the connection and the queue keep their shape.
THEOREM TypeCorrect == Spec => []TypeOK
BY Invariance, PTL DEF IInv

\* However many workers claim, crash, take a job twice or answer late, the
\* customer gets a text at most once for each time a manager asked for it
\* (TikTokMessageDeliveryService.process and the lease that it claims by).
THEOREM EachRequestSendsOnce == Spec => []OneTextPerRequest
BY Invariance, PTL DEF IInv, SendInv

\* Whatever is disconnected and connected again between the claim and the
\* call, a reply leaves through the generation it was written for.
THEOREM RepliesKeepTheirConnection == Spec => []SentThroughItsConnection
BY Invariance, PTL DEF IInv, AccountInv

\* markReconnectRequired shuts no connection but the one that was refused.
THEOREM RefusalsShutTheirConnection == Spec => []OnlyUnusableIsShut
BY Invariance, PTL DEF IInv, AccountInv

\* SENT and UNKNOWN are final but for a retry decided on before.
THEOREM SettledRepliesStay == Spec => SettledStays
<1>1. IInv /\ [Next]_vars =>
        [\A m \in Messages : HasStatus(m, {"SENT", "UNKNOWN"}) =>
            \/ message'[m] = message[m]
            \/ \E r \in Managers : retrying[r] = m /\ retrying'[r] # m]_vars
    BY SettledStep DEF IInv
<1>. QED
    BY Invariance, <1>1, PTL DEF Spec, SettledStays

-----------------------------------------------------------------------------
(***************************************************************************)
(* The access token with which a reply is sent: proofs about TikTokToken,  *)
(* for all jobs, connections, pairs and claims.                            *)
(***************************************************************************)
CONSTANTS
    MaxPairs,   \* bound: pairs of tokens that TikTok gives out
    MaxClaims   \* bound: claims of the lease

\* TikTokToken's row, jobs and generations are named apart from the replies'.
VARIABLES account, jobs, claims, connected, aged, lapsed, issued, newest, shaken

Token == INSTANCE TikTokToken WITH
    connection <- account, worker <- jobs, generations <- connected, latest <- newest

\* What the model's bounds are.
TokenBounds == MaxGenerations \in Nat /\ MaxPairs \in Nat /\ MaxClaims \in Nat

-----------------------------------------------------------------------------
(* The inductive invariant                                                  *)

\* A job that holds a lease, or gives it back.
TokenHolding(w) == jobs[w].phase \in {"calling", "writing", "releasing"}

\* The row has nothing that was not given out.
TokenRowFits ==
    /\ account.generation <= connected
    /\ account.pair <= issued
    /\ account.lease <= claims
    /\ aged <= issued
    /\ lapsed <= claims
    /\ account.generation = 0 => account.pair = 0
    /\ account.status = "ACTIVE" => account.generation # 0

\* What a job has read is what was there, and the pair it has is the row's, or
\* newer than the row's.
TokenJobFits(w) ==
    /\ jobs[w].generation <= connected
    /\ jobs[w].lease <= claims
    /\ jobs[w].lapsed <= lapsed
    /\ jobs[w].aged <= aged
    /\ jobs[w].pair <= issued
    /\ jobs[w].phase # "idle" => jobs[w].generation # 0
    /\ TokenHolding(w) => jobs[w].lease # 0
    /\ (jobs[w].phase = "claiming" /\ Token!Same(w) /\ account.pair <= jobs[w].aged) =>
            jobs[w].pair = account.pair
    /\ (jobs[w].phase = "calling" /\ Token!Leased(w)) => jobs[w].pair = account.pair
    /\ (jobs[w].phase = "writing" /\ Token!Leased(w)) =>
            jobs[w].pair > account.pair /\ jobs[w].pair > aged

\* No lease is held by two.
TokenLeasesDiffer == \A v, w \in Workers : (TokenHolding(v) /\ TokenHolding(w) /\ v # w) => jobs[v].lease # jobs[w].lease

\* Of a generation for which nothing was lost, nobody shuts the connection, and
\* who refreshes has the lease, which has not lapsed.
TokenQuiet(w) ==
    (Token!Same(w) /\ jobs[w].generation \notin shaken) =>
        /\ Token!Refreshing(w) => Token!Leased(w) /\ jobs[w].lease > lapsed
        /\ jobs[w].phase \notin {"marking", "shutting"}
        /\ jobs[w].phase = "releasing" => jobs[w].error = "RETRYABLE"
        /\ jobs[w].phase = "writing" => jobs[w].pair = newest[jobs[w].generation]

\* The inductive invariant; LastPairIsKept is part of it.
TokenIInv ==
    /\ Token!TypeOK
    /\ TokenRowFits
    /\ \A w \in Workers : TokenJobFits(w)
    /\ TokenLeasesDiffer
    /\ \A w \in Workers : TokenQuiet(w)
    /\ Token!LastPairIsKept

-----------------------------------------------------------------------------
(* A job's own steps                                                        *)

\* What TypeOK says of the fields.
LEMMA TokenTyped ==
    ASSUME Token!TypeOK
    PROVE /\ account \in Token!Connection
          /\ account.generation \in Token!Generations /\ account.pair \in Token!Pairs
          /\ account.lease \in Token!Leases
          /\ \A w \in Workers : /\ jobs[w] \in Token!Work
                                /\ jobs[w].generation \in Token!Generations /\ jobs[w].aged \in Token!Pairs
                                /\ jobs[w].lapsed \in Token!Leases /\ jobs[w].pair \in Token!Pairs
                                /\ jobs[w].lease \in Token!Leases
BY DEF Token!TypeOK, Token!Connection, Token!Work

\* A job that does nothing.
LEMMA TokenIdleFits == 0 \in Token!Generations /\ 0 \in Token!Pairs /\ 0 \in Token!Leases => Token!Idle \in Token!Work
BY DEF Token!Idle, Token!Work

\* A job that goes on, or ends, without writing anything keeps the invariant, if
\* what it then has was there, and it leaves no refresh but with a shaken generation.
LEMMA TokenJobMoves ==
    ASSUME TokenBounds, TokenIInv, NEW w \in Workers, NEW x \in Token!Work,
           jobs' = [jobs EXCEPT ![w] = x],
           UNCHANGED <<account, claims, connected, Token!clock, Token!tiktok>>,
           shaken \subseteq shaken', shaken' \subseteq Token!Generations,
           x.generation <= connected, x.lease <= claims, x.lapsed <= lapsed, x.aged <= aged, x.pair <= issued,
           x.phase # "idle" => x.generation # 0,
           x.phase \notin {"calling", "writing"},
           x.phase = "releasing" => TokenHolding(w) /\ x.lease = jobs[w].lease,
           (x.phase = "claiming" /\ x.generation = account.generation /\ account.pair <= x.aged) =>
                x.pair = account.pair,
           (x.phase \in {"marking", "shutting"} /\ x.generation = account.generation) => x.generation \in shaken',
           (x.phase = "releasing" /\ x.generation = account.generation) =>
                x.error = "RETRYABLE" \/ x.generation \in shaken',
           (jobs[w].phase = "writing" /\ Token!Leased(w)) => jobs[w].generation \in shaken'
    PROVE TokenIInv'
<1>1. jobs \in [Workers -> Token!Work]
  BY DEF TokenIInv, Token!TypeOK
<1>2. /\ jobs'[w] = x
      /\ \A v \in Workers : v # w => jobs'[v] = jobs[v]
  BY <1>1
<1>3. Token!TypeOK'
  <2>1. jobs' \in [Workers -> Token!Work]
    BY <1>1
  <2> QED BY <2>1 DEF TokenIInv, Token!TypeOK, Token!clock, Token!tiktok
<1>4. TokenRowFits'
  BY DEF TokenIInv, TokenRowFits, Token!clock, Token!tiktok
<1>5. ASSUME NEW v \in Workers PROVE TokenJobFits(v)'
  <2>1. CASE v = w
    BY <2>1, <1>2 DEF TokenIInv, TokenJobFits, TokenHolding, Token!Same, Token!Leased, Token!clock, Token!tiktok
  <2>2. CASE v # w
    BY <2>2, <1>2 DEF TokenIInv, TokenJobFits, TokenHolding, Token!Same, Token!Leased, Token!clock, Token!tiktok
  <2> QED BY <2>1, <2>2
<1>6. TokenLeasesDiffer'
  BY <1>2 DEF TokenIInv, TokenLeasesDiffer, TokenHolding
<1>7. ASSUME NEW v \in Workers PROVE TokenQuiet(v)'
  <2>1. CASE v = w
    BY <2>1, <1>2 DEF TokenQuiet, Token!Same, Token!Leased, Token!Refreshing, Token!clock, Token!tiktok
  <2>2. CASE v # w
    BY <2>2, <1>2 DEF TokenIInv, TokenQuiet, Token!Same, Token!Leased, Token!Refreshing, Token!clock,
       Token!tiktok
  <2> QED BY <2>1, <2>2
<1>8. Token!LastPairIsKept'
  <2>1. ASSUME NEW v \in Workers, v # w, jobs[v].phase = "writing", Token!Leased(v),
               jobs[v].pair = newest[account.generation]
        PROVE Token!LastPairIsKept' \/ ~(account.generation # 0 /\ account.generation \notin shaken')
                \/ account.status # "ACTIVE"
    <3>1. jobs'[v].phase = "writing" /\ Token!Leased(v)' /\ jobs'[v].pair = newest'[account'.generation]
      BY <2>1, <1>2 DEF Token!Leased, Token!Same, Token!tiktok
    <3> QED BY <3>1 DEF Token!LastPairIsKept, Token!tiktok
  <2>2. CASE account.generation # 0 /\ account.generation \notin shaken'
    <3>1. account.generation # 0 /\ account.generation \notin shaken
      BY <2>2
    <3>2. ~(jobs[w].phase = "writing" /\ Token!Leased(w))
      BY <2>2 DEF Token!Leased, Token!Same
    <3> QED BY <2>1, <2>2, <3>1, <3>2 DEF TokenIInv, Token!LastPairIsKept, Token!tiktok
  <2>3. CASE ~(account.generation # 0 /\ account.generation \notin shaken')
    BY <2>3 DEF Token!LastPairIsKept
  <2> QED BY <2>2, <2>3
<1> QED BY <1>3, <1>4, <1>5, <1>6, <1>7, <1>8 DEF TokenIInv

-----------------------------------------------------------------------------
\* A job begins with what the row and the clock have.
LEMMA TokenBeginKeeps ==
    ASSUME TokenBounds, TokenIInv, NEW w \in Workers, Token!Begin(w)
    PROVE TokenIInv'
<1>. PICK x : x = [Token!Idle EXCEPT !.phase = "reading", !.generation = account.generation,
                               !.aged = aged, !.lapsed = lapsed]
  OBVIOUS
<1>1. jobs' = [jobs EXCEPT ![w] = x]
  BY DEF Token!Begin
<1>0. /\ Token!Idle \in Token!Work /\ Token!Idle.lease = 0 /\ Token!Idle.pair = 0
      /\ account.generation \in Token!Generations /\ aged \in Token!Pairs /\ lapsed \in Token!Leases
  <2>1. 0 \in Token!Generations /\ 0 \in Token!Pairs /\ 0 \in Token!Leases
    BY DEF Token!Generations, Token!Pairs, Token!Leases, TokenBounds
  <2>2. Token!Idle.lease = 0 /\ Token!Idle.pair = 0
    BY DEF Token!Idle
  <2> QED BY <2>1, <2>2, TokenIdleFits DEF TokenIInv, Token!TypeOK, Token!Connection
<1>2. x \in Token!Work
  BY <1>0 DEF Token!Work
<1>3. /\ x.phase = "reading" /\ x.generation = account.generation
      /\ x.aged = aged /\ x.lapsed = lapsed /\ x.lease = 0 /\ x.pair = 0
  BY <1>0 DEF Token!Work
<1>4. UNCHANGED <<account, claims, connected, Token!clock, Token!tiktok>> /\ shaken' = shaken
  BY DEF Token!Begin, Token!Elsewhere
<1>5. jobs[w].phase # "writing" /\ account.generation # 0
  BY DEF Token!Begin, TokenIInv, TokenRowFits
<1>6. account.generation <= connected /\ 0 <= claims /\ lapsed <= lapsed /\ aged <= aged /\ 0 <= issued
  BY DEF TokenIInv, Token!TypeOK, TokenRowFits, Token!Leases, Token!Pairs, TokenBounds
<1>7. shaken' \subseteq Token!Generations
  BY <1>4 DEF TokenIInv, Token!TypeOK
<1> QED BY <1>1, <1>2, <1>3, <1>4, <1>5, <1>6, <1>7, TokenJobMoves

\* A job that goes to another phase with what it has.
LEMMA TokenJobGoes ==
    ASSUME TokenBounds, TokenIInv, NEW w \in Workers, NEW phase,
           phase \in {"reading", "marking", "shutting"}, jobs[w].phase # "idle",
           Token!Goes(w, phase), UNCHANGED account, Token!Elsewhere,
           shaken' = shaken \/ Token!Shake(w),
           (phase \in {"marking", "shutting"} /\ Token!Same(w)) => jobs[w].generation \in shaken',
           jobs[w].phase # "writing"
    PROVE TokenIInv'
<1>. PICK x : x = [jobs[w] EXCEPT !.phase = phase]
  OBVIOUS
<1>1. jobs' = [jobs EXCEPT ![w] = x]
  BY DEF Token!Goes
<1>0. jobs[w] \in Token!Work
  BY DEF TokenIInv, Token!TypeOK
<1>2. x \in Token!Work
  BY <1>0 DEF Token!Work
<1>3. /\ x.phase = phase /\ x.generation = jobs[w].generation
      /\ x.aged = jobs[w].aged /\ x.lapsed = jobs[w].lapsed /\ x.lease = jobs[w].lease /\ x.pair = jobs[w].pair
  BY <1>0 DEF Token!Work
<1>4. UNCHANGED <<account, claims, connected, Token!clock, Token!tiktok>>
  BY DEF Token!Elsewhere
<1>5. /\ x.generation <= connected /\ x.lease <= claims /\ x.lapsed <= lapsed /\ x.aged <= aged
      /\ x.pair <= issued
      /\ x.generation # 0
  BY <1>3 DEF TokenIInv, TokenJobFits
<1>6. shaken \subseteq shaken' /\ shaken' \subseteq Token!Generations
  BY <1>0 DEF TokenIInv, Token!TypeOK, Token!Shake, Token!Work
<1>7. (x.phase \in {"marking", "shutting"} /\ x.generation = account.generation) => x.generation \in shaken'
  BY <1>3 DEF Token!Same
<1> QED BY <1>1, <1>2, <1>3, <1>4, <1>5, <1>6, <1>7, TokenJobMoves

\* The connection of a quiet generation is there.
LEMMA TokenUnavailableKeeps ==
    ASSUME TokenBounds, TokenIInv, NEW w \in Workers, Token!Unavailable(w)
    PROVE TokenIInv'
<1>1. /\ jobs[w].phase = "reading" /\ ~Token!MayRead(w) /\ Token!Goes(w, "shutting") /\ UNCHANGED account
      /\ shaken' = shaken /\ Token!Elsewhere
  BY DEF Token!Unavailable
<1>2. Token!Same(w) => jobs[w].generation \in shaken'
  BY <1>1 DEF TokenIInv, TokenJobFits, Token!LastPairIsKept, Token!MayRead, Token!Same
<1> QED BY <1>1, <1>2, TokenJobGoes

\* A job that ends; of one that was to write, the generation is shaken.
LEMMA TokenJobStops ==
    ASSUME TokenBounds, TokenIInv, NEW w \in Workers, Token!Stops(w), UNCHANGED account, Token!Elsewhere,
           shaken' = shaken \/ Token!Shake(w),
           jobs[w].phase = "writing" => Token!Shake(w)
    PROVE TokenIInv'
<1>0. jobs[w] \in Token!Work
  BY DEF TokenIInv, Token!TypeOK
<1>1. jobs' = [jobs EXCEPT ![w] = Token!Idle]
  BY DEF Token!Stops
<1>2. Token!Idle \in Token!Work
  BY TokenIdleFits DEF Token!Generations, Token!Pairs, Token!Leases, TokenBounds
<1>3. /\ Token!Idle.phase = "idle" /\ Token!Idle.generation = 0 /\ Token!Idle.aged = 0
      /\ Token!Idle.lapsed = 0 /\ Token!Idle.lease = 0 /\ Token!Idle.pair = 0
  BY DEF Token!Idle
<1>4. UNCHANGED <<account, claims, connected, Token!clock, Token!tiktok>>
  BY DEF Token!Elsewhere
<1>5. 0 <= connected /\ 0 <= claims /\ 0 <= lapsed /\ 0 <= aged /\ 0 <= issued
  BY DEF TokenIInv, Token!TypeOK, Token!Generations, Token!Leases, Token!Pairs, TokenBounds
<1>6. shaken \subseteq shaken' /\ shaken' \subseteq Token!Generations
  BY <1>0 DEF TokenIInv, Token!TypeOK, Token!Shake, Token!Work
<1>7. jobs[w].phase = "writing" => jobs[w].generation \in shaken'
  BY DEF Token!Shake
<1> QED BY <1>1, <1>2, <1>3, <1>4, <1>5, <1>6, <1>7, TokenJobMoves

\* A token that is fresh is used, whatever was before.
LEMMA TokenFreshKeeps ==
    ASSUME TokenBounds, TokenIInv, NEW w \in Workers, Token!Fresh(w)
    PROVE TokenIInv'
BY TokenJobStops DEF Token!Fresh

\* What a refresh loses with its process shakes its generation.
LEMMA TokenCrashKeeps ==
    ASSUME TokenBounds, TokenIInv, NEW w \in Workers, Token!Crash(w)
    PROVE TokenIInv'
BY TokenJobStops DEF Token!Crash, Token!Refreshing

\* The pair it takes with it to the claim is the row's.
LEMMA TokenStaleKeeps ==
    ASSUME TokenBounds, TokenIInv, NEW w \in Workers, Token!Stale(w)
    PROVE TokenIInv'
<1>1. /\ jobs[w].phase = "reading" /\ Token!MayRead(w) /\ UNCHANGED account /\ Token!Elsewhere
  BY DEF Token!Stale
<1>2. CASE Token!Goes(w, "marking") /\ Token!Shake(w)
  <2>1. jobs[w].generation \in shaken'
    BY <1>2 DEF Token!Shake
  <2> QED BY <1>1, <1>2, <2>1, TokenJobGoes
<1>3. CASE jobs' = [jobs EXCEPT ![w].phase = "claiming", ![w].pair = account.pair] /\ UNCHANGED shaken
  <2>. PICK x : x = [jobs[w] EXCEPT !.phase = "claiming", !.pair = account.pair]
    OBVIOUS
  <2>1. jobs' = [jobs EXCEPT ![w] = x]
    BY <1>3
  <2>0. jobs[w] \in Token!Work /\ account.pair \in Token!Pairs
    BY DEF TokenIInv, Token!TypeOK, Token!Connection
  <2>2. x \in Token!Work
    BY <2>0 DEF Token!Work
  <2>3. /\ x.phase = "claiming" /\ x.generation = jobs[w].generation /\ x.pair = account.pair
        /\ x.aged = jobs[w].aged /\ x.lapsed = jobs[w].lapsed /\ x.lease = jobs[w].lease
    BY <2>0 DEF Token!Work
  <2>4. UNCHANGED <<account, claims, connected, Token!clock, Token!tiktok>>
    BY <1>1 DEF Token!Elsewhere
  <2>5. /\ x.generation <= connected /\ x.lease <= claims /\ x.lapsed <= lapsed /\ x.aged <= aged
        /\ x.pair <= issued
        /\ x.generation # 0
    BY <1>1, <2>3 DEF TokenIInv, TokenJobFits, TokenRowFits
  <2>6. shaken \subseteq shaken' /\ shaken' \subseteq Token!Generations
    BY <1>3 DEF TokenIInv, Token!TypeOK
  <2> QED BY <1>1, <2>1, <2>2, <2>3, <2>4, <2>5, <2>6, TokenJobMoves
<1> QED BY <1>2, <1>3 DEF Token!Stale

\* Who gives up waiting shakes the generation it is to shut.
LEMMA TokenWaitKeeps ==
    ASSUME TokenBounds, TokenIInv, NEW w \in Workers, Token!Wait(w)
    PROVE TokenIInv'
<1>1. /\ jobs[w].phase = "claiming" /\ UNCHANGED account /\ Token!Elsewhere
      /\ \/ Token!Goes(w, "reading") /\ shaken' = shaken
         \/ Token!Goes(w, "shutting") /\ Token!Shake(w)
  BY DEF Token!Wait
<1>2. Token!Shake(w) => jobs[w].generation \in shaken'
  BY DEF Token!Shake
<1> QED BY <1>1, <1>2, TokenJobGoes

\* A job whose call or write fails is to give its lease back.
LEMMA TokenJobFails ==
    ASSUME TokenBounds, TokenIInv, NEW w \in Workers, NEW error, error \in {"RETRYABLE", "REJECTED", "OTHER"},
           Token!Refreshing(w), Token!Fails(w, error), UNCHANGED account, Token!Elsewhere,
           shaken' = shaken \/ Token!Shake(w),
           error # "RETRYABLE" /\ Token!Same(w) => jobs[w].generation \in shaken',
           jobs[w].phase = "writing" => error # "RETRYABLE"
    PROVE TokenIInv'
<1>. PICK x : x = [jobs[w] EXCEPT !.phase = "releasing", !.error = error]
  OBVIOUS
<1>1. jobs' = [jobs EXCEPT ![w] = x]
  BY DEF Token!Fails
<1>0. jobs[w] \in Token!Work
  BY DEF TokenIInv, Token!TypeOK
<1>2. x \in Token!Work
  BY <1>0 DEF Token!Work
<1>3. /\ x.phase = "releasing" /\ x.generation = jobs[w].generation /\ x.error = error
      /\ x.aged = jobs[w].aged /\ x.lapsed = jobs[w].lapsed /\ x.lease = jobs[w].lease /\ x.pair = jobs[w].pair
  BY <1>0 DEF Token!Work
<1>4. UNCHANGED <<account, claims, connected, Token!clock, Token!tiktok>>
  BY DEF Token!Elsewhere
<1>5. /\ x.generation <= connected /\ x.lease <= claims /\ x.lapsed <= lapsed /\ x.aged <= aged
      /\ x.pair <= issued
      /\ x.generation # 0
  BY <1>3 DEF TokenIInv, TokenJobFits, Token!Refreshing
<1>6. shaken \subseteq shaken' /\ shaken' \subseteq Token!Generations
  BY <1>0 DEF TokenIInv, Token!TypeOK, Token!Shake, Token!Work
<1>7. x.generation = account.generation => x.error = "RETRYABLE" \/ x.generation \in shaken'
  BY <1>3 DEF Token!Same
<1>8. (jobs[w].phase = "writing" /\ Token!Leased(w)) => jobs[w].generation \in shaken'
  BY DEF Token!Leased
<1>9. TokenHolding(w)
  BY DEF TokenHolding, Token!Refreshing
<1> QED BY <1>1, <1>2, <1>3, <1>4, <1>5, <1>6, <1>7, <1>8, <1>9, TokenJobMoves

\* A refusal for good shakes the generation.
LEMMA TokenRefusedKeeps ==
    ASSUME TokenBounds, TokenIInv, NEW w \in Workers, Token!Refused(w)
    PROVE TokenIInv'
<1>1. jobs[w].phase = "calling" /\ UNCHANGED account /\ Token!Elsewhere
  BY DEF Token!Refused
<1>2. PICK error \in {"RETRYABLE", "REJECTED"} :
          Token!Fails(w, error) /\ (IF error = "REJECTED" THEN Token!Shake(w) ELSE UNCHANGED shaken)
  BY DEF Token!Refused
<1>3. error # "RETRYABLE" => jobs[w].generation \in shaken'
  BY <1>2 DEF Token!Shake
<1> QED BY <1>1, <1>2, <1>3, TokenJobFails DEF Token!Refreshing

\* Who has lost its lease was not alone in a quiet generation.
LEMMA TokenWriteNothingKeeps ==
    ASSUME TokenBounds, TokenIInv, NEW w \in Workers, Token!WriteNothing(w)
    PROVE TokenIInv'
<1>1. jobs[w].phase = "writing" /\ Token!Fails(w, "OTHER") /\ UNCHANGED account /\ Token!Elsewhere
  BY DEF Token!WriteNothing
<1>2. IF Token!Leased(w) THEN Token!Shake(w) ELSE shaken' = shaken
  BY DEF Token!WriteNothing
<1>3. Token!Same(w) => jobs[w].generation \in shaken'
  BY <1>1, <1>2 DEF TokenIInv, TokenQuiet, Token!Refreshing, Token!Shake
<1> QED BY <1>1, <1>2, <1>3, TokenJobFails DEF Token!Refreshing

-----------------------------------------------------------------------------
(* The row's own steps                                                      *)

\* A new generation has no jobs yet.
LEMMA TokenActivateKeeps ==
    ASSUME TokenBounds, TokenIInv, Token!Activate
    PROVE TokenIInv'
<1>. PICK row : row = [account EXCEPT !.status = "ACTIVE", !.generation = connected + 1, !.pair = issued + 1]
  OBVIOUS
<1>0. /\ account \in Token!Connection /\ connected \in Nat /\ issued \in Nat /\ aged \in Nat
      /\ lapsed \in Nat /\ claims \in Nat
      /\ account.pair \in Nat /\ account.generation \in Nat
      /\ newest \in [1..MaxGenerations -> Token!Pairs]
  BY TokenTyped DEF TokenIInv, Token!TypeOK, Token!Generations, Token!Pairs, Token!Leases, TokenBounds
<1>1. /\ account' = row /\ connected' = connected + 1 /\ issued' = issued + 1
      /\ newest' = [newest EXCEPT ![connected + 1] = issued + 1]
      /\ jobs' = jobs /\ claims' = claims /\ aged' = aged /\ lapsed' = lapsed /\ shaken' = shaken
      /\ connected + 1 \in Token!Generations /\ issued + 1 \in Token!Pairs
  BY <1>0 DEF Token!Activate, Token!GivesPair, Token!clock, Token!Generations, Token!Pairs, TokenBounds
<1>2. row \in Token!Connection /\ row.status = "ACTIVE" /\ row.generation = connected + 1 /\ row.pair = issued + 1
      /\ row.lease = account.lease
  BY <1>0, <1>1 DEF Token!Connection
<1>3. Token!TypeOK'
  BY <1>0, <1>1, <1>2 DEF TokenIInv, Token!TypeOK
<1>4. TokenRowFits'
  BY <1>0, <1>1, <1>2 DEF TokenIInv, TokenRowFits
<1>5. ASSUME NEW v \in Workers PROVE ~Token!Same(v)' /\ jobs[v].generation <= connected
  BY <1>0, <1>1, <1>2, TokenTyped DEF TokenIInv, TokenJobFits, Token!Same, Token!Generations, TokenBounds
<1>6. ASSUME NEW v \in Workers PROVE TokenJobFits(v)'
  <2>1. TokenJobFits(v)
    BY DEF TokenIInv
  <2>2. jobs[v].generation \in Nat /\ jobs[v].pair \in Nat
    BY TokenTyped DEF TokenIInv, Token!Generations, Token!Pairs, TokenBounds
  <2>3. jobs[v].generation <= connected + 1 /\ jobs[v].pair <= issued + 1
    BY <1>0, <2>1, <2>2 DEF TokenJobFits
  <2>4. ~Token!Same(v)' /\ ~Token!Leased(v)'
    BY <1>5 DEF Token!Leased
  <2> QED BY <1>1, <2>1, <2>3, <2>4 DEF TokenJobFits, TokenHolding
<1>7. TokenLeasesDiffer'
  BY <1>1 DEF TokenIInv, TokenLeasesDiffer, TokenHolding
<1>8. ASSUME NEW v \in Workers PROVE TokenQuiet(v)'
  BY <1>5 DEF TokenQuiet
<1>9. Token!LastPairIsKept'
  <2>1. newest'[connected + 1] = issued + 1
    BY <1>0, <1>1 DEF Token!Generations, TokenBounds
  <2> QED BY <1>1, <1>2, <2>1 DEF Token!LastPairIsKept
<1> QED BY <1>3, <1>4, <1>6, <1>7, <1>8, <1>9 DEF TokenIInv

\* The row is shut, or given up by who has its lease.
LEMMA TokenRowIsShut ==
    ASSUME TokenBounds, TokenIInv, NEW row \in Token!Connection, account' = row,
           UNCHANGED <<jobs, claims, connected, aged, lapsed, issued, newest>>,
           shaken \subseteq shaken', shaken' \subseteq Token!Generations,
           row.generation \in {0, account.generation},
           row.generation = account.generation => row.pair = account.pair,
           row.generation = 0 => row.pair = 0,
           row.status = "ACTIVE" => row.generation # 0,
           row.lease \in {0, account.lease},
           (row.generation # 0 /\ row.generation \notin shaken') =>
                /\ row.status = "ACTIVE"
                /\ row.lease = account.lease \/ \A v \in Workers : ~(Token!Refreshing(v) /\ Token!Same(v))
    PROVE TokenIInv'
<1>0. /\ account \in Token!Connection /\ connected \in Nat /\ issued \in Nat /\ aged \in Nat
      /\ lapsed \in Nat /\ claims \in Nat
      /\ account.pair \in Nat /\ account.generation \in Nat /\ account.lease \in Nat
  BY TokenTyped DEF TokenIInv, Token!TypeOK, Token!Generations, Token!Pairs, Token!Leases, TokenBounds
<1>3. Token!TypeOK'
  BY DEF TokenIInv, Token!TypeOK
<1>4. TokenRowFits'
  BY <1>0 DEF TokenIInv, TokenRowFits
<1>5. ASSUME NEW v \in Workers, jobs[v].phase # "idle", Token!Same(v)' PROVE Token!Same(v) /\ row.generation = account.generation
  BY <1>0, <1>5 DEF TokenIInv, TokenJobFits, Token!Same
<1>6. ASSUME NEW v \in Workers PROVE TokenJobFits(v)'
  <2>1. TokenHolding(v)' <=> TokenHolding(v)
    BY DEF TokenHolding
  <2>2. ASSUME jobs[v].phase \in {"calling", "writing"}, Token!Leased(v)' PROVE Token!Leased(v)
    BY <2>2, <1>5 DEF Token!Leased, TokenIInv, TokenJobFits, TokenHolding
  <2> QED BY <2>1, <2>2, <1>5 DEF TokenIInv, TokenJobFits, Token!Leased
<1>7. TokenLeasesDiffer'
  BY DEF TokenIInv, TokenLeasesDiffer, TokenHolding
<1>8. ASSUME NEW v \in Workers PROVE TokenQuiet(v)'
  <2>1. CASE jobs[v].phase = "idle"
    BY <2>1 DEF TokenQuiet, Token!Refreshing
  <2>2. CASE jobs[v].phase # "idle" /\ Token!Same(v)' /\ jobs[v].generation \notin shaken'
    <3>1. Token!Same(v) /\ row.generation = account.generation /\ jobs[v].generation \notin shaken
      BY <2>2, <1>5
    <3>2. row.generation # 0 /\ row.generation \notin shaken'
      BY <2>2, <3>1 DEF TokenIInv, TokenJobFits, Token!Same
    <3> QED BY <3>1, <3>2 DEF TokenIInv, TokenQuiet, Token!Refreshing, Token!Leased, Token!Same
  <2>3. CASE ~(Token!Same(v)' /\ jobs[v].generation \notin shaken')
    BY <2>3 DEF TokenQuiet
  <2> QED BY <2>1, <2>2, <2>3
<1>9. Token!LastPairIsKept'
  <2>1. CASE row.generation # 0 /\ row.generation \notin shaken'
    <3>1. row.generation = account.generation /\ row.pair = account.pair /\ row.status = "ACTIVE"
      BY <2>1
    <3>2. CASE account.pair = newest[account.generation]
      BY <3>1, <3>2, <2>1 DEF Token!LastPairIsKept
    <3>3. ASSUME NEW v \in Workers, jobs[v].phase = "writing", Token!Leased(v),
                 jobs[v].pair = newest[account.generation]
          PROVE Token!LastPairIsKept'
      <4>1. row.lease = account.lease
        BY <2>1, <3>3 DEF Token!Refreshing, Token!Leased
      <4>2. jobs'[v].phase = "writing" /\ Token!Leased(v)' /\ jobs'[v].pair = newest'[account'.generation]
        BY <4>1, <3>1, <3>3 DEF Token!Leased, Token!Same
      <4> QED BY <4>2, <3>1 DEF Token!LastPairIsKept
    <3> QED BY <2>1, <3>1, <3>2, <3>3 DEF TokenIInv, Token!LastPairIsKept
  <2>2. CASE ~(row.generation # 0 /\ row.generation \notin shaken')
    BY <2>2 DEF Token!LastPairIsKept
  <2> QED BY <2>1, <2>2
<1> QED BY <1>3, <1>4, <1>6, <1>7, <1>8, <1>9 DEF TokenIInv

\* A disconnection ends the generation.
LEMMA TokenDisconnectKeeps ==
    ASSUME TokenBounds, TokenIInv, Token!Disconnect
    PROVE TokenIInv'
<1>. PICK row : row = [account EXCEPT !.status = "DISCONNECTED", !.generation = 0, !.pair = 0]
  OBVIOUS
<1>0. account \in Token!Connection
  BY DEF TokenIInv, Token!TypeOK
<1>1. row \in Token!Connection
  <2>1. 0 \in Token!Generations /\ 0 \in Token!Pairs
    BY DEF Token!Generations, Token!Pairs, TokenBounds
  <2> QED BY <1>0, <2>1 DEF Token!Connection
<1>2. /\ row.status = "DISCONNECTED" /\ row.generation = 0 /\ row.pair = 0 /\ row.lease = account.lease
  BY <1>0 DEF Token!Connection
<1>3. account.generation # 0 /\ account' = row /\ UNCHANGED <<jobs, claims, connected, aged, lapsed, issued, newest, shaken>>
  BY DEF Token!Disconnect, Token!clock, Token!tiktok
<1>4. shaken \subseteq Token!Generations
  BY DEF TokenIInv, Token!TypeOK
<1> QED BY <1>1, <1>2, <1>3, <1>4, TokenRowIsShut

\* An expired token shakes the generation.
LEMMA TokenExpireTokenKeeps ==
    ASSUME TokenBounds, TokenIInv, Token!ExpireToken
    PROVE TokenIInv'
<1>. PICK row : row = [account EXCEPT !.status = "REAUTH_REQUIRED"]
  OBVIOUS
<1>0. account \in Token!Connection /\ account.status = "ACTIVE"
  BY DEF TokenIInv, Token!TypeOK, Token!ExpireToken
<1>1. row \in Token!Connection
  BY <1>0 DEF Token!Connection
<1>2. /\ row.status = "REAUTH_REQUIRED" /\ row.generation = account.generation
      /\ row.pair = account.pair /\ row.lease = account.lease
  BY <1>0 DEF Token!Connection
<1>3. /\ account' = row /\ UNCHANGED <<jobs, claims, connected, aged, lapsed, issued, newest>>
      /\ shaken' = shaken \cup {account.generation}
  BY DEF Token!ExpireToken, Token!clock, Token!tiktok
<1>4. shaken \subseteq Token!Generations /\ account.generation \in Token!Generations
  BY <1>0 DEF TokenIInv, Token!TypeOK, Token!Connection
<1>5. account.generation # 0
  BY <1>0 DEF TokenIInv, TokenRowFits
<1>6. shaken \subseteq shaken' /\ shaken' \subseteq Token!Generations /\ row.generation \in shaken'
  BY <1>2, <1>3, <1>4
<1> QED BY <1>1, <1>2, <1>3, <1>5, <1>6, TokenRowIsShut

\* Of two jobs with one lease that refresh, or give it back, there is none.
LEMMA TokenLeaseIsOnes ==
    ASSUME TokenBounds, TokenIInv, NEW w \in Workers, TokenHolding(w), Token!Leased(w)
    PROVE \A v \in Workers : (v # w /\ Token!Refreshing(v) /\ Token!Same(v)) => account.generation \in shaken
<1> SUFFICES ASSUME NEW v \in Workers, v # w, Token!Refreshing(v), Token!Same(v), account.generation \notin shaken
             PROVE FALSE
  OBVIOUS
<1>1. Token!Leased(v)
  BY DEF TokenIInv, TokenQuiet, Token!Same
<1>2. TokenHolding(v)
  BY DEF TokenHolding, Token!Refreshing
<1> QED BY <1>1, <1>2 DEF TokenIInv, TokenLeasesDiffer, Token!Leased

\* A job that does not refresh goes on, and may shut the row or give it up.
LEMMA TokenJobLeavesRow ==
    ASSUME TokenBounds, TokenIInv, NEW w \in Workers, NEW x \in Token!Work, NEW row \in Token!Connection,
           jobs' = [jobs EXCEPT ![w] = x], account' = row,
           UNCHANGED <<claims, connected, Token!clock, Token!tiktok, shaken>>,
           jobs[w].phase # "idle", ~Token!Refreshing(w),
           x.phase \in {"idle", "shutting"},
           x.generation \in {0, jobs[w].generation}, x.phase # "idle" => x.generation = jobs[w].generation,
           x.lease <= claims, x.lapsed <= lapsed, x.aged <= aged, x.pair <= issued,
           (x.phase = "shutting" /\ Token!Same(w)) => jobs[w].generation \in shaken,
           row.generation = account.generation, row.pair = account.pair,
           row.lease \in {0, account.lease},
           row.status = "ACTIVE" => account.status = "ACTIVE",
           account.generation \notin shaken => row.status = account.status,
           row.lease # account.lease =>
                \A v \in Workers : (v # w /\ Token!Refreshing(v) /\ Token!Same(v)) => account.generation \in shaken
    PROVE TokenIInv'
<1>0. /\ account \in Token!Connection /\ connected \in Nat /\ issued \in Nat /\ aged \in Nat
      /\ lapsed \in Nat /\ claims \in Nat
      /\ account.pair \in Nat /\ account.generation \in Nat /\ account.lease \in Nat
      /\ jobs \in [Workers -> Token!Work]
  BY TokenTyped DEF TokenIInv, Token!TypeOK, Token!Generations, Token!Pairs, Token!Leases, TokenBounds
<1>2. /\ jobs'[w] = x
      /\ \A v \in Workers : v # w => jobs'[v] = jobs[v]
  BY <1>0
<1>3. Token!TypeOK'
  <2>1. jobs' \in [Workers -> Token!Work]
    BY <1>0
  <2> QED BY <2>1 DEF TokenIInv, Token!TypeOK, Token!clock, Token!tiktok
<1>4. TokenRowFits'
  BY <1>0 DEF TokenIInv, TokenRowFits, Token!clock, Token!tiktok
<1>5. ASSUME NEW v \in Workers PROVE TokenJobFits(v)'
  <2>1. CASE v = w
    <3>1. jobs[w].generation <= connected /\ jobs[w].generation # 0
      BY DEF TokenIInv, TokenJobFits
    <3> QED BY <2>1, <3>1, <1>0, <1>2 DEF TokenJobFits, TokenHolding, Token!clock, Token!tiktok
  <2>2. CASE v # w
    <3>1. jobs'[v] = jobs[v] /\ (Token!Same(v)' <=> Token!Same(v))
      BY <2>2, <1>2 DEF Token!Same
    <3>2. TokenHolding(v) => (Token!Leased(v)' => Token!Leased(v))
      BY <3>1 DEF TokenIInv, TokenJobFits, Token!Leased
    <3> QED BY <3>1, <3>2 DEF TokenIInv, TokenJobFits, TokenHolding, Token!clock, Token!tiktok
  <2> QED BY <2>1, <2>2
<1>6. TokenLeasesDiffer'
  <2>1. ~(x.phase \in {"calling", "writing", "releasing"})
    OBVIOUS
  <2> QED BY <1>2, <2>1 DEF TokenIInv, TokenLeasesDiffer, TokenHolding
<1>7. ASSUME NEW v \in Workers PROVE TokenQuiet(v)'
  <2>1. CASE v = w
    BY <2>1, <1>2 DEF TokenIInv, TokenQuiet, TokenJobFits, Token!Same, Token!Leased, Token!Refreshing,
       Token!clock, Token!tiktok
  <2>2. CASE v # w
    <3>1. jobs'[v] = jobs[v] /\ (Token!Same(v)' <=> Token!Same(v)) /\ (Token!Refreshing(v)' <=> Token!Refreshing(v))
      BY <2>2, <1>2 DEF Token!Same, Token!Refreshing
    <3>2. (Token!Same(v) /\ jobs[v].generation \notin shaken /\ Token!Refreshing(v) /\ Token!Leased(v)) => Token!Leased(v)'
      BY <2>2, <3>1 DEF Token!Leased, Token!Same
    <3> QED BY <3>1, <3>2 DEF TokenIInv, TokenQuiet, Token!clock, Token!tiktok
  <2> QED BY <2>1, <2>2
<1>8. Token!LastPairIsKept'
  <2>1. CASE account.generation # 0 /\ account.generation \notin shaken
    <3>2. CASE account.pair = newest[account.generation]
      BY <3>2, <2>1 DEF TokenIInv, Token!LastPairIsKept, Token!tiktok
    <3>3. ASSUME NEW v \in Workers, jobs[v].phase = "writing", Token!Leased(v),
                 jobs[v].pair = newest[account.generation]
          PROVE Token!LastPairIsKept'
      <4>1. v # w /\ row.lease = account.lease
        BY <2>1, <3>3 DEF Token!Refreshing, Token!Leased
      <4>2. jobs'[v].phase = "writing" /\ Token!Leased(v)' /\ jobs'[v].pair = newest'[account'.generation]
        BY <4>1, <1>2, <3>3 DEF Token!Leased, Token!Same, Token!tiktok
      <4> QED BY <2>1, <4>2 DEF TokenIInv, Token!LastPairIsKept, Token!tiktok
    <3> QED BY <2>1, <3>2, <3>3 DEF TokenIInv, Token!LastPairIsKept
  <2>2. CASE ~(account.generation # 0 /\ account.generation \notin shaken)
    BY <2>2 DEF Token!LastPairIsKept
  <2> QED BY <2>1, <2>2
<1> QED BY <1>3, <1>4, <1>5, <1>6, <1>7, <1>8 DEF TokenIInv

\* The job's value after it stops, or goes on to have the connection shut.
LEMMA TokenLeaves ==
    ASSUME TokenBounds, TokenIInv, NEW w \in Workers,
           Token!Stops(w) \/ Token!Goes(w, "shutting")
    PROVE \E x \in Token!Work :
            /\ jobs' = [jobs EXCEPT ![w] = x]
            /\ x.phase \in {"idle", "shutting"} /\ (Token!Stops(w) \/ x.phase = "shutting")
            /\ x = Token!Idle \/ x.phase = "shutting"
            /\ x.generation \in {0, jobs[w].generation}
            /\ x.phase # "idle" => x.generation = jobs[w].generation
            /\ x.lease <= claims /\ x.lapsed <= lapsed /\ x.aged <= aged /\ x.pair <= issued
<1>0. jobs[w] \in Token!Work /\ 0 <= claims /\ 0 <= lapsed /\ 0 <= aged /\ 0 <= issued
  BY DEF TokenIInv, Token!TypeOK, Token!Leases, Token!Pairs, TokenBounds
<1>1. CASE Token!Stops(w)
  <2>1. Token!Idle \in Token!Work
    BY TokenIdleFits DEF Token!Generations, Token!Pairs, Token!Leases, TokenBounds
  <2>2. Token!Idle.phase = "idle" /\ Token!Idle.generation = 0 /\ Token!Idle.lease = 0 /\ Token!Idle.lapsed = 0 /\ Token!Idle.aged = 0 /\ Token!Idle.pair = 0
    BY DEF Token!Idle
  <2> QED BY <1>0, <1>1, <2>1, <2>2 DEF Token!Stops
<1>2. CASE Token!Goes(w, "shutting")
  <2>. PICK x : x = [jobs[w] EXCEPT !.phase = "shutting"]
    OBVIOUS
  <2>1. jobs' = [jobs EXCEPT ![w] = x]
    BY <1>2 DEF Token!Goes
  <2>2. /\ x \in Token!Work /\ x.phase = "shutting" /\ x.generation = jobs[w].generation
        /\ x.lease = jobs[w].lease /\ x.lapsed = jobs[w].lapsed /\ x.aged = jobs[w].aged
        /\ x.pair = jobs[w].pair
    BY <1>0 DEF Token!Work
  <2>3. jobs[w].lease <= claims /\ jobs[w].lapsed <= lapsed /\ jobs[w].aged <= aged /\ jobs[w].pair <= issued
    BY DEF TokenIInv, TokenJobFits
  <2> QED BY <2>1, <2>2, <2>3
<1> QED BY <1>1, <1>2

\* What shutting the row, or giving it up, makes of it.
LEMMA TokenRowShut ==
    ASSUME TokenBounds, account \in Token!Connection, NEW status \in {"REAUTH_REQUIRED", account.status},
           NEW row, row = [account EXCEPT !.status = status, !.lease = 0]
    PROVE /\ row \in Token!Connection /\ row.status = status /\ row.generation = account.generation
          /\ row.pair = account.pair /\ row.lease = 0
<1>1. 0 \in Token!Leases
  BY DEF Token!Leases, TokenBounds
<1>2. status \in {"ACTIVE", "REAUTH_REQUIRED", "DISCONNECTED"}
  BY DEF Token!Connection
<1> QED BY <1>1, <1>2 DEF Token!Connection

\* Who shuts the row by its generation alone knows that it is shaken.
LEMMA TokenShuttingKeeps ==
    ASSUME TokenBounds, TokenIInv, NEW w \in Workers, jobs[w].phase \in {"marking", "shutting"},
           Token!Stops(w) \/ Token!Goes(w, "shutting"),
           \/ Token!Same(w) /\ account' = [account EXCEPT !.status = "REAUTH_REQUIRED", !.lease = 0]
           \/ UNCHANGED account,
           UNCHANGED shaken, Token!Elsewhere
    PROVE TokenIInv'
<1>0. account \in Token!Connection
  BY DEF TokenIInv, Token!TypeOK
<1>1. PICK x \in Token!Work :
            /\ jobs' = [jobs EXCEPT ![w] = x]
            /\ x.phase \in {"idle", "shutting"}
            /\ x.generation \in {0, jobs[w].generation}
            /\ x.phase # "idle" => x.generation = jobs[w].generation
            /\ x.lease <= claims /\ x.lapsed <= lapsed /\ x.aged <= aged /\ x.pair <= issued
  BY TokenLeaves
<1>2. /\ Token!Same(w) => account.generation \in shaken
      /\ Token!Same(w) => jobs[w].generation \in shaken
      /\ jobs[w].phase # "idle" /\ ~Token!Refreshing(w)
  BY DEF TokenIInv, TokenQuiet, Token!Same, Token!Refreshing
<1>3. UNCHANGED <<claims, connected, Token!clock, Token!tiktok, shaken>>
  BY DEF Token!Elsewhere
<1>4. CASE Token!Same(w) /\ account' = [account EXCEPT !.status = "REAUTH_REQUIRED", !.lease = 0]
  <2>. PICK row : row = [account EXCEPT !.status = "REAUTH_REQUIRED", !.lease = 0]
    OBVIOUS
  <2>1. /\ row \in Token!Connection /\ row.status = "REAUTH_REQUIRED" /\ row.generation = account.generation
        /\ row.pair = account.pair /\ row.lease = 0
    BY <1>0, TokenRowShut
  <2>2. account' = row
    BY <1>4
  <2> QED BY <1>1, <1>2, <1>3, <1>4, <2>1, <2>2, TokenJobLeavesRow
<1>5. CASE UNCHANGED account
  BY <1>0, <1>1, <1>2, <1>3, <1>5, TokenJobLeavesRow
<1> QED BY <1>4, <1>5

\* The refresh token has expired.
LEMMA TokenMarkReauthorizationKeeps ==
    ASSUME TokenBounds, TokenIInv, NEW w \in Workers, Token!MarkReauthorization(w)
    PROVE TokenIInv'
BY TokenShuttingKeeps DEF Token!MarkReauthorization

\* The reply shuts the connection.
LEMMA TokenMarkReconnectRequiredKeeps ==
    ASSUME TokenBounds, TokenIInv, NEW w \in Workers, Token!MarkReconnectRequired(w)
    PROVE TokenIInv'
BY TokenShuttingKeeps DEF Token!MarkReconnectRequired

\* A lease is given back by the one job that has it.
LEMMA TokenReleaseKeeps ==
    ASSUME TokenBounds, TokenIInv, NEW w \in Workers, Token!Release(w)
    PROVE TokenIInv'
<1>0. account \in Token!Connection
  BY DEF TokenIInv, Token!TypeOK
<1>. PICK status : status = IF jobs[w].error = "REJECTED" THEN "REAUTH_REQUIRED" ELSE account.status
  OBVIOUS
<1>1. PICK x \in Token!Work :
            /\ jobs' = [jobs EXCEPT ![w] = x]
            /\ x.phase \in {"idle", "shutting"} /\ (Token!Stops(w) \/ x.phase = "shutting")
            /\ x = Token!Idle \/ x.phase = "shutting"
            /\ x.generation \in {0, jobs[w].generation}
            /\ x.phase # "idle" => x.generation = jobs[w].generation
            /\ x.lease <= claims /\ x.lapsed <= lapsed /\ x.aged <= aged /\ x.pair <= issued
  BY TokenLeaves DEF Token!Release
<1>2. jobs[w].phase = "releasing" /\ jobs[w].phase # "idle" /\ ~Token!Refreshing(w) /\ TokenHolding(w)
  BY DEF Token!Release, Token!Refreshing, TokenHolding
<1>3. UNCHANGED <<claims, connected, Token!clock, Token!tiktok, shaken>>
  BY DEF Token!Release, Token!Elsewhere
<1>6. (Token!Same(w) /\ jobs[w].generation \notin shaken) => jobs[w].error = "RETRYABLE"
  BY <1>2 DEF TokenIInv, TokenQuiet
<1>7. (x.phase = "shutting" /\ Token!Same(w)) => jobs[w].generation \in shaken
  <2>1. SUFFICES ASSUME jobs[w].error = "RETRYABLE" PROVE x.phase # "shutting"
    BY <1>6
  <2>2. jobs' = [jobs EXCEPT ![w] = Token!Idle] /\ jobs \in [Workers -> Token!Work]
    BY <2>1 DEF Token!Release, Token!Stops, TokenIInv, Token!TypeOK
  <2>3. x = Token!Idle
    BY <2>2, <1>1
  <2> QED BY <2>3 DEF Token!Idle
<1>4. CASE Token!Leased(w) /\ account' = [account EXCEPT !.lease = 0, !.status = status]
  <2>. PICK row : row = [account EXCEPT !.status = status, !.lease = 0]
    OBVIOUS
  <2>1. /\ row \in Token!Connection /\ row.status = status /\ row.generation = account.generation
        /\ row.pair = account.pair /\ row.lease = 0
    BY <1>0, TokenRowShut
  <2>2. account' = row
    BY <1>4, <1>0, <2>1 DEF Token!Connection
  <2>3. \A v \in Workers : (v # w /\ Token!Refreshing(v) /\ Token!Same(v)) => account.generation \in shaken
    BY <1>2, <1>4, TokenLeaseIsOnes
  <2>4. account.generation \notin shaken => row.status = account.status
    BY <1>4, <1>6, <2>1 DEF Token!Leased, Token!Same
  <2>5. row.status = "ACTIVE" => account.status = "ACTIVE"
    BY <2>1
  <2> QED BY <1>1, <1>2, <1>3, <1>7, <2>1, <2>2, <2>3, <2>4, <2>5, TokenJobLeavesRow
<1>5. CASE UNCHANGED account
  BY <1>0, <1>1, <1>2, <1>3, <1>5, <1>7, TokenJobLeavesRow
<1> QED BY <1>4, <1>5 DEF Token!Release

-----------------------------------------------------------------------------
(* The clock                                                                *)

\* The row's pair ages; the one a refresh is to write does not.
LEMMA TokenAgeKeeps ==
    ASSUME TokenBounds, TokenIInv, Token!Age
    PROVE TokenIInv'
<1>0. /\ account.pair \in Token!Pairs /\ aged \in Nat /\ account.pair \in Nat /\ issued \in Nat
      /\ aged' = account.pair /\ account.pair > aged
      /\ UNCHANGED <<account, jobs, claims, connected, lapsed, issued, newest, shaken>>
  BY TokenTyped DEF TokenIInv, Token!TypeOK, Token!Pairs, TokenBounds, Token!Age, Token!tiktok
<1>1. Token!TypeOK'
  BY <1>0 DEF TokenIInv, Token!TypeOK
<1>2. TokenRowFits'
  BY <1>0 DEF TokenIInv, TokenRowFits
<1>3. ASSUME NEW v \in Workers PROVE TokenJobFits(v)'
  <2>1. jobs[v].aged \in Nat /\ jobs[v].pair \in Nat
    BY TokenTyped DEF TokenIInv, Token!Pairs, TokenBounds
  <2> QED BY <1>0, <2>1 DEF TokenIInv, TokenJobFits, TokenHolding, Token!Same, Token!Leased
<1>4. TokenLeasesDiffer' /\ \A v \in Workers : TokenQuiet(v)'
  BY <1>0 DEF TokenIInv, TokenLeasesDiffer, TokenQuiet, TokenHolding, Token!Same, Token!Leased, Token!Refreshing
<1>5. Token!LastPairIsKept'
  BY <1>0 DEF TokenIInv, Token!LastPairIsKept, Token!Same, Token!Leased
<1> QED BY <1>1, <1>2, <1>3, <1>4, <1>5 DEF TokenIInv

\* A lease that lapses under a refresh shakes its generation.
LEMMA TokenLapseKeeps ==
    ASSUME TokenBounds, TokenIInv, Token!Lapse
    PROVE TokenIInv'
<1>. PICK hit : hit = {v \in Workers : Token!Refreshing(v) /\ jobs[v].lease = account.lease}
  OBVIOUS
<1>0. /\ account.lease \in Token!Leases /\ lapsed \in Nat /\ account.lease \in Nat /\ claims \in Nat
      /\ lapsed' = account.lease /\ account.lease > lapsed
      /\ shaken' = shaken \cup {jobs[v].generation : v \in hit}
      /\ UNCHANGED <<account, jobs, claims, connected, aged, issued, newest>>
  BY TokenTyped DEF TokenIInv, Token!TypeOK, Token!Leases, TokenBounds, Token!Lapse, Token!tiktok
<1>1. Token!TypeOK'
  <2>1. shaken' \subseteq Token!Generations
    BY <1>0, TokenTyped DEF TokenIInv, Token!TypeOK
  <2> QED BY <1>0, <2>1 DEF TokenIInv, Token!TypeOK
<1>2. TokenRowFits'
  BY <1>0 DEF TokenIInv, TokenRowFits
<1>3. ASSUME NEW v \in Workers PROVE TokenJobFits(v)'
  <2>1. jobs[v].lapsed \in Nat
    BY TokenTyped DEF TokenIInv, Token!Leases, TokenBounds
  <2> QED BY <1>0, <2>1 DEF TokenIInv, TokenJobFits, TokenHolding, Token!Same, Token!Leased
<1>4. TokenLeasesDiffer'
  BY <1>0 DEF TokenIInv, TokenLeasesDiffer, TokenHolding
<1>5. ASSUME NEW v \in Workers PROVE TokenQuiet(v)'
  <2>1. v \in hit => jobs[v].generation \in shaken'
    BY <1>0
  <2>2. shaken \subseteq shaken'
    BY <1>0
  <2>3. Token!Refreshing(v) /\ Token!Leased(v) => v \in hit
    BY DEF Token!Leased
  <2>4. Token!Same(v)' = Token!Same(v) /\ Token!Leased(v)' = Token!Leased(v) /\ Token!Refreshing(v)' = Token!Refreshing(v)
    BY <1>0 DEF Token!Same, Token!Leased, Token!Refreshing
  <2> QED BY <1>0, <2>1, <2>2, <2>3, <2>4 DEF TokenIInv, TokenQuiet
<1>6. Token!LastPairIsKept'
  BY <1>0 DEF TokenIInv, Token!LastPairIsKept, Token!Same, Token!Leased
<1> QED BY <1>1, <1>2, <1>3, <1>4, <1>5, <1>6 DEF TokenIInv

-----------------------------------------------------------------------------
(* A refresh                                                                *)

\* In a quiet generation only a row without a live lease is claimed.
LEMMA TokenClaimKeeps ==
    ASSUME TokenBounds, TokenIInv, NEW w \in Workers, Token!Claim(w)
    PROVE TokenIInv'
<1>. PICK x : x = [jobs[w] EXCEPT !.phase = "calling", !.lease = claims + 1]
  OBVIOUS
<1>. PICK row : row = [account EXCEPT !.lease = claims + 1]
  OBVIOUS
<1>0. /\ account \in Token!Connection /\ connected \in Nat /\ issued \in Nat /\ aged \in Nat
      /\ lapsed \in Nat /\ claims \in Nat
      /\ account.pair \in Nat /\ account.generation \in Nat /\ account.lease \in Nat
      /\ jobs \in [Workers -> Token!Work] /\ jobs[w] \in Token!Work /\ jobs[w].lapsed \in Nat
  BY TokenTyped DEF TokenIInv, Token!TypeOK, Token!Generations, Token!Pairs, Token!Leases, TokenBounds
<1>1. /\ jobs' = [jobs EXCEPT ![w] = x] /\ account' = row /\ claims' = claims + 1 /\ claims + 1 \in Token!Leases
      /\ UNCHANGED <<connected, aged, lapsed, issued, newest, shaken>>
      /\ jobs[w].phase = "claiming" /\ Token!Same(w) /\ account.pair <= jobs[w].aged
      /\ account.lease = 0 \/ account.lease <= jobs[w].lapsed
  <2>1. claims + 1 \in Token!Leases /\ claims' = claims + 1
    BY <1>0 DEF Token!Claim, Token!Leases, TokenBounds
  <2>2. account.lease = 0 \/ account.lease <= jobs[w].lapsed
    BY <1>0 DEF Token!Claim, Token!Claimable
  <2> QED BY <2>1, <2>2 DEF Token!Claim, Token!clock, Token!tiktok, Token!Claimable, Token!MayRead
<1>2. /\ row \in Token!Connection /\ row.generation = account.generation /\ row.pair = account.pair
      /\ row.status = account.status /\ row.lease = claims + 1
  BY <1>0, <1>1 DEF Token!Connection
<1>3. /\ x \in Token!Work /\ x.phase = "calling" /\ x.generation = jobs[w].generation /\ x.aged = jobs[w].aged
      /\ x.lapsed = jobs[w].lapsed /\ x.pair = jobs[w].pair /\ x.lease = claims + 1
  BY <1>0, <1>1 DEF Token!Work
<1>4. /\ jobs'[w] = x
      /\ \A v \in Workers : v # w => jobs'[v] = jobs[v]
  BY <1>0, <1>1
<1>5. Token!TypeOK'
  <2>1. jobs' \in [Workers -> Token!Work]
    BY <1>0, <1>1, <1>3
  <2> QED BY <1>1, <1>2, <2>1 DEF TokenIInv, Token!TypeOK
<1>6. TokenRowFits'
  BY <1>0, <1>1, <1>2 DEF TokenIInv, TokenRowFits
<1>7. ASSUME NEW v \in Workers, v # w PROVE ~Token!Leased(v)' /\ jobs[v].lease \in Nat
  <2>1. jobs[v].lease \in Nat /\ jobs[v].lease <= claims
    BY TokenTyped DEF TokenIInv, TokenJobFits, Token!Leases, TokenBounds
  <2> QED BY <2>1, <1>0, <1>1, <1>2, <1>4, <1>7 DEF Token!Leased
<1>8. ASSUME NEW v \in Workers PROVE TokenJobFits(v)'
  <2>1. CASE v = w
    <3>1. jobs[w].pair = account.pair
      BY <1>1 DEF TokenIInv, TokenJobFits
    <3> QED BY <2>1, <3>1, <1>0, <1>1, <1>2, <1>3, <1>4 DEF TokenIInv, TokenJobFits, TokenHolding
  <2>2. CASE v # w
    BY <2>2, <1>0, <1>1, <1>2, <1>4, <1>7 DEF TokenIInv, TokenJobFits, TokenHolding, Token!Same
  <2> QED BY <2>1, <2>2
<1>9. TokenLeasesDiffer'
  <2>1. ASSUME NEW v \in Workers PROVE jobs[v].lease # claims + 1
    <3>1. jobs[v].lease \in Nat /\ jobs[v].lease <= claims
      BY TokenTyped DEF TokenIInv, TokenJobFits, Token!Leases, TokenBounds
    <3> QED BY <3>1, <1>0
  <2>2. \A v \in Workers : v # w => (TokenHolding(v)' <=> TokenHolding(v)) /\ jobs'[v].lease # claims + 1
    BY <2>1, <1>4 DEF TokenHolding
  <2>3. jobs'[w].lease = claims + 1
    BY <1>3, <1>4
  <2> QED BY <2>2, <2>3, <1>4 DEF TokenIInv, TokenLeasesDiffer
<1>10. ASSUME NEW v \in Workers, v # w, Token!Refreshing(v), Token!Same(v) PROVE jobs[v].generation \in shaken
  <2> SUFFICES ASSUME jobs[v].generation \notin shaken PROVE FALSE
    OBVIOUS
  <2>1. Token!Leased(v) /\ jobs[v].lease > lapsed /\ jobs[v].lease # 0
    BY <1>10 DEF TokenIInv, TokenQuiet, TokenJobFits, TokenHolding, Token!Refreshing
  <2>2. jobs[w].lapsed <= lapsed
    BY DEF TokenIInv, TokenJobFits
  <2> QED BY <2>1, <2>2, <1>0, <1>1 DEF Token!Leased
<1>11. ASSUME NEW v \in Workers PROVE TokenQuiet(v)'
  <2>1. CASE v = w
    <3>1. jobs'[w].lease > lapsed
      BY <1>0, <1>3, <1>4 DEF TokenIInv, TokenRowFits
    <3> QED BY <2>1, <3>1, <1>1, <1>2, <1>3, <1>4
       DEF TokenIInv, TokenQuiet, Token!Same, Token!Leased, Token!Refreshing
  <2>2. CASE v # w
    BY <2>2, <1>1, <1>2, <1>4, <1>10 DEF TokenIInv, TokenQuiet, Token!Same, Token!Refreshing
  <2> QED BY <2>1, <2>2
<1>12. Token!LastPairIsKept'
  BY <1>1, <1>2, <1>10 DEF TokenIInv, Token!LastPairIsKept, Token!Same, Token!Leased, Token!Refreshing
<1> QED BY <1>5, <1>6, <1>8, <1>9, <1>11, <1>12 DEF TokenIInv

\* The answers: the last pair of the generation is the one it has.
LEMMA TokenAnsweredKeeps ==
    ASSUME TokenBounds, TokenIInv, NEW w \in Workers, NEW x \in Token!Work,
           jobs[w].phase = "calling", Token!GivesPair(jobs[w].generation),
           jobs' = [jobs EXCEPT ![w] = x],
           x.generation = jobs[w].generation, x.aged = jobs[w].aged,
           x.lapsed = jobs[w].lapsed, x.lease = jobs[w].lease,
           \/ x.phase = "writing" /\ x.pair = issued + 1 /\ shaken' = shaken
           \/ x.phase = "releasing" /\ x.pair = jobs[w].pair /\ Token!Shake(w),
           UNCHANGED <<account, claims, connected, Token!clock>>
    PROVE TokenIInv'
<1>0. /\ account \in Token!Connection /\ connected \in Nat /\ issued \in Nat /\ aged \in Nat
      /\ lapsed \in Nat /\ claims \in Nat
      /\ account.pair \in Nat /\ account.generation \in Nat /\ account.lease \in Nat
      /\ jobs \in [Workers -> Token!Work] /\ jobs[w] \in Token!Work /\ jobs[w].generation \in Token!Generations
      /\ newest \in [1..MaxGenerations -> Token!Pairs]
  BY TokenTyped DEF TokenIInv, Token!TypeOK, Token!Generations, Token!Pairs, Token!Leases, TokenBounds
<1>1. /\ issued' = issued + 1 /\ issued + 1 \in Token!Pairs
      /\ newest' = [newest EXCEPT ![jobs[w].generation] = issued + 1]
      /\ jobs[w].generation # 0 /\ jobs[w].generation \in 1..MaxGenerations
      /\ UNCHANGED <<account, claims, connected, aged, lapsed>>
  BY <1>0 DEF TokenIInv, TokenJobFits, Token!GivesPair, Token!clock, Token!Pairs, Token!Generations, TokenBounds
<1>2. /\ shaken \subseteq shaken' /\ shaken' \subseteq Token!Generations
      /\ x.phase = "writing" \/ jobs[w].generation \in shaken'
  BY <1>0 DEF TokenIInv, Token!TypeOK, Token!Shake
<1>3. /\ newest'[jobs[w].generation] = issued + 1
      /\ \A g \in 1..MaxGenerations : g # jobs[w].generation => newest'[g] = newest[g]
      /\ newest' \in [1..MaxGenerations -> Token!Pairs]
  BY <1>0, <1>1
<1>4. /\ jobs'[w] = x
      /\ \A v \in Workers : v # w => jobs'[v] = jobs[v]
  BY <1>0
<1>5. Token!TypeOK'
  <2>1. jobs' \in [Workers -> Token!Work]
    BY <1>0
  <2> QED BY <1>1, <1>2, <1>3, <2>1 DEF TokenIInv, Token!TypeOK
<1>6. TokenRowFits'
  BY <1>0, <1>1 DEF TokenIInv, TokenRowFits
<1>7. ASSUME NEW v \in Workers PROVE TokenJobFits(v)'
  <2>1. CASE v = w
    <3>1. /\ jobs[w].generation <= connected /\ jobs[w].lease <= claims /\ jobs[w].lapsed <= lapsed
          /\ jobs[w].aged <= aged /\ jobs[w].pair <= issued /\ jobs[w].lease # 0 /\ jobs[w].generation # 0
      BY <1>1 DEF TokenIInv, TokenJobFits, TokenHolding
    <3>2. jobs[w].pair \in Nat /\ account.pair <= issued /\ aged <= issued
      BY TokenTyped DEF TokenIInv, TokenRowFits, Token!Pairs, TokenBounds
    <3>3. x.pair <= issued'
      BY <3>1, <3>2, <1>0, <1>1
    <3>4. x.phase = "writing" => x.pair > account.pair /\ x.pair > aged
      BY <3>2, <1>0
    <3> QED BY <2>1, <3>1, <3>3, <3>4, <1>1, <1>4 DEF TokenJobFits, TokenHolding
  <2>2. CASE v # w
    <3>1. jobs[v].pair \in Nat /\ jobs[v].pair <= issued
      BY TokenTyped DEF TokenIInv, TokenJobFits, Token!Pairs, TokenBounds
    <3>2. jobs[v].pair <= issued'
      BY <3>1, <1>0, <1>1
    <3> QED BY <2>2, <3>2, <1>1, <1>4 DEF TokenIInv, TokenJobFits, TokenHolding, Token!Same, Token!Leased
  <2> QED BY <2>1, <2>2
<1>8. TokenLeasesDiffer'
  BY <1>4 DEF TokenIInv, TokenLeasesDiffer, TokenHolding
<1>9. ASSUME NEW v \in Workers, v # w, Token!Refreshing(v), Token!Same(v), Token!Same(w) PROVE jobs[v].generation \in shaken
  <2>1. jobs[v].generation \notin shaken => Token!Leased(v) /\ Token!Leased(w)
    BY <1>9 DEF TokenIInv, TokenQuiet, Token!Refreshing, Token!Same
  <2> QED BY <2>1, <1>9 DEF TokenIInv, TokenLeasesDiffer, Token!Leased, TokenHolding, Token!Refreshing
<1>10. ASSUME NEW v \in Workers PROVE TokenQuiet(v)'
  <2>1. CASE v = w
    <3>1. jobs'[w].lease = jobs[w].lease /\ jobs'[w].generation = jobs[w].generation
      BY <1>4
    <3>2. (Token!Same(w) /\ jobs[w].generation \notin shaken) => Token!Leased(w) /\ jobs[w].lease > lapsed
      BY DEF TokenIInv, TokenQuiet, Token!Refreshing
    <3> QED BY <2>1, <3>1, <3>2, <1>1, <1>2, <1>3, <1>4
       DEF TokenQuiet, Token!Same, Token!Leased, Token!Refreshing
  <2>2. CASE v # w
    <3>1. jobs'[v] = jobs[v] /\ (Token!Same(v)' <=> Token!Same(v)) /\ (Token!Leased(v)' <=> Token!Leased(v))
      BY <2>2, <1>1, <1>4 DEF Token!Same, Token!Leased
    <3>2. (jobs[v].phase = "writing" /\ Token!Same(v) /\ jobs[v].generation \notin shaken) =>
              newest'[jobs[v].generation] = newest[jobs[v].generation]
      <4> SUFFICES ASSUME jobs[v].phase = "writing", Token!Same(v), jobs[v].generation \notin shaken
                   PROVE newest'[jobs[v].generation] = newest[jobs[v].generation]
        OBVIOUS
      <4>1. jobs[v].generation # jobs[w].generation
        BY <2>2, <1>9 DEF Token!Same, Token!Refreshing
      <4>2. jobs[v].generation \in 1..MaxGenerations
        BY TokenTyped DEF TokenIInv, TokenJobFits, Token!Generations, TokenBounds
      <4> QED BY <4>1, <4>2, <1>3
    <3> QED BY <3>1, <3>2, <1>1, <1>2 DEF TokenIInv, TokenQuiet, Token!Refreshing
  <2> QED BY <2>1, <2>2
<1>11. Token!LastPairIsKept'
  <2> SUFFICES ASSUME account.generation # 0, account.generation \notin shaken'
               PROVE Token!LastPairIsKept'
    BY <1>1 DEF Token!LastPairIsKept
  <2>0. account.generation \notin shaken /\ account.status = "ACTIVE"
    BY <1>2 DEF TokenIInv, Token!LastPairIsKept
  <2>1. CASE Token!Same(w)
    <3>1. x.phase = "writing" /\ x.pair = issued + 1
      BY <1>2, <2>1 DEF Token!Same, Token!Shake
    <3>2. Token!Leased(w) /\ Token!Leased(w)'
      BY <2>0, <2>1, <1>1, <1>4 DEF TokenIInv, TokenQuiet, Token!Leased, Token!Same, Token!Refreshing
    <3>3. jobs'[w].phase = "writing" /\ jobs'[w].pair = newest'[account'.generation]
      BY <3>1, <2>1, <1>1, <1>3, <1>4 DEF Token!Same
    <3> QED BY <2>0, <3>2, <3>3, <1>1 DEF Token!LastPairIsKept
  <2>2. CASE ~Token!Same(w)
    <3>1. newest'[account.generation] = newest[account.generation]
      BY <2>2, <1>0, <1>3 DEF Token!Same, Token!Connection, Token!Generations, TokenBounds
    <3>2. CASE account.pair = newest[account.generation]
      BY <3>1, <3>2, <2>0, <1>1 DEF Token!LastPairIsKept
    <3>3. ASSUME NEW v \in Workers, jobs[v].phase = "writing", Token!Leased(v),
                 jobs[v].pair = newest[account.generation]
          PROVE Token!LastPairIsKept'
      <4>1. v # w
        BY <2>2, <3>3 DEF Token!Leased
      <4>2. jobs'[v].phase = "writing" /\ Token!Leased(v)' /\ jobs'[v].pair = newest'[account'.generation]
        BY <4>1, <3>1, <3>3, <1>1, <1>4 DEF Token!Leased, Token!Same
      <4> QED BY <4>2, <2>0, <1>1 DEF Token!LastPairIsKept
    <3> QED BY <2>0, <3>2, <3>3 DEF TokenIInv, Token!LastPairIsKept
  <2> QED BY <2>1, <2>2
<1> QED BY <1>5, <1>6, <1>7, <1>8, <1>10, <1>11 DEF TokenIInv

\* TikTok gives out a pair, whether its answer is read or lost.
LEMMA TokenCallsKeep ==
    ASSUME TokenBounds, TokenIInv, NEW w \in Workers, Token!Answered(w) \/ Token!Unanswered(w)
    PROVE TokenIInv'
<1>0. jobs[w] \in Token!Work /\ issued \in Nat
  BY DEF TokenIInv, Token!TypeOK, Token!Pairs, TokenBounds
<1>1. CASE Token!Answered(w)
  <2>. PICK x : x = [jobs[w] EXCEPT !.phase = "writing", !.pair = issued + 1]
    OBVIOUS
  <2>1. issued + 1 \in Token!Pairs
    BY <1>0, <1>1 DEF Token!Answered, Token!GivesPair, Token!Pairs, TokenBounds
  <2>2. x \in Token!Work
    BY <1>0, <2>1 DEF Token!Work
  <2>3. /\ x.phase = "writing" /\ x.pair = issued + 1 /\ x.generation = jobs[w].generation
        /\ x.aged = jobs[w].aged /\ x.lapsed = jobs[w].lapsed /\ x.lease = jobs[w].lease
    BY <1>0 DEF Token!Work
  <2> QED BY <1>1, <2>2, <2>3, TokenAnsweredKeeps DEF Token!Answered
<1>2. CASE Token!Unanswered(w)
  <2>0. PICK error \in {"RETRYABLE", "REJECTED", "OTHER"} : Token!Fails(w, error)
    BY <1>2 DEF Token!Unanswered
  <2>. PICK x : x = [jobs[w] EXCEPT !.phase = "releasing", !.error = error]
    OBVIOUS
  <2>2. /\ x \in Token!Work /\ x.phase = "releasing" /\ x.generation = jobs[w].generation
        /\ x.aged = jobs[w].aged /\ x.lapsed = jobs[w].lapsed /\ x.lease = jobs[w].lease
        /\ x.pair = jobs[w].pair
    BY <1>0 DEF Token!Work
  <2>3. jobs' = [jobs EXCEPT ![w] = x]
    BY <2>0 DEF Token!Fails
  <2> QED BY <1>2, <2>2, <2>3, TokenAnsweredKeeps DEF Token!Unanswered
<1> QED BY <1>1, <1>2

\* The pair that is written is the last of its generation.
LEMMA TokenWritePairKeeps ==
    ASSUME TokenBounds, TokenIInv, NEW w \in Workers, Token!WritePair(w)
    PROVE TokenIInv'
<1>. PICK row : row = [account EXCEPT !.pair = jobs[w].pair, !.lease = 0]
  OBVIOUS
<1>0. /\ account \in Token!Connection /\ connected \in Nat /\ issued \in Nat /\ aged \in Nat
      /\ lapsed \in Nat /\ claims \in Nat
      /\ account.pair \in Nat /\ account.generation \in Nat /\ account.lease \in Nat
      /\ jobs \in [Workers -> Token!Work] /\ jobs[w] \in Token!Work /\ jobs[w].pair \in Token!Pairs
      /\ jobs[w].pair \in Nat
      /\ 0 \in Token!Leases /\ Token!Idle \in Token!Work
  BY TokenTyped, TokenIdleFits DEF TokenIInv, Token!TypeOK, Token!Generations, Token!Pairs, Token!Leases,
     TokenBounds
<1>1. /\ jobs' = [jobs EXCEPT ![w] = Token!Idle] /\ account' = row
      /\ UNCHANGED <<claims, connected, aged, lapsed, issued, newest, shaken>>
      /\ jobs[w].phase = "writing" /\ Token!Same(w) /\ Token!Leased(w)
  BY DEF Token!WritePair, Token!Elsewhere, Token!clock, Token!tiktok, Token!Stops, Token!Leased
<1>2. /\ row \in Token!Connection /\ row.generation = account.generation /\ row.pair = jobs[w].pair
      /\ row.status = account.status /\ row.lease = 0
  BY <1>0 DEF Token!Connection
<1>3. /\ jobs'[w] = Token!Idle
      /\ Token!Idle.phase = "idle" /\ Token!Idle.generation = 0 /\ Token!Idle.lease = 0
      /\ Token!Idle.lapsed = 0 /\ Token!Idle.aged = 0 /\ Token!Idle.pair = 0
      /\ \A v \in Workers : v # w => jobs'[v] = jobs[v]
  BY <1>0, <1>1 DEF Token!Idle
<1>4. jobs[w].pair > account.pair /\ jobs[w].pair > aged /\ jobs[w].generation # 0
      /\ jobs[w].pair <= issued
  BY <1>1 DEF TokenIInv, TokenJobFits
<1>5. Token!TypeOK'
  <2>1. jobs' \in [Workers -> Token!Work]
    BY <1>0, <1>1
  <2> QED BY <1>1, <1>2, <2>1 DEF TokenIInv, Token!TypeOK
<1>6. TokenRowFits'
  BY <1>0, <1>1, <1>2, <1>4 DEF TokenIInv, TokenRowFits, Token!Same
<1>7. ASSUME NEW v \in Workers PROVE TokenJobFits(v)'
  <2>1. CASE v = w
    BY <2>1, <1>0, <1>1, <1>3 DEF TokenJobFits, TokenHolding
  <2>2. CASE v # w
    <3>1. jobs[v].aged \in Nat /\ jobs[v].aged <= aged
      BY TokenTyped DEF TokenIInv, TokenJobFits, Token!Pairs, TokenBounds
    <3>2. TokenHolding(v) => ~Token!Leased(v)'
      BY <2>2, <1>2, <1>1, <1>3 DEF TokenIInv, TokenJobFits, Token!Leased
    <3> QED BY <2>2, <3>1, <3>2, <1>0, <1>1, <1>2, <1>3, <1>4
       DEF TokenIInv, TokenJobFits, TokenHolding, Token!Same
  <2> QED BY <2>1, <2>2
<1>8. TokenLeasesDiffer'
  BY <1>3 DEF TokenIInv, TokenLeasesDiffer, TokenHolding
<1>9. TokenHolding(w)
  BY <1>1 DEF TokenHolding
<1>10. ASSUME NEW v \in Workers PROVE TokenQuiet(v)'
  <2>1. CASE v = w
    BY <2>1, <1>3 DEF TokenQuiet, Token!Refreshing
  <2>2. CASE v # w
    <3>1. (Token!Refreshing(v) /\ Token!Same(v)) => jobs[v].generation \in shaken
      BY <2>2, <1>1, <1>9, TokenLeaseIsOnes DEF Token!Same
    <3> QED BY <2>2, <3>1, <1>1, <1>2, <1>3 DEF TokenIInv, TokenQuiet, Token!Same, Token!Refreshing
  <2> QED BY <2>1, <2>2
<1>11. Token!LastPairIsKept'
  <2>1. account.generation \notin shaken => jobs[w].pair = newest[account.generation]
    BY <1>1 DEF TokenIInv, TokenQuiet, Token!Same
  <2> QED BY <2>1, <1>1, <1>2 DEF TokenIInv, Token!LastPairIsKept
<1> QED BY <1>5, <1>6, <1>7, <1>8, <1>10, <1>11 DEF TokenIInv

-----------------------------------------------------------------------------
(* The specification                                                        *)

\* Nothing is connected.
LEMMA TokenStart ==
    ASSUME TokenBounds, Token!Init
    PROVE TokenIInv
<1>1. /\ account.status = "DISCONNECTED" /\ account.generation = 0 /\ account.pair = 0 /\ account.lease = 0
      /\ \A w \in Workers : jobs[w] = Token!Idle
      /\ Token!Idle.phase = "idle" /\ Token!Idle.generation = 0 /\ Token!Idle.lease = 0
      /\ Token!Idle.lapsed = 0 /\ Token!Idle.aged = 0 /\ Token!Idle.pair = 0
      /\ claims = 0 /\ connected = 0 /\ aged = 0 /\ lapsed = 0 /\ issued = 0
  BY DEF Token!Init, Token!Idle
<1>2. Token!TypeOK
  <2>1. 0 \in Token!Generations /\ 0 \in Token!Pairs /\ 0 \in Token!Leases
    BY DEF Token!Generations, Token!Pairs, Token!Leases, TokenBounds
  <2>2. account \in Token!Connection
    BY <2>1 DEF Token!Init, Token!Connection
  <2>3. jobs \in [Workers -> Token!Work]
    BY <2>1, TokenIdleFits DEF Token!Init
  <2>4. newest \in [1..MaxGenerations -> Token!Pairs] /\ shaken \subseteq Token!Generations
    BY <2>1 DEF Token!Init
  <2> QED BY <1>1, <2>1, <2>2, <2>3, <2>4 DEF Token!TypeOK
<1>3. TokenRowFits
  BY <1>1 DEF TokenRowFits
<1>4. ASSUME NEW w \in Workers PROVE TokenJobFits(w) /\ ~TokenHolding(w) /\ TokenQuiet(w)
  <2>1. jobs[w] = Token!Idle
    BY <1>1
  <2>2. ~TokenHolding(w) /\ TokenQuiet(w)
    BY <1>1, <2>1 DEF TokenHolding, TokenQuiet, Token!Refreshing
  <2>3. TokenJobFits(w)
    BY <1>1, <2>1, <2>2 DEF TokenJobFits
  <2> QED BY <2>2, <2>3
<1>5. TokenLeasesDiffer
  BY <1>4 DEF TokenLeasesDiffer
<1>6. Token!LastPairIsKept
  BY <1>1 DEF Token!LastPairIsKept
<1> QED BY <1>2, <1>3, <1>4, <1>5, <1>6 DEF TokenIInv

\* Each step keeps the invariant.
LEMMA TokenSteps ==
    ASSUME TokenBounds, TokenIInv, [Token!Next]_Token!vars
    PROVE TokenIInv'
<1>1. CASE Token!Activate \/ Token!Disconnect \/ Token!ExpireToken \/ Token!Age \/ Token!Lapse
  BY <1>1, TokenActivateKeeps, TokenDisconnectKeeps, TokenExpireTokenKeeps, TokenAgeKeeps, TokenLapseKeeps
<1>2. ASSUME NEW w \in Workers, Token!WorkerStep(w) PROVE TokenIInv'
  BY <1>2, TokenBeginKeeps, TokenUnavailableKeeps, TokenFreshKeeps, TokenStaleKeeps,
     TokenMarkReauthorizationKeeps, TokenClaimKeeps, TokenWaitKeeps,
     TokenCallsKeep, TokenRefusedKeeps, TokenWritePairKeeps, TokenWriteNothingKeeps, TokenReleaseKeeps,
     TokenMarkReconnectRequiredKeeps, TokenCrashKeeps
     DEF Token!WorkerStep
<1>3. CASE UNCHANGED Token!vars
  BY <1>3 DEF Token!vars, Token!clock, Token!tiktok, TokenIInv, Token!TypeOK, TokenRowFits, TokenJobFits,
     TokenLeasesDiffer, TokenQuiet, Token!LastPairIsKept, TokenHolding, Token!Same,
     Token!Leased, Token!Refreshing
<1> QED BY <1>1, <1>2, <1>3 DEF Token!Next

\* Init => IInv, IInv /\ [Next]_vars => IInv'.
LEMMA TokenInvariance ==
    ASSUME TokenBounds
    PROVE Token!Spec => []TokenIInv
<1>1. Token!Init => TokenIInv
  BY TokenStart
<1>2. TokenIInv /\ [Token!Next]_Token!vars => TokenIInv'
  BY TokenSteps
<1> QED BY <1>1, <1>2, PTL DEF Token!Spec

\* The rows, jobs and ghosts have their types.
THEOREM TokenTypeCorrect ==
    ASSUME TokenBounds
    PROVE Token!Spec => []Token!TypeOK
<1>1. TokenIInv => Token!TypeOK
  BY DEF TokenIInv
<1> QED BY <1>1, TokenInvariance, PTL

\* "A database refresh lease permits only one concurrent refresh for a credential
\* generation", and the call is made with the row's pair, as long as no lease lapses,
\* no call is lost, nobody gives up and no refresh token expires.
THEOREM RefreshesExclude ==
    ASSUME TokenBounds
    PROVE Token!Spec => []Token!OneRefresh
<1>1. ASSUME TokenIInv PROVE Token!OneRefresh
  <2> SUFFICES ASSUME account.generation # 0, account.generation \notin shaken,
                      NEW w \in Workers, Token!Refreshing(w), Token!Same(w)
               PROVE /\ \A v \in Workers \ {w} : ~(Token!Refreshing(v) /\ Token!Same(v))
                     /\ jobs[w].phase = "calling" => jobs[w].pair = account.pair
    BY DEF Token!OneRefresh
  <2>1. \A v \in Workers : (Token!Refreshing(v) /\ Token!Same(v)) => Token!Leased(v) /\ TokenHolding(v)
    BY <1>1 DEF TokenIInv, TokenQuiet, Token!Same, TokenHolding, Token!Refreshing
  <2>2. \A v \in Workers \ {w} : ~(Token!Refreshing(v) /\ Token!Same(v))
    BY <1>1, <2>1 DEF TokenIInv, TokenLeasesDiffer, Token!Leased
  <2>3. jobs[w].phase = "calling" => jobs[w].pair = account.pair
    BY <1>1, <2>1 DEF TokenIInv, TokenJobFits
  <2> QED BY <2>2, <2>3
<1> QED BY <1>1, TokenInvariance, PTL

\* The connection then is not shut, and the last pair TikTok gave out is in the row
\* or in the hands of the job that has the lease to write it.
THEOREM TheLastPairIsKept ==
    ASSUME TokenBounds
    PROVE Token!Spec => []Token!LastPairIsKept
<1>1. TokenIInv => Token!LastPairIsKept
  BY DEF TokenIInv
<1> QED BY <1>1, TokenInvariance, PTL

\* No late refresh brings tokens back after a disconnection, or replaces a newer pair.
THEOREM NoPairIsTakenBack ==
    ASSUME TokenBounds
    PROVE Token!Spec => [][Token!PairsGoForward]_Token!vars
<1>1. ASSUME TokenIInv, TokenIInv', [Token!Next]_Token!vars PROVE [Token!PairsGoForward]_Token!vars
  <2>0. /\ account \in Token!Connection /\ account.pair \in Nat /\ connected \in Nat
        /\ account.generation \in Nat
        /\ account'.generation = 0 => account'.pair = 0
    BY <1>1, TokenTyped DEF TokenIInv, Token!TypeOK, Token!Pairs, Token!Generations, TokenRowFits, TokenBounds
  <2>1. ASSUME account' = account PROVE Token!PairsGoForward
    BY <2>0, <2>1 DEF Token!PairsGoForward
  <2>2. CASE Token!Activate
    <3>1. account'.generation = connected + 1
      BY <2>0, <2>2 DEF Token!Activate, Token!Connection
    <3> QED BY <1>1, <2>0, <3>1 DEF Token!PairsGoForward, TokenIInv, TokenRowFits
  <2>3. CASE Token!Disconnect
    <3>1. account'.generation = 0 /\ account'.generation # account.generation
      BY <2>0, <2>3 DEF Token!Disconnect, Token!Connection
    <3> QED BY <2>0, <3>1 DEF Token!PairsGoForward
  <2>4. ASSUME account'.pair = account.pair PROVE Token!PairsGoForward
    BY <2>0, <2>4 DEF Token!PairsGoForward
  <2>5. ASSUME NEW w \in Workers, Token!WritePair(w) PROVE Token!PairsGoForward
    <3>1. account'.pair = jobs[w].pair
      BY <2>0, <2>5 DEF Token!WritePair, Token!Connection
    <3>2. jobs[w].pair > account.pair /\ jobs[w].pair \in Nat
      BY <1>1, <2>5, TokenTyped DEF TokenIInv, TokenJobFits, Token!WritePair, Token!Pairs, TokenBounds
    <3> QED BY <2>0, <3>1, <3>2 DEF Token!PairsGoForward
  <2>6. CASE Token!ExpireToken \/ Token!Age \/ Token!Lapse
    <3>1. account'.pair = account.pair
      BY <2>0, <2>6 DEF Token!ExpireToken, Token!Age, Token!Lapse, Token!Connection
    <3> QED BY <3>1, <2>4
  <2>7. ASSUME NEW w \in Workers, Token!WorkerStep(w), ~Token!WritePair(w) PROVE Token!PairsGoForward
    <3>1. CASE Token!MarkReauthorization(w) \/ Token!MarkReconnectRequired(w) \/ Token!Release(w) \/ Token!Claim(w)
      <4>1. account'.pair = account.pair
        BY <2>0, <3>1 DEF Token!MarkReauthorization, Token!MarkReconnectRequired, Token!Release, Token!Claim,
           Token!Connection
      <4> QED BY <4>1, <2>4
    <3>2. CASE ~(Token!MarkReauthorization(w) \/ Token!MarkReconnectRequired(w) \/ Token!Release(w) \/ Token!Claim(w))
      <4>1. account' = account
        BY <2>7, <3>2 DEF Token!WorkerStep, Token!Begin, Token!Unavailable, Token!Fresh, Token!Stale,
           Token!Wait, Token!Answered, Token!Refused, Token!Unanswered, Token!WriteNothing, Token!Crash
      <4> QED BY <4>1, <2>1
    <3> QED BY <3>1, <3>2
  <2> QED BY <1>1, <2>2, <2>3, <2>5, <2>6, <2>7 DEF Token!Next
<1> QED BY <1>1, TokenInvariance, PTL DEF Token!Spec

-----------------------------------------------------------------------------
(***************************************************************************)
(* The other channel: proofs about InstagramDelivery, for all replies,     *)
(* workers, managers, retries, stalls and echoes.  Replies, connection and *)
(* jobs are kept in the same tables and queues, and named alike.           *)
(***************************************************************************)
CONSTANTS
    Text,            \* the normalised text of each reply
    MAX_CANDIDATES,  \* replies that an echo is compared with at most
    MaxStalls,       \* bound: claims lost to a crash or to a lease outlived
    MaxTyped         \* bound: times a text is typed in the Instagram app

VARIABLES rows, stalls, sent, recent, near

Instagram == INSTANCE InstagramDelivery

\* The sets that the component counts are counted here by the same function.
LEMMA SameCardinality == ASSUME NEW S PROVE Instagram!Cardinality(S) = Cardinality(S)
BY DEF Instagram!Cardinality, Cardinality

\* The replies and the workers are finitely many, and a reply is not a text.
InstagramBounds ==
    /\ IsFiniteSet(Messages) /\ IsFiniteSet(Workers)
    /\ NoMessage \notin Messages /\ Messages \cap Instagram!Sends = {}
    /\ MAX_CANDIDATES \in Nat

-----------------------------------------------------------------------------
(* The inductive invariant of the replies on Instagram                      *)

\* A reply that was not written has neither attempts nor a lease.
InstaUnwritten == \A m \in Messages : Instagram!HasStatus(m, {"NONE"}) => message[m] = Instagram!None

\* A worker knows its reply and a claim of it, and ends with a result.
InstaKnowsReply(w) ==
    worker[w].phase # "idle" =>
        /\ worker[w].message \in Messages
        /\ 0 < worker[w].lease /\ worker[w].lease <= message[worker[w].message].attempts
        /\ worker[w].phase = "finishing" => worker[w].result # "NONE"
InstaWorkersKnowReplies == \A w \in Workers : InstaKnowsReply(w)

\* No two workers hold one claim.
InstaOneClaimEach ==
    \A v, w \in Workers :
        v # w /\ worker[v].phase # "idle" /\ worker[w].phase # "idle" /\ worker[v].message = worker[w].message =>
            worker[v].lease # worker[w].lease

\* Only what was written has a window.
InstaWindowsAreOfWritten ==
    /\ \A m \in Messages : m \in recent => ~Instagram!HasStatus(m, {"NONE"})
    /\ \A p \in near : ~Instagram!HasStatus(p[2], {"NONE"})

\* The workers that may still send the reply.
InstaMaySend(m) == {w \in Workers : worker[w].message = m /\ worker[w].phase \in {"claimed", "loaded", "sending"}}

\* A worker whose claim keeps the reply from any other.
InstaKeeps(w, m) == Instagram!Owns(w, m) /\ ~(worker[w].phase = "finishing" /\ worker[w].result = "PENDING")

\* The reply may be claimed once more, and nothing was lost for it.
InstaMayBeClaimed(m) ==
    \/ Instagram!HasStatus(m, {"NONE", "PENDING"})
    \/ Instagram!HasStatus(m, {"SENDING"}) /\ (message[m].expired \/ ~\E w \in Workers : InstaKeeps(w, m))
InstaTicket(m) == IF InstaMayBeClaimed(m) THEN 1 ELSE 0

\* Texts sent, texts that may be sent, and the claim that is still free.
InstaRepliesAccounted ==
    \A m \in Messages :
        Cardinality(Instagram!SendsOf(m)) + Cardinality(InstaMaySend(m)) + InstaTicket(m) <= 1 + stalls + retries[m]

InstaIInv ==
    /\ Instagram!TypeOK /\ IsFiniteSet(sent) /\ InstaUnwritten /\ InstaWorkersKnowReplies /\ InstaOneClaimEach
    /\ InstaWindowsAreOfWritten /\ InstaRepliesAccounted

-----------------------------------------------------------------------------
(* Workers, replies and their numbers                                       *)

InstaOne(b) == IF b THEN 1 ELSE 0

\* What a worker keeps until it ends.
InstaSameClaim(w) == worker'[w].message = worker[w].message /\ worker'[w].lease = worker[w].lease
InstaOthers(w) == \A v \in Workers \ {w} : worker'[v] = worker[v]

LEMMA InstaSecondOfPair ==
    ASSUME NEW P, NEW Q, NEW S, NEW R, R = P \cup (Q \X S)
    PROVE  \A p \in R : p \in P \/ p[2] \in S
<1>. SUFFICES ASSUME NEW p \in R, p \notin P PROVE p[2] \in S
   OBVIOUS
<1>1. p \in Q \X S
   OBVIOUS
<1>. QED BY <1>1

LEMMA InstaIdleType == Instagram!Idle \in Instagram!Work /\ Instagram!Idle.phase = "idle"
BY DEF Instagram!Idle, Instagram!Work, Instagram!Phase, Instagram!Result

LEMMA InstaWorkGoes ==
    ASSUME Instagram!TypeOK, NEW w \in Workers, NEW phase \in Instagram!Phase, NEW result \in Instagram!Result, Instagram!Goes(w, phase, result)
    PROVE  /\ worker' \in [Workers -> Instagram!Work] /\ InstaOthers(w) /\ InstaSameClaim(w)
           /\ worker'[w].phase = phase /\ worker'[w].result = result
<1>1. worker[w] \in Instagram!Work
   BY DEF Instagram!TypeOK
<1>2. PICK x : x = [worker[w] EXCEPT !.phase = phase, !.result = result]
   OBVIOUS
<1>3. /\ x \in Instagram!Work /\ x.phase = phase /\ x.result = result
      /\ x.message = worker[w].message /\ x.lease = worker[w].lease
   BY <1>1, <1>2 DEF Instagram!Work
<1>4. worker' = [worker EXCEPT ![w] = x]
   BY <1>2 DEF Instagram!Goes
<1>. QED BY <1>3, <1>4 DEF Instagram!TypeOK, InstaSameClaim, InstaOthers

LEMMA InstaWorkEnds ==
    ASSUME Instagram!TypeOK, NEW w \in Workers, worker' = [worker EXCEPT ![w] = Instagram!Idle]
    PROVE  worker' \in [Workers -> Instagram!Work] /\ InstaOthers(w) /\ worker'[w] = Instagram!Idle
BY InstaIdleType DEF Instagram!TypeOK, InstaOthers

LEMMA InstaReplyIs ==
    ASSUME Instagram!TypeOK, NEW m \in Messages, NEW x \in Instagram!Message, message' = [message EXCEPT ![m] = x]
    PROVE  /\ message' \in [Messages -> Instagram!Message] /\ message'[m] = x
           /\ \A n \in Messages \ {m} : message'[n] = message[n]
BY DEF Instagram!TypeOK

LEMMA InstaNumbers ==
    ASSUME InstagramBounds, Instagram!TypeOK, IsFiniteSet(sent), NEW m \in Messages
    PROVE  /\ IsFiniteSet(Instagram!SendsOf(m)) /\ Cardinality(Instagram!SendsOf(m)) \in Nat
           /\ IsFiniteSet(InstaMaySend(m)) /\ Cardinality(InstaMaySend(m)) \in Nat
           /\ InstaTicket(m) \in 0..1 /\ stalls \in Nat /\ retries[m] \in Nat
<1>1. Instagram!SendsOf(m) \subseteq sent /\ InstaMaySend(m) \subseteq Workers
   BY DEF Instagram!SendsOf, InstaMaySend
<1>2. IsFiniteSet(Instagram!SendsOf(m)) /\ IsFiniteSet(InstaMaySend(m))
   BY <1>1, FS_Subset DEF InstagramBounds
<1>. QED BY <1>2, FS_CardinalityType DEF Instagram!TypeOK, InstaTicket

LEMMA InstaNextNumbers ==
    ASSUME InstagramBounds, Instagram!TypeOK', IsFiniteSet(sent'), NEW m \in Messages
    PROVE  /\ IsFiniteSet(Instagram!SendsOf(m)') /\ Cardinality(Instagram!SendsOf(m)') \in Nat
           /\ IsFiniteSet(InstaMaySend(m)') /\ Cardinality(InstaMaySend(m)') \in Nat
           /\ InstaTicket(m)' \in 0..1 /\ stalls' \in Nat /\ retries'[m] \in Nat
<1>1. Instagram!SendsOf(m)' \subseteq sent' /\ InstaMaySend(m)' \subseteq Workers
   BY DEF Instagram!SendsOf, InstaMaySend
<1>2. IsFiniteSet(Instagram!SendsOf(m)') /\ IsFiniteSet(InstaMaySend(m)')
   BY <1>1, FS_Subset DEF InstagramBounds
<1>. QED BY <1>2, FS_CardinalityType DEF Instagram!TypeOK, InstaTicket

LEMMA InstaMembers ==
    ASSUME NEW S, IsFiniteSet(S), NEW w, NEW R, S \ {w} = R \ {w}, IsFiniteSet(R)
    PROVE  \E n \in Nat : Cardinality(S) = n + InstaOne(w \in S) /\ Cardinality(R) = n + InstaOne(w \in R)
<1>. DEFINE Q == S \ {w}
<1>1. IsFiniteSet(Q) /\ Cardinality(Q) \in Nat
   BY FS_Subset, FS_CardinalityType
<1>2. Cardinality(S) \in Nat /\ Cardinality(R) \in Nat
   BY FS_CardinalityType
<1>3. Cardinality(S) = Cardinality(Q) + InstaOne(w \in S)
   <2>1. CASE w \in S
      BY <1>1, <1>2, <2>1, FS_RemoveElement DEF InstaOne
   <2>2. CASE w \notin S
      <3>1. Q = S
         BY <2>2
      <3>. QED BY <1>2, <2>2, <3>1 DEF InstaOne
   <2>. QED BY <2>1, <2>2
<1>4. Cardinality(R) = Cardinality(Q) + InstaOne(w \in R)
   <2>1. CASE w \in R
      BY <1>1, <1>2, <2>1, FS_RemoveElement DEF InstaOne
   <2>2. CASE w \notin R
      <3>1. Q = R
         BY <2>2
      <3>. QED BY <1>2, <2>2, <3>1 DEF InstaOne
   <2>. QED BY <2>1, <2>2
<1>. QED BY <1>1, <1>3, <1>4

\* A step of one worker changes what may be sent by that worker at most.
LEMMA InstaCallersMove ==
    ASSUME InstagramBounds, Instagram!TypeOK, Instagram!TypeOK', IsFiniteSet(sent), IsFiniteSet(sent'),
           NEW m \in Messages, NEW w \in Workers, InstaOthers(w)
    PROVE  \E n \in Nat : /\ Cardinality(InstaMaySend(m)) = n + InstaOne(w \in InstaMaySend(m))
                          /\ Cardinality(InstaMaySend(m)') = n + InstaOne(w \in InstaMaySend(m)')
<1>1. InstaMaySend(m) \ {w} = InstaMaySend(m)' \ {w}
   BY DEF InstaMaySend, InstaOthers
<1>. QED BY <1>1, InstaNumbers, InstaNextNumbers, InstaMembers

\* The free claim depends on the reply and on the workers that keep it.
LEMMA InstaSameTicket ==
    ASSUME NEW m \in Messages, message'[m].status = message[m].status, message'[m].expired = message[m].expired,
           \A w \in Workers : InstaKeeps(w, m) <=> InstaKeeps(w, m)'
    PROVE  InstaTicket(m)' = InstaTicket(m)
<1>1. \A S : Instagram!HasStatus(m, S) <=> Instagram!HasStatus(m, S)'
   BY DEF Instagram!HasStatus
<1>2. InstaMayBeClaimed(m) <=> InstaMayBeClaimed(m)'
   BY <1>1, Zenon DEF InstaMayBeClaimed
<1>. QED BY <1>2 DEF InstaTicket

\* A worker keeps its reply only.
LEMMA InstaKeepsItsOwn ==
    ASSUME NEW w \in Workers, NEW m \in Messages
    PROVE  InstaKeeps(w, m) => worker[w].phase # "idle" /\ worker[w].message = m
BY DEF InstaKeeps, Instagram!Owns

\* The other workers keep a reply that stays as it is.
LEMMA InstaOthersKeep ==
    ASSUME NEW w \in Workers, InstaOthers(w), NEW m \in Messages,
           message'[m].status = message[m].status, message'[m].lease = message[m].lease
    PROVE  \A v \in Workers \ {w} : InstaKeeps(v, m) <=> InstaKeeps(v, m)'
BY DEF InstaOthers, InstaKeeps, Instagram!Owns, Instagram!HasStatus

\* What the other workers know stays true, as attempts only grow.
LEMMA InstaOthersKnow ==
    ASSUME Instagram!TypeOK, Instagram!TypeOK', InstaWorkersKnowReplies, InstaOneClaimEach, NEW w \in Workers, InstaOthers(w),
           \A m \in Messages : message[m].attempts <= message'[m].attempts,
           InstaKnowsReply(w)',
           \/ worker'[w].phase = "idle"
           \/ worker[w].phase # "idle" /\ InstaSameClaim(w)
           \/ \A m \in Messages : worker'[w].message = m => worker'[w].lease > message[m].attempts
    PROVE  InstaWorkersKnowReplies' /\ InstaOneClaimEach'
<1>1. \A v \in Workers \ {w} : InstaKnowsReply(v)'
   <2>. SUFFICES ASSUME NEW v \in Workers \ {w} PROVE InstaKnowsReply(v)'
      OBVIOUS
   <2>1. worker'[v] = worker[v] /\ InstaKnowsReply(v) /\ worker[v] \in Instagram!Work
      BY DEF InstaOthers, InstaWorkersKnowReplies, Instagram!TypeOK
   <2>2. CASE worker[v].phase # "idle"
      <3>1. worker[v].message \in Messages
         BY <2>1, <2>2 DEF InstaKnowsReply
      <3>2. /\ message[worker[v].message].attempts \in Nat /\ message'[worker[v].message].attempts \in Nat
            /\ worker[v].lease \in Nat
         BY <2>1, <3>1 DEF Instagram!TypeOK, Instagram!Message, Instagram!Work
      <3>. QED BY <2>1, <2>2, <3>1, <3>2 DEF InstaKnowsReply
   <2>. QED BY <2>1, <2>2 DEF InstaKnowsReply
<1>2. \A v \in Workers \ {w} :
         worker'[v].phase # "idle" /\ worker'[w].phase # "idle" /\ worker'[v].message = worker'[w].message =>
            worker'[v].lease # worker'[w].lease
   <2>. SUFFICES ASSUME NEW v \in Workers \ {w}, worker'[v].phase # "idle", worker'[w].phase # "idle",
                        worker'[v].message = worker'[w].message
                 PROVE  worker'[v].lease # worker'[w].lease
      OBVIOUS
   <2>1. worker'[v] = worker[v] /\ InstaKnowsReply(v) /\ worker[v] \in Instagram!Work
      BY DEF InstaOthers, InstaWorkersKnowReplies, Instagram!TypeOK
   <2>2. worker[v].message \in Messages /\ worker[v].lease <= message[worker[v].message].attempts
      BY <2>1 DEF InstaKnowsReply
   <2>3. CASE worker[w].phase # "idle" /\ InstaSameClaim(w)
      BY <2>1, <2>3 DEF InstaSameClaim, InstaOneClaimEach
   <2>4. CASE worker'[w].lease > message[worker[v].message].attempts
      <3>1. worker[v].lease \in Nat /\ message[worker[v].message].attempts \in Nat /\ worker'[w].lease \in Nat
         BY <2>1, <2>2 DEF Instagram!TypeOK, Instagram!Message, Instagram!Work
      <3>. QED BY <2>1, <2>2, <2>4, <3>1
   <2>. QED BY <2>1, <2>2, <2>3, <2>4
<1>3. InstaOneClaimEach'
   BY <1>2 DEF InstaOneClaimEach, InstaOthers
<1>. QED BY <1>1, <1>3 DEF InstaWorkersKnowReplies

\* Windows stay those of written replies.
LEMMA InstaSameWindows ==
    ASSUME Instagram!TypeOK, InstaWindowsAreOfWritten, recent' \subseteq recent, near' = near,
           \A m \in Messages : Instagram!HasStatus(m, {"NONE"})' => Instagram!HasStatus(m, {"NONE"})
    PROVE  InstaWindowsAreOfWritten'
<1>1. \A p \in near : p[2] \in Messages
   BY DEF Instagram!TypeOK
<1>. QED BY <1>1 DEF InstaWindowsAreOfWritten

-----------------------------------------------------------------------------
(* Steps that no worker takes                                               *)

LEMMA InstaStill ==
    ASSUME InstagramBounds, InstaIInv, Instagram!TypeOK', InstaWindowsAreOfWritten',
           UNCHANGED <<message, worker, sent, stalls, retries>>
    PROVE  InstaIInv'
<1>1. InstaUnwritten' /\ InstaWorkersKnowReplies' /\ InstaOneClaimEach'
   BY DEF InstaIInv, InstaUnwritten, InstaWorkersKnowReplies, InstaKnowsReply, InstaOneClaimEach,
      Instagram!HasStatus
<1>2. \A m \in Messages : InstaTicket(m)' = InstaTicket(m)
   BY DEF InstaTicket, InstaMayBeClaimed, InstaKeeps, Instagram!Owns, Instagram!HasStatus
<1>3. \A m \in Messages : Instagram!SendsOf(m)' = Instagram!SendsOf(m) /\ InstaMaySend(m)' = InstaMaySend(m)
   BY DEF Instagram!SendsOf, InstaMaySend
<1>. QED BY <1>1, <1>2, <1>3 DEF InstaIInv, InstaRepliesAccounted

\* A reply is written, retried, due or answered by an echo: no step of these
\* makes one more claim free, unless a manager retried the reply.
LEMMA InstaRewritten ==
    ASSUME InstagramBounds, InstaIInv, Instagram!TypeOK', InstaWindowsAreOfWritten', UNCHANGED <<worker, sent, stalls>>,
           NEW m \in Messages, NEW x \in Instagram!Message, message' = [message EXCEPT ![m] = x],
           x.status # "NONE", x.attempts = message[m].attempts,
           \A n \in Messages \ {m} : retries'[n] = retries[n],
           \/ retries'[m] = retries[m] + 1
           \/ retries' = retries /\ (x.status \in Instagram!Final \/ Instagram!HasStatus(m, {"NONE", "PENDING"}))
    PROVE  InstaIInv'
<1>0. Instagram!TypeOK /\ IsFiniteSet(sent) /\ IsFiniteSet(sent') /\ InstaRepliesAccounted
   BY DEF InstaIInv
<1>1. message'[m] = x /\ \A n \in Messages \ {m} : message'[n] = message[n]
   BY <1>0, InstaReplyIs
<1>2. InstaUnwritten'
   BY <1>1 DEF InstaIInv, InstaUnwritten, Instagram!HasStatus
<1>3. InstaWorkersKnowReplies' /\ InstaOneClaimEach'
   BY <1>1 DEF InstaIInv, InstaWorkersKnowReplies, InstaKnowsReply, InstaOneClaimEach
<1>4. InstaRepliesAccounted'
   <2>. SUFFICES ASSUME NEW n \in Messages
                 PROVE  Cardinality(Instagram!SendsOf(n)') + Cardinality(InstaMaySend(n)') + InstaTicket(n)' <= 1 + stalls' + retries'[n]
      BY DEF InstaRepliesAccounted
   <2>1. Instagram!SendsOf(n)' = Instagram!SendsOf(n) /\ InstaMaySend(n)' = InstaMaySend(n)
      BY DEF Instagram!SendsOf, InstaMaySend
   <2>2. Cardinality(Instagram!SendsOf(n)) + Cardinality(InstaMaySend(n)) + InstaTicket(n) <= 1 + stalls + retries[n]
      BY <1>0 DEF InstaRepliesAccounted
   <2>3. /\ Cardinality(Instagram!SendsOf(n)) \in Nat /\ Cardinality(InstaMaySend(n)) \in Nat
         /\ InstaTicket(n) \in 0..1
         /\ InstaTicket(n)' \in 0..1 /\ stalls \in Nat /\ retries[n] \in Nat
      BY <1>0, InstaNumbers, InstaNextNumbers
   <2>4. CASE n # m
      <3>1. \A w \in Workers : InstaKeeps(w, n) <=> InstaKeeps(w, n)'
         BY <1>1, <2>4 DEF InstaKeeps, Instagram!Owns, Instagram!HasStatus
      <3>2. InstaTicket(n)' = InstaTicket(n)
         BY <1>1, <2>4, <3>1, InstaSameTicket
      <3>. QED BY <2>1, <2>2, <2>4, <3>2
   <2>5. CASE n = m /\ retries'[m] = retries[m] + 1
      BY <2>1, <2>2, <2>3, <2>5
   <2>6. CASE n = m /\ retries' = retries /\ x.status \in Instagram!Final
      <3>1. InstaTicket(n)' = 0
         BY <1>1, <2>6 DEF InstaTicket, InstaMayBeClaimed, Instagram!HasStatus, Instagram!Final
      <3>. QED BY <2>1, <2>2, <2>3, <2>6, <3>1
   <2>7. CASE n = m /\ retries' = retries /\ Instagram!HasStatus(m, {"NONE", "PENDING"})
      <3>1. InstaTicket(n) = 1
         BY <2>7 DEF InstaTicket, InstaMayBeClaimed
      <3>. QED BY <2>1, <2>2, <2>3, <2>7, <3>1
   <2>. QED BY <2>4, <2>5, <2>6, <2>7
<1>. QED BY <1>0, <1>2, <1>3, <1>4 DEF InstaIInv

LEMMA InstaSendKeeps == ASSUME InstagramBounds, InstaIInv, NEW m \in Messages, Instagram!Send(m) PROVE InstaIInv'
<1>. DEFINE x == [Instagram!None EXCEPT !.status = "PENDING", !.due = TRUE]
<1>0. Instagram!TypeOK /\ InstaUnwritten /\ InstaWindowsAreOfWritten
   BY DEF InstaIInv
<1>1. x \in Instagram!Message /\ x.status = "PENDING" /\ x.attempts = 0
   BY DEF Instagram!None, Instagram!Message, Instagram!Status, Instagram!NoSend, Instagram!Sends
<1>2. message[m] = Instagram!None /\ Instagram!None.attempts = 0
   BY <1>0 DEF InstaUnwritten, Instagram!Send, Instagram!None
<1>3. message' = [message EXCEPT ![m] = x]
   BY DEF Instagram!Send
<1>4. message' \in [Messages -> Instagram!Message] /\ message'[m] = x /\ \A n \in Messages \ {m} : message'[n] = message[n]
   BY <1>0, <1>1, <1>3, InstaReplyIs
<1>5. near' \subseteq sent \X Messages /\ \A p \in near' : p \in near \/ p[2] = m
   BY <1>0 DEF Instagram!TypeOK, Instagram!Send
<1>6. Instagram!TypeOK'
   BY <1>0, <1>4, <1>5 DEF Instagram!TypeOK, Instagram!Send, Instagram!Wake, Instagram!account
<1>7. InstaWindowsAreOfWritten'
   <2>1. \A n \in Messages : Instagram!HasStatus(n, {"NONE"})' => Instagram!HasStatus(n, {"NONE"}) /\ n # m
      BY <1>1, <1>4 DEF Instagram!HasStatus
   <2>2. \A p \in near : p[2] \in Messages
      BY <1>0 DEF Instagram!TypeOK
   <2>. QED BY <1>0, <1>5, <2>1, <2>2 DEF InstaWindowsAreOfWritten, Instagram!Send
<1>8. UNCHANGED <<worker, sent, stalls, retries>> /\ Instagram!HasStatus(m, {"NONE", "PENDING"})
   BY DEF Instagram!Send, Instagram!HasStatus
<1>. QED BY <1>1, <1>2, <1>3, <1>6, <1>7, <1>8, InstaRewritten

LEMMA InstaRetryWriteKeeps == ASSUME InstagramBounds, InstaIInv, NEW r \in Managers, Instagram!RetryWrite(r) PROVE InstaIInv'
<1>. DEFINE m == retrying[r]
<1>0. Instagram!TypeOK /\ InstaWindowsAreOfWritten
   BY DEF InstaIInv
<1>1. m \in Messages /\ message[m] \in Instagram!Message
   BY <1>0 DEF Instagram!TypeOK, Instagram!RetryWrite
<1>2. PICK x : x = [message[m] EXCEPT !.status = "PENDING", !.due = TRUE, !.lease = 0, !.expired = FALSE]
   OBVIOUS
<1>3. x \in Instagram!Message /\ x.status = "PENDING" /\ x.attempts = message[m].attempts
   BY <1>1, <1>2 DEF Instagram!Message, Instagram!Status
<1>4. message' = [message EXCEPT ![m] = x]
   BY <1>2 DEF Instagram!RetryWrite
<1>5. message' \in [Messages -> Instagram!Message] /\ message'[m] = x /\ \A n \in Messages \ {m} : message'[n] = message[n]
   BY <1>0, <1>1, <1>3, <1>4, InstaReplyIs
<1>6. /\ retries' \in [Messages -> Nat] /\ retries'[m] = retries[m] + 1
      /\ \A n \in Messages \ {m} : retries'[n] = retries[n]
   BY <1>0, <1>1 DEF Instagram!TypeOK, Instagram!RetryWrite
<1>7. retrying' \in [Managers -> Messages \cup {NoMessage}] /\ queue' \subseteq Messages
   BY <1>0, <1>1 DEF Instagram!TypeOK, Instagram!RetryWrite, Instagram!Wake
<1>8. Instagram!TypeOK'
   BY <1>0, <1>5, <1>6, <1>7 DEF Instagram!TypeOK, Instagram!RetryWrite, Instagram!account, Instagram!clock
<1>9. \A n \in Messages : Instagram!HasStatus(n, {"NONE"})' => Instagram!HasStatus(n, {"NONE"})
   BY <1>3, <1>5 DEF Instagram!HasStatus
<1>10. InstaWindowsAreOfWritten'
   BY <1>0, <1>9, InstaSameWindows DEF Instagram!RetryWrite, Instagram!clock
<1>11. UNCHANGED <<worker, sent, stalls>>
   BY DEF Instagram!RetryWrite
<1>. QED BY <1>1, <1>3, <1>4, <1>6, <1>8, <1>10, <1>11, InstaRewritten

LEMMA InstaEchoMatchesKeeps ==
    ASSUME InstagramBounds, InstaIInv, NEW s \in sent, NEW m \in Messages, Instagram!EchoMatches(s, m)
    PROVE  InstaIInv'
<1>0. Instagram!TypeOK /\ InstaWindowsAreOfWritten
   BY DEF InstaIInv
<1>1. message[m] \in Instagram!Message /\ s \in Instagram!Sends
   BY <1>0 DEF Instagram!TypeOK
<1>2. PICK x : x = [message[m] EXCEPT !.status = "SENT", !.provider = s, !.lease = 0, !.expired = FALSE, !.due = FALSE]
   OBVIOUS
<1>3. x \in Instagram!Message /\ x.status = "SENT" /\ x.attempts = message[m].attempts
   BY <1>1, <1>2 DEF Instagram!Message, Instagram!Status, Instagram!Final
<1>4. message' = [message EXCEPT ![m] = x]
   BY <1>2 DEF Instagram!EchoMatches
<1>5. message' \in [Messages -> Instagram!Message] /\ message'[m] = x /\ \A n \in Messages \ {m} : message'[n] = message[n]
   BY <1>0, <1>3, <1>4, InstaReplyIs
<1>6. Instagram!TypeOK'
   BY <1>0, <1>5 DEF Instagram!TypeOK, Instagram!EchoMatches, Instagram!account, Instagram!clock
<1>7. \A n \in Messages : Instagram!HasStatus(n, {"NONE"})' => Instagram!HasStatus(n, {"NONE"})
   BY <1>3, <1>5 DEF Instagram!HasStatus
<1>8. InstaWindowsAreOfWritten'
   BY <1>0, <1>7, InstaSameWindows DEF Instagram!EchoMatches, Instagram!clock
<1>9. UNCHANGED <<worker, sent, stalls, retries>> /\ x.status \in Instagram!Final
   BY <1>3 DEF Instagram!EchoMatches, Instagram!Final
<1>. QED BY <1>3, <1>4, <1>6, <1>8, <1>9, InstaRewritten

LEMMA InstaBecomeDueKeeps == ASSUME InstagramBounds, InstaIInv, NEW m \in Messages, Instagram!BecomeDue(m) PROVE InstaIInv'
<1>0. Instagram!TypeOK /\ InstaWindowsAreOfWritten
   BY DEF InstaIInv
<1>1. message[m] \in Instagram!Message /\ message[m].status = "PENDING"
   BY <1>0 DEF Instagram!TypeOK, Instagram!BecomeDue, Instagram!HasStatus
<1>2. PICK x : x = [message[m] EXCEPT !.due = TRUE]
   OBVIOUS
<1>3. x \in Instagram!Message /\ x.status = "PENDING" /\ x.attempts = message[m].attempts
   BY <1>1, <1>2 DEF Instagram!Message
<1>4. message' = [message EXCEPT ![m] = x]
   BY <1>2 DEF Instagram!BecomeDue
<1>5. message' \in [Messages -> Instagram!Message] /\ message'[m] = x /\ \A n \in Messages \ {m} : message'[n] = message[n]
   BY <1>0, <1>3, <1>4, InstaReplyIs
<1>6. Instagram!TypeOK'
   BY <1>0, <1>5 DEF Instagram!TypeOK, Instagram!BecomeDue, Instagram!account, Instagram!clock
<1>7. \A n \in Messages : Instagram!HasStatus(n, {"NONE"})' => Instagram!HasStatus(n, {"NONE"})
   BY <1>3, <1>5 DEF Instagram!HasStatus
<1>8. InstaWindowsAreOfWritten'
   BY <1>0, <1>7, InstaSameWindows DEF Instagram!BecomeDue, Instagram!clock
<1>9. UNCHANGED <<worker, sent, stalls, retries>> /\ Instagram!HasStatus(m, {"NONE", "PENDING"})
   BY <1>1 DEF Instagram!BecomeDue, Instagram!HasStatus
<1>. QED BY <1>3, <1>4, <1>6, <1>8, <1>9, InstaRewritten

\* A lease that expires frees a claim: of a worker, which counts as a stall, or
\* of none, which was counted when that worker was lost.
LEMMA InstaTimePassesKeeps == ASSUME InstagramBounds, InstaIInv, Instagram!TimePasses PROVE InstaIInv'
<1>0. Instagram!TypeOK /\ InstaWindowsAreOfWritten /\ InstaRepliesAccounted /\ IsFiniteSet(sent)
   BY DEF InstaIInv
<1>1. \A m \in Messages :
         /\ message'[m] \in Instagram!Message /\ message'[m].status = message[m].status
         /\ message'[m].attempts = message[m].attempts /\ message'[m].lease = message[m].lease
         /\ m \notin Instagram!Held => message'[m] = message[m]
   <2>. SUFFICES ASSUME NEW m \in Messages
                 PROVE  /\ message'[m] \in Instagram!Message /\ message'[m].status = message[m].status
                        /\ message'[m].attempts = message[m].attempts /\ message'[m].lease = message[m].lease
                        /\ m \notin Instagram!Held => message'[m] = message[m]
      OBVIOUS
   <2>1. message[m] \in Instagram!Message
      BY <1>0 DEF Instagram!TypeOK
   <2>2. PICK x : x = [message[m] EXCEPT !.expired = TRUE]
      OBVIOUS
   <2>3. /\ x \in Instagram!Message /\ x.status = message[m].status /\ x.attempts = message[m].attempts
         /\ x.lease = message[m].lease
      BY <2>1, <2>2 DEF Instagram!Message
   <2>4. message'[m] = IF m \in Instagram!Held THEN x ELSE message[m]
      BY <2>2 DEF Instagram!TimePasses
   <2>. QED BY <2>1, <2>3, <2>4
<1>2. IsFiniteSet(Instagram!Outlived) /\ Cardinality(Instagram!Outlived) \in Nat
   <2>1. Instagram!Outlived \subseteq Messages
      BY DEF Instagram!Outlived, Instagram!Held
   <2>. QED BY <2>1, FS_Subset, FS_CardinalityType DEF InstagramBounds
<1>3. message' \in [Messages -> Instagram!Message] /\ stalls' \in Nat /\ stalls' = stalls + Cardinality(Instagram!Outlived)
   BY <1>0, <1>1, <1>2, SameCardinality DEF Instagram!TimePasses, Instagram!TypeOK
<1>4. Instagram!TypeOK'
   BY <1>0, <1>3 DEF Instagram!TypeOK, Instagram!TimePasses, Instagram!account
<1>5. InstaWindowsAreOfWritten'
   BY <1>0, <1>1, InstaSameWindows DEF Instagram!TimePasses, Instagram!HasStatus
<1>6. InstaUnwritten'
   <2>. SUFFICES ASSUME NEW m \in Messages, message'[m].status = "NONE" PROVE message'[m] = Instagram!None
      BY DEF InstaUnwritten, Instagram!HasStatus
   <2>. QED BY <1>1 DEF InstaIInv, InstaUnwritten, Instagram!HasStatus, Instagram!Held
<1>7. InstaWorkersKnowReplies' /\ InstaOneClaimEach'
   BY <1>1 DEF InstaIInv, InstaWorkersKnowReplies, InstaKnowsReply, InstaOneClaimEach, Instagram!TimePasses
<1>8. InstaRepliesAccounted'
   <2>. SUFFICES ASSUME NEW m \in Messages
                 PROVE  Cardinality(Instagram!SendsOf(m)') + Cardinality(InstaMaySend(m)') + InstaTicket(m)' <= 1 + stalls' + retries'[m]
      BY DEF InstaRepliesAccounted
   <2>1. Instagram!SendsOf(m)' = Instagram!SendsOf(m) /\ InstaMaySend(m)' = InstaMaySend(m) /\ retries' = retries
      BY DEF Instagram!SendsOf, InstaMaySend, Instagram!TimePasses
   <2>2. Cardinality(Instagram!SendsOf(m)) + Cardinality(InstaMaySend(m)) + InstaTicket(m) <= 1 + stalls + retries[m]
      BY <1>0 DEF InstaRepliesAccounted
   <2>3. /\ Cardinality(Instagram!SendsOf(m)) \in Nat /\ Cardinality(InstaMaySend(m)) \in Nat
         /\ InstaTicket(m) \in 0..1
         /\ InstaTicket(m)' \in 0..1 /\ stalls \in Nat /\ retries[m] \in Nat
      BY <1>0, <1>4, InstaNumbers, InstaNextNumbers DEF Instagram!TimePasses
   <2>4. CASE m \in Instagram!Outlived
      <3>1. Cardinality(Instagram!Outlived) # 0
         BY <1>2, <2>4, FS_EmptySet
      <3>. QED BY <1>2, <1>3, <2>1, <2>2, <2>3, <3>1
   <2>5. CASE m \in Instagram!Held \ Instagram!Outlived
      <3>1. \A w \in Workers : ~Instagram!Owns(w, m)
         BY <2>5 DEF Instagram!Outlived
      <3>2. InstaTicket(m) = 1
         BY <2>5, <3>1 DEF InstaTicket, InstaMayBeClaimed, Instagram!Held, InstaKeeps
      <3>. QED BY <1>2, <1>3, <2>1, <2>2, <2>3, <3>2
   <2>6. CASE m \notin Instagram!Held
      <3>1. \A w \in Workers : InstaKeeps(w, m) <=> InstaKeeps(w, m)'
         BY <1>1 DEF InstaKeeps, Instagram!Owns, Instagram!HasStatus, Instagram!TimePasses
      <3>2. InstaTicket(m)' = InstaTicket(m)
         BY <1>1, <2>6, <3>1, InstaSameTicket
      <3>. QED BY <1>2, <1>3, <2>1, <2>2, <2>3, <3>2
   <2>. QED BY <2>4, <2>5, <2>6 DEF Instagram!Outlived
<1>. QED BY <1>0, <1>4, <1>5, <1>6, <1>7, <1>8 DEF InstaIInv, Instagram!TimePasses

-----------------------------------------------------------------------------
(* The steps of a worker                                                    *)

\* A worker that goes on keeps all but the account.
InstaGoesOn(w, phase, result) ==
    /\ worker' \in [Workers -> Instagram!Work] /\ InstaOthers(w) /\ InstaSameClaim(w)
    /\ worker'[w].phase = phase /\ worker'[w].result = result

LEMMA InstaGoingOnKnows ==
    ASSUME InstaIInv, Instagram!TypeOK', NEW w \in Workers, NEW phase, NEW result, InstaGoesOn(w, phase, result),
           worker[w].phase # "idle", phase = "finishing" => result # "NONE", message' = message
    PROVE  InstaWorkersKnowReplies' /\ InstaOneClaimEach'
<1>0. Instagram!TypeOK /\ InstaWorkersKnowReplies /\ InstaOneClaimEach /\ InstaOthers(w) /\ InstaSameClaim(w)
   BY DEF InstaIInv, InstaGoesOn
<1>1. InstaKnowsReply(w)'
   BY <1>0 DEF InstaWorkersKnowReplies, InstaKnowsReply, InstaSameClaim, InstaGoesOn
<1>2. \A m \in Messages : message[m].attempts <= message'[m].attempts
   BY <1>0 DEF Instagram!TypeOK, Instagram!Message
<1>. QED BY <1>0, <1>1, <1>2, InstaOthersKnow

\* Of the other replies nothing changes.
LEMMA InstaOtherReplies ==
    ASSUME InstagramBounds, InstaIInv, Instagram!TypeOK', IsFiniteSet(sent'), NEW w \in Workers, InstaOthers(w),
           NEW m \in Messages, message'[m] = message[m],
           worker[w].phase = "idle" \/ worker[w].message # m,
           worker'[w].phase = "idle" \/ worker'[w].message # m,
           Instagram!SendsOf(m)' = Instagram!SendsOf(m)
    PROVE  Cardinality(Instagram!SendsOf(m)') + Cardinality(InstaMaySend(m)') + InstaTicket(m)' =
           Cardinality(Instagram!SendsOf(m)) + Cardinality(InstaMaySend(m)) + InstaTicket(m)
<1>1. InstaMaySend(m)' = InstaMaySend(m)
   BY DEF InstaMaySend, InstaOthers
<1>2. \A v \in Workers : InstaKeeps(v, m) <=> InstaKeeps(v, m)'
   BY DEF InstaKeeps, Instagram!Owns, Instagram!HasStatus, InstaOthers
<1>3. InstaTicket(m)' = InstaTicket(m)
   BY <1>2, InstaSameTicket
<1>. QED BY <1>1, <1>3

\* A worker goes on without having sent, and keeps what it kept.
LEMMA InstaGoesOnQuietly ==
    ASSUME InstagramBounds, InstaIInv, NEW w \in Workers, NEW phase \in Instagram!Phase, NEW result \in Instagram!Result,
           InstaGoesOn(w, phase, result), Instagram!TypeOK', InstaWindowsAreOfWritten',
           worker[w].phase \in {"claimed", "loaded", "sending"}, phase # "idle",
           phase = "finishing" => result \notin {"NONE", "PENDING"},
           UNCHANGED <<message, sent, stalls, retries>>
    PROVE  InstaIInv'
<1>0. Instagram!TypeOK /\ IsFiniteSet(sent) /\ IsFiniteSet(sent') /\ InstaOthers(w) /\ InstaSameClaim(w)
   BY DEF InstaIInv, InstaGoesOn
<1>1. InstaWorkersKnowReplies' /\ InstaOneClaimEach'
   BY InstaGoingOnKnows
<1>2. InstaUnwritten'
   BY DEF InstaIInv, InstaUnwritten, Instagram!HasStatus
<1>3. \A m \in Messages :
         Cardinality(Instagram!SendsOf(m)') + Cardinality(InstaMaySend(m)') + InstaTicket(m)' <= 1 + stalls' + retries'[m]
   <2>. SUFFICES ASSUME NEW m \in Messages
                 PROVE  Cardinality(Instagram!SendsOf(m)') + Cardinality(InstaMaySend(m)') + InstaTicket(m)' <= 1 + stalls' + retries'[m]
      OBVIOUS
   <2>1. Cardinality(Instagram!SendsOf(m)) + Cardinality(InstaMaySend(m)) + InstaTicket(m) <= 1 + stalls + retries[m]
      BY DEF InstaIInv, InstaRepliesAccounted
   <2>2. /\ Cardinality(Instagram!SendsOf(m)) \in Nat /\ Cardinality(InstaMaySend(m)) \in Nat
         /\ InstaTicket(m) \in 0..1
         /\ Cardinality(InstaMaySend(m)') \in Nat /\ stalls \in Nat /\ retries[m] \in Nat
      BY <1>0, InstaNumbers, InstaNextNumbers
   <2>3. Instagram!SendsOf(m)' = Instagram!SendsOf(m)
      BY DEF Instagram!SendsOf
   <2>4. InstaMaySend(m)' \subseteq InstaMaySend(m) /\ IsFiniteSet(InstaMaySend(m))
      BY <1>0, InstaNumbers DEF InstaMaySend, InstaOthers, InstaSameClaim
   <2>5. Cardinality(InstaMaySend(m)') <= Cardinality(InstaMaySend(m))
      BY <2>4, FS_Subset
   <2>6. \A v \in Workers : InstaKeeps(v, m) <=> InstaKeeps(v, m)'
      <3>1. \A v \in Workers \ {w} : InstaKeeps(v, m) <=> InstaKeeps(v, m)'
         BY <1>0, InstaOthersKeep
      <3>2. Instagram!Owns(w, m) <=> Instagram!Owns(w, m)'
         BY <1>0 DEF Instagram!Owns, Instagram!HasStatus, InstaSameClaim, InstaGoesOn
      <3>3. InstaKeeps(w, m) <=> InstaKeeps(w, m)'
         BY <3>2 DEF InstaKeeps, InstaGoesOn
      <3>. QED BY <3>1, <3>3
   <2>7. InstaTicket(m)' = InstaTicket(m)
      BY <2>6, InstaSameTicket
   <2>. QED BY <2>1, <2>2, <2>3, <2>5, <2>7
<1>. QED BY <1>0, <1>1, <1>2, <1>3 DEF InstaIInv, InstaRepliesAccounted

\* The worker may send no more and the claim is free again.
LEMMA InstaGivesBack ==
    ASSUME InstagramBounds, InstaIInv, NEW w \in Workers, InstaGoesOn(w, "finishing", "PENDING"), Instagram!TypeOK', InstaWindowsAreOfWritten',
           worker[w].phase = "sending", UNCHANGED <<message, sent, stalls, retries>>
    PROVE  InstaIInv'
<1>0. Instagram!TypeOK /\ IsFiniteSet(sent) /\ IsFiniteSet(sent') /\ InstaOthers(w) /\ InstaSameClaim(w)
   BY DEF InstaIInv, InstaGoesOn
<1>1. InstaWorkersKnowReplies' /\ InstaOneClaimEach'
   BY InstaGoingOnKnows
<1>2. InstaUnwritten'
   BY DEF InstaIInv, InstaUnwritten, Instagram!HasStatus
<1>3. \A m \in Messages :
         Cardinality(Instagram!SendsOf(m)') + Cardinality(InstaMaySend(m)') + InstaTicket(m)' <= 1 + stalls' + retries'[m]
   <2>. SUFFICES ASSUME NEW m \in Messages
                 PROVE  Cardinality(Instagram!SendsOf(m)') + Cardinality(InstaMaySend(m)') + InstaTicket(m)' <= 1 + stalls' + retries'[m]
      OBVIOUS
   <2>1. Cardinality(Instagram!SendsOf(m)) + Cardinality(InstaMaySend(m)) + InstaTicket(m) <= 1 + stalls + retries[m]
      BY DEF InstaIInv, InstaRepliesAccounted
   <2>2. /\ Cardinality(Instagram!SendsOf(m)) \in Nat /\ Cardinality(InstaMaySend(m)) \in Nat
         /\ InstaTicket(m) \in 0..1
         /\ InstaTicket(m)' \in 0..1 /\ stalls \in Nat /\ retries[m] \in Nat
      BY <1>0, InstaNumbers, InstaNextNumbers
   <2>3. Instagram!SendsOf(m)' = Instagram!SendsOf(m)
      BY DEF Instagram!SendsOf
   <2>4. CASE worker[w].message # m
      <3>1. worker'[w].message # m
         BY <1>0, <2>4 DEF InstaSameClaim
      <3>. QED BY <1>0, <2>1, <2>3, <2>4, <3>1, InstaOtherReplies
   <2>5. CASE worker[w].message = m
      <3>1. w \in InstaMaySend(m) /\ w \notin InstaMaySend(m)'
         BY <2>5 DEF InstaMaySend, InstaGoesOn
      <3>2. PICK n \in Nat : /\ Cardinality(InstaMaySend(m)) = n + InstaOne(w \in InstaMaySend(m))
                             /\ Cardinality(InstaMaySend(m)') = n + InstaOne(w \in InstaMaySend(m)')
         BY <1>0, InstaCallersMove
      <3>3. Cardinality(InstaMaySend(m)) = n + 1 /\ Cardinality(InstaMaySend(m)') = n
         BY <3>1, <3>2 DEF InstaOne
      <3>. QED BY <2>1, <2>2, <2>3, <3>3
   <2>. QED BY <2>4, <2>5
<1>. QED BY <1>0, <1>1, <1>2, <1>3 DEF InstaIInv, InstaRepliesAccounted

\* The customer gets the text that the worker might send.
LEMMA InstaDelivers ==
    ASSUME InstagramBounds, InstaIInv, NEW w \in Workers, NEW phase \in {"finishing", "refusing"}, NEW result \in Instagram!Result,
           InstaGoesOn(w, phase, result), result \notin {"NONE", "PENDING"}, Instagram!TypeOK', InstaWindowsAreOfWritten',
           worker[w].phase = "sending", sent' = sent \cup {<<worker[w].message, worker[w].lease>>},
           UNCHANGED <<message, stalls, retries>>
    PROVE  InstaIInv'
<1>0. Instagram!TypeOK /\ IsFiniteSet(sent) /\ InstaOthers(w) /\ InstaSameClaim(w)
   BY DEF InstaIInv, InstaGoesOn
<1>1. InstaWorkersKnowReplies' /\ InstaOneClaimEach'
   BY InstaGoingOnKnows
<1>2. InstaUnwritten'
   BY DEF InstaIInv, InstaUnwritten, Instagram!HasStatus
<1>3. IsFiniteSet(sent')
   BY <1>0, FS_AddElement
<1>4. \A m \in Messages :
         Cardinality(Instagram!SendsOf(m)') + Cardinality(InstaMaySend(m)') + InstaTicket(m)' <= 1 + stalls' + retries'[m]
   <2>. SUFFICES ASSUME NEW m \in Messages
                 PROVE  Cardinality(Instagram!SendsOf(m)') + Cardinality(InstaMaySend(m)') + InstaTicket(m)' <= 1 + stalls' + retries'[m]
      OBVIOUS
   <2>. DEFINE s == <<worker[w].message, worker[w].lease>>
   <2>1. Cardinality(Instagram!SendsOf(m)) + Cardinality(InstaMaySend(m)) + InstaTicket(m) <= 1 + stalls + retries[m]
      BY DEF InstaIInv, InstaRepliesAccounted
   <2>2. /\ Cardinality(Instagram!SendsOf(m)) \in Nat /\ Cardinality(InstaMaySend(m)) \in Nat
         /\ InstaTicket(m) \in 0..1
         /\ IsFiniteSet(Instagram!SendsOf(m)) /\ stalls \in Nat /\ retries[m] \in Nat
         /\ Cardinality(Instagram!SendsOf(m)') \in Nat
      BY <1>0, <1>3, InstaNumbers, InstaNextNumbers
   <2>3. CASE worker[w].message # m
      <3>1. Instagram!SendsOf(m)' = Instagram!SendsOf(m)
         BY <2>3 DEF Instagram!SendsOf
      <3>2. worker'[w].message # m
         BY <1>0, <2>3 DEF InstaSameClaim
      <3>. QED BY <1>0, <1>3, <2>1, <2>3, <3>1, <3>2, InstaOtherReplies
   <2>4. CASE worker[w].message = m
      <3>1. Instagram!SendsOf(m)' = Instagram!SendsOf(m) \cup {s}
         BY <2>4 DEF Instagram!SendsOf
      <3>2. Cardinality(Instagram!SendsOf(m)') <= Cardinality(Instagram!SendsOf(m)) + 1
         <4>1. \/ Cardinality(Instagram!SendsOf(m) \cup {s}) = Cardinality(Instagram!SendsOf(m))
               \/ Cardinality(Instagram!SendsOf(m) \cup {s}) = Cardinality(Instagram!SendsOf(m)) + 1
            BY <2>2, FS_AddElement
         <4>. QED BY <2>2, <3>1, <4>1
      <3>3. w \in InstaMaySend(m) /\ w \notin InstaMaySend(m)'
         BY <2>4 DEF InstaMaySend, InstaGoesOn
      <3>4. PICK n \in Nat : /\ Cardinality(InstaMaySend(m)) = n + InstaOne(w \in InstaMaySend(m))
                             /\ Cardinality(InstaMaySend(m)') = n + InstaOne(w \in InstaMaySend(m)')
         BY <1>0, <1>3, InstaCallersMove
      <3>5. Cardinality(InstaMaySend(m)) = n + 1 /\ Cardinality(InstaMaySend(m)') = n
         BY <3>3, <3>4 DEF InstaOne
      <3>6. Instagram!Owns(w, m) <=> Instagram!Owns(w, m)'
         BY <1>0 DEF Instagram!Owns, Instagram!HasStatus, InstaSameClaim, InstaGoesOn
      <3>7. \A v \in Workers : InstaKeeps(v, m) <=> InstaKeeps(v, m)'
         <4>1. \A v \in Workers \ {w} : InstaKeeps(v, m) <=> InstaKeeps(v, m)'
            BY <1>0, InstaOthersKeep
         <4>2. InstaKeeps(w, m) <=> InstaKeeps(w, m)'
            BY <3>6 DEF InstaKeeps, InstaGoesOn
         <4>. QED BY <4>1, <4>2
      <3>8. InstaTicket(m)' = InstaTicket(m)
         BY <3>7, InstaSameTicket
      <3>. QED BY <2>1, <2>2, <3>2, <3>5, <3>8
   <2>. QED BY <2>3, <2>4
<1>. QED BY <1>0, <1>1, <1>2, <1>3, <1>4 DEF InstaIInv, InstaRepliesAccounted

LEMMA InstaLoadKeeps == ASSUME InstagramBounds, InstaIInv, NEW w \in Workers, Instagram!Load(w) PROVE InstaIInv'
<1>0. Instagram!TypeOK /\ InstaWindowsAreOfWritten
   BY DEF InstaIInv
<1>1. InstaGoesOn(w, "loaded", "NONE")
   BY <1>0, InstaWorkGoes DEF Instagram!Load, InstaGoesOn, Instagram!Phase, Instagram!Result
<1>2. Instagram!TypeOK'
   BY <1>0, <1>1 DEF Instagram!TypeOK, Instagram!Load, InstaGoesOn, Instagram!account, Instagram!clock
<1>3. InstaWindowsAreOfWritten'
   BY <1>0, InstaSameWindows DEF Instagram!Load, Instagram!HasStatus, Instagram!clock
<1>4. worker[w].phase = "claimed" /\ UNCHANGED <<message, sent, stalls, retries>>
   BY DEF Instagram!Load
<1>. QED BY <1>1, <1>2, <1>3, <1>4, InstaGoesOnQuietly DEF Instagram!Phase, Instagram!Result

LEMMA InstaLookUpKeeps == ASSUME InstagramBounds, InstaIInv, NEW w \in Workers, Instagram!LookUp(w) PROVE InstaIInv'
<1>0. Instagram!TypeOK /\ InstaWindowsAreOfWritten
   BY DEF InstaIInv
<1>1. worker[w] \in Instagram!Work /\ connection.generation \in Nat
   BY <1>0 DEF Instagram!TypeOK
<1>2. PICK x : x = [worker[w] EXCEPT !.phase = "sending", !.account = connection.generation]
   OBVIOUS
<1>3. /\ x \in Instagram!Work /\ x.phase = "sending" /\ x.result = worker[w].result
      /\ x.result \in Instagram!Result
      /\ x.message = worker[w].message /\ x.lease = worker[w].lease
   BY <1>1, <1>2 DEF Instagram!Work, Instagram!Phase
<1>4. worker' = [worker EXCEPT ![w] = x]
   BY <1>2 DEF Instagram!LookUp
<1>5. InstaGoesOn(w, "sending", worker[w].result)
   BY <1>0, <1>3, <1>4 DEF InstaGoesOn, InstaSameClaim, InstaOthers, Instagram!TypeOK
<1>6. Instagram!TypeOK'
   BY <1>0, <1>5 DEF Instagram!TypeOK, Instagram!LookUp, InstaGoesOn, Instagram!account, Instagram!clock
<1>7. InstaWindowsAreOfWritten'
   BY <1>0, InstaSameWindows DEF Instagram!LookUp, Instagram!HasStatus, Instagram!clock
<1>8. worker[w].phase = "loaded" /\ UNCHANGED <<message, sent, stalls, retries>>
   BY DEF Instagram!LookUp
<1>. QED BY <1>3, <1>5, <1>6, <1>7, <1>8, InstaGoesOnQuietly DEF Instagram!Phase

LEMMA InstaFailEarlyKeeps == ASSUME InstagramBounds, InstaIInv, NEW w \in Workers, Instagram!FailEarly(w) PROVE InstaIInv'
<1>0. Instagram!TypeOK /\ InstaWindowsAreOfWritten
   BY DEF InstaIInv
<1>1. InstaGoesOn(w, "finishing", "FAILED")
   BY <1>0, InstaWorkGoes DEF Instagram!FailEarly, InstaGoesOn, Instagram!Phase, Instagram!Result,
      Instagram!Final
<1>2. Instagram!TypeOK'
   BY <1>0, <1>1 DEF Instagram!TypeOK, Instagram!FailEarly, InstaGoesOn, Instagram!account, Instagram!clock
<1>3. InstaWindowsAreOfWritten'
   BY <1>0, InstaSameWindows DEF Instagram!FailEarly, Instagram!HasStatus, Instagram!clock
<1>4. worker[w].phase \in {"claimed", "loaded"} /\ UNCHANGED <<message, sent, stalls, retries>>
   BY DEF Instagram!FailEarly
<1>. QED BY <1>1, <1>2, <1>3, <1>4, InstaGoesOnQuietly DEF Instagram!Phase, Instagram!Result, Instagram!Final

LEMMA InstaAnswerKeeps ==
    ASSUME InstagramBounds, InstaIInv, NEW w \in Workers, NEW delivered \in BOOLEAN,
           NEW phase \in {"finishing", "refusing"}, NEW result \in Instagram!Result \ {"NONE"},
           result = "PENDING" => ~delivered /\ phase = "finishing", Instagram!Answer(w, delivered, phase, result)
    PROVE  InstaIInv'
<1>. DEFINE s == <<worker[w].message, worker[w].lease>>
<1>0. Instagram!TypeOK /\ InstaWindowsAreOfWritten
   BY DEF InstaIInv
<1>1. InstaGoesOn(w, phase, result) /\ worker[w].phase = "sending" /\ UNCHANGED <<message, stalls, retries>>
   BY <1>0, InstaWorkGoes DEF Instagram!Answer, InstaGoesOn, Instagram!Phase
<1>2. CASE ~delivered
   <2>1. sent' = sent /\ recent' = recent /\ near' = near
      BY <1>2 DEF Instagram!Answer, Instagram!clock
   <2>2. Instagram!TypeOK'
      BY <1>0, <1>1, <2>1 DEF Instagram!TypeOK, Instagram!Answer, InstaGoesOn, Instagram!account
   <2>3. InstaWindowsAreOfWritten'
      BY <1>0, <1>1, <2>1, InstaSameWindows DEF Instagram!HasStatus
   <2>4. CASE result = "PENDING"
      BY <1>1, <2>1, <2>2, <2>3, <2>4, InstaGivesBack
   <2>5. CASE result # "PENDING"
      BY <1>1, <2>1, <2>2, <2>3, <2>5, InstaGoesOnQuietly DEF Instagram!Phase
   <2>. QED BY <2>4, <2>5
<1>3. CASE delivered
   <2>1. s \in Instagram!Sends /\ worker[w].message \in Messages
      BY <1>0, <1>1 DEF InstaIInv, Instagram!TypeOK, Instagram!Work, InstaWorkersKnowReplies, InstaKnowsReply,
         Instagram!Sends
   <2>2. /\ sent' = sent \cup {s} /\ recent' = recent \cup {s}
         /\ near' = near \cup ({s} \X (recent \cap Messages))
      BY <1>3 DEF Instagram!Answer
   <2>3. Instagram!TypeOK'
      <3>1. sent' \subseteq Instagram!Sends /\ recent' \subseteq Messages \cup sent' /\ near' \subseteq sent' \X Messages
            /\ rows' \subseteq sent'
         BY <1>0, <2>1, <2>2 DEF Instagram!TypeOK, Instagram!Answer
      <3>. QED BY <1>0, <1>1, <3>1 DEF Instagram!TypeOK, Instagram!Answer, InstaGoesOn, Instagram!account
   <2>4. InstaWindowsAreOfWritten'
      <3>1. \A m \in Messages : m \in recent' => m \in recent
         BY <2>1, <2>2 DEF InstagramBounds
      <3>2. \A p \in near' : p \in near \/ (p[2] \in Messages /\ p[2] \in recent)
         <4>1. \A p \in near' : p \in near \/ p[2] \in recent \cap Messages
            BY <2>2, InstaSecondOfPair
         <4>. QED BY <4>1
      <3>. QED BY <1>0, <1>1, <3>1, <3>2 DEF InstaWindowsAreOfWritten, Instagram!HasStatus
   <2>. QED BY <1>1, <1>3, <2>2, <2>3, <2>4, InstaDelivers
<1>. QED BY <1>2, <1>3

\* The worker loses what it knew.
LEMMA InstaRestingKnows ==
    ASSUME InstaIInv, Instagram!TypeOK', NEW w \in Workers, worker' = [worker EXCEPT ![w] = Instagram!Idle],
           \A m \in Messages : message'[m].attempts = message[m].attempts
    PROVE  InstaWorkersKnowReplies' /\ InstaOneClaimEach'
<1>0. Instagram!TypeOK /\ InstaWorkersKnowReplies /\ InstaOneClaimEach
   BY DEF InstaIInv
<1>1. InstaOthers(w) /\ worker'[w].phase = "idle"
   BY <1>0, InstaWorkEnds, InstaIdleType
<1>2. InstaKnowsReply(w)'
   BY <1>1 DEF InstaKnowsReply
<1>3. \A m \in Messages : message[m].attempts <= message'[m].attempts
   BY <1>0 DEF Instagram!TypeOK, Instagram!Message
<1>. QED BY <1>0, <1>1, <1>2, <1>3, InstaOthersKnow

\* A worker ends: it settles its reply if the reply is still its own.
LEMMA InstaEnds ==
    ASSUME InstagramBounds, InstaIInv, NEW w \in Workers, NEW result \in Instagram!Result \ {"NONE"},
           \/ worker[w].phase = "finishing" /\ worker[w].result = result
           \/ worker[w].phase = "refusing" /\ result = "FAILED",
           message' = IF Instagram!Owns(w, worker[w].message) THEN Instagram!Settled(w, result) ELSE message,
           worker' = [worker EXCEPT ![w] = Instagram!Idle],
           connection' \in [generation : Nat, status : {"ERROR", "ACTIVE", "REAUTH_REQUIRED", "DISCONNECTED"}],
           UNCHANGED <<Instagram!clock, retrying, queue, rows, stalls, retries, sent, unusable>>
    PROVE  InstaIInv'
<1>0. Instagram!TypeOK /\ InstaWindowsAreOfWritten /\ IsFiniteSet(sent) /\ IsFiniteSet(sent') /\ InstaOneClaimEach /\ InstaRepliesAccounted
   BY DEF InstaIInv
<1>. PICK m \in Messages : m = worker[w].message
   BY DEF InstaIInv, InstaWorkersKnowReplies, InstaKnowsReply
<1>1. m \in Messages /\ worker[w] \in Instagram!Work /\ worker[w].phase # "idle" /\ message[m] \in Instagram!Message
   BY <1>0 DEF InstaIInv, InstaWorkersKnowReplies, InstaKnowsReply, Instagram!TypeOK
<1>2. InstaOthers(w) /\ worker'[w].phase = "idle" /\ worker' \in [Workers -> Instagram!Work]
   BY <1>0, InstaWorkEnds, InstaIdleType
<1>3. PICK x : x = [message[worker[w].message] EXCEPT
                      !.status = result, !.lease = 0, !.expired = FALSE, !.due = FALSE,
                      !.provider = IF result = "SENT" THEN <<worker[w].message, worker[w].lease>> ELSE message[worker[w].message].provider]
   OBVIOUS
<1>4. x \in Instagram!Message /\ x.status = result /\ x.attempts = message[m].attempts
   <2>1. (IF result = "SENT" THEN <<worker[w].message, worker[w].lease>> ELSE message[m].provider) \in Instagram!Sends
      BY <1>1 DEF Instagram!Message, Instagram!Work, Instagram!Sends
   <2>. QED BY <1>1, <1>3, <2>1 DEF Instagram!Message, Instagram!Result, Instagram!Status
<1>5. /\ message' \in [Messages -> Instagram!Message]
      /\ \A n \in Messages \ {m} : message'[n] = message[n]
      /\ message'[m] = IF Instagram!Owns(w, m) THEN x ELSE message[m]
   <2>1. CASE Instagram!Owns(w, m)
      <3>1. message' = [message EXCEPT ![worker[w].message] = x]
         BY <1>3, <2>1 DEF Instagram!Settled
      <3>. QED BY <1>0, <1>1, <1>4, <2>1, <3>1, InstaReplyIs
   <2>2. CASE ~Instagram!Owns(w, m)
      BY <1>0, <1>1, <2>2 DEF Instagram!TypeOK
   <2>. QED BY <2>1, <2>2
<1>6. Instagram!TypeOK'
   BY <1>0, <1>2, <1>5 DEF Instagram!TypeOK, Instagram!clock
<1>7. \A n \in Messages : message'[n].attempts = message[n].attempts
   BY <1>4, <1>5
<1>8. InstaWorkersKnowReplies' /\ InstaOneClaimEach'
   BY <1>6, <1>7, InstaRestingKnows
<1>9. \A n \in Messages : Instagram!HasStatus(n, {"NONE"})' => Instagram!HasStatus(n, {"NONE"}) /\ message'[n] = message[n]
   BY <1>1, <1>4, <1>5 DEF Instagram!HasStatus
<1>10. InstaUnwritten' /\ InstaWindowsAreOfWritten'
   BY <1>0, <1>9, InstaSameWindows DEF InstaIInv, InstaUnwritten, Instagram!clock
<1>11. InstaRepliesAccounted'
   <2>. SUFFICES ASSUME NEW n \in Messages
                 PROVE  Cardinality(Instagram!SendsOf(n)') + Cardinality(InstaMaySend(n)') + InstaTicket(n)' <= 1 + stalls' + retries'[n]
      BY DEF InstaRepliesAccounted
   <2>1. Cardinality(Instagram!SendsOf(n)) + Cardinality(InstaMaySend(n)) + InstaTicket(n) <= 1 + stalls + retries[n]
      BY <1>0 DEF InstaRepliesAccounted
   <2>2. /\ Cardinality(Instagram!SendsOf(n)) \in Nat /\ Cardinality(InstaMaySend(n)) \in Nat
         /\ InstaTicket(n) \in 0..1
         /\ InstaTicket(n)' \in 0..1 /\ stalls \in Nat /\ retries[n] \in Nat
      BY <1>0, <1>6, InstaNumbers, InstaNextNumbers
   <2>3. Instagram!SendsOf(n)' = Instagram!SendsOf(n)
      BY DEF Instagram!SendsOf
   <2>4. InstaMaySend(n)' = InstaMaySend(n)
      BY <1>2 DEF InstaMaySend, InstaOthers
   <2>5. CASE n # m
      BY <1>0, <1>2, <1>5, <1>6, <2>1, <2>3, <2>5, InstaOtherReplies
   <2>6. CASE n = m /\ ~Instagram!Owns(w, m)
      <3>1. message'[m] = message[m] /\ Instagram!Owns(w, m)' = FALSE
         BY <1>2, <1>5, <2>6 DEF Instagram!Owns
      <3>2. \A v \in Workers : InstaKeeps(v, m) <=> InstaKeeps(v, m)'
         BY <1>1, <1>2, <2>6, <3>1, InstaOthersKeep DEF InstaKeeps
      <3>3. InstaTicket(m)' = InstaTicket(m)
         BY <1>1, <3>1, <3>2, InstaSameTicket
      <3>. QED BY <2>1, <2>3, <2>4, <2>6, <3>3
   <2>7. CASE n = m /\ Instagram!Owns(w, m) /\ result # "PENDING"
      <3>1. InstaTicket(m)' = 0
         BY <1>4, <1>5, <2>7 DEF InstaTicket, InstaMayBeClaimed, Instagram!HasStatus, Instagram!Result,
            Instagram!Final
      <3>. QED BY <2>1, <2>2, <2>3, <2>4, <2>7, <3>1
   <2>8. CASE n = m /\ Instagram!Owns(w, m) /\ result = "PENDING"
      <3>1. \A v \in Workers : ~InstaKeeps(v, m)
         BY <1>0, <2>8 DEF InstaKeeps, Instagram!Owns, InstaOneClaimEach
      <3>2. InstaTicket(m) = 1
         BY <2>8, <3>1 DEF InstaTicket, InstaMayBeClaimed, Instagram!Owns
      <3>. QED BY <2>1, <2>2, <2>3, <2>4, <2>8, <3>2
   <2>. QED BY <2>5, <2>6, <2>7, <2>8
<1>. QED BY <1>0, <1>6, <1>8, <1>10, <1>11 DEF InstaIInv

LEMMA InstaFinishKeeps == ASSUME InstagramBounds, InstaIInv, NEW w \in Workers, Instagram!Finish(w) PROVE InstaIInv'
<1>1. worker[w].result \in Instagram!Result \ {"NONE"}
   BY DEF InstaIInv, Instagram!TypeOK, Instagram!Work, InstaWorkersKnowReplies, InstaKnowsReply,
      Instagram!Finish
<1>2. connection' \in [generation : Nat, status : {"ERROR", "ACTIVE", "REAUTH_REQUIRED", "DISCONNECTED"}]
   BY DEF InstaIInv, Instagram!TypeOK, Instagram!Finish, Instagram!account
<1>3. UNCHANGED <<Instagram!clock, retrying, queue, rows, stalls, retries, sent, unusable>>
   BY DEF Instagram!Finish, Instagram!account
<1>. QED BY <1>1, <1>2, <1>3, InstaEnds DEF Instagram!Finish

LEMMA InstaMarkReconnectRequiredKeeps ==
    ASSUME InstagramBounds, InstaIInv, NEW w \in Workers, Instagram!MarkReconnectRequired(w)
    PROVE  InstaIInv'
<1>1. connection' \in [generation : Nat, status : {"ERROR", "ACTIVE", "REAUTH_REQUIRED", "DISCONNECTED"}]
   BY DEF InstaIInv, Instagram!TypeOK, Instagram!MarkReconnectRequired
<1>2. "FAILED" \in Instagram!Result \ {"NONE"}
   BY DEF Instagram!Result, Instagram!Final
<1>. QED BY <1>1, <1>2, InstaEnds DEF Instagram!MarkReconnectRequired

\* A crash may free a claim, and counts as a stall.
LEMMA InstaCrashKeeps == ASSUME InstagramBounds, InstaIInv, NEW w \in Workers, Instagram!Crash(w) PROVE InstaIInv'
<1>0. Instagram!TypeOK /\ InstaWindowsAreOfWritten /\ IsFiniteSet(sent) /\ IsFiniteSet(sent') /\ InstaRepliesAccounted
   BY DEF InstaIInv, Instagram!Crash
<1>1. InstaOthers(w) /\ worker'[w].phase = "idle" /\ worker' \in [Workers -> Instagram!Work]
   BY <1>0, InstaWorkEnds, InstaIdleType DEF Instagram!Crash
<1>2. Instagram!TypeOK'
   BY <1>0, <1>1 DEF Instagram!TypeOK, Instagram!Crash, Instagram!account, Instagram!clock
<1>3. InstaWorkersKnowReplies' /\ InstaOneClaimEach'
   BY <1>2, InstaRestingKnows DEF Instagram!Crash
<1>4. InstaUnwritten' /\ InstaWindowsAreOfWritten'
   BY <1>0, InstaSameWindows DEF InstaIInv, InstaUnwritten, Instagram!HasStatus, Instagram!Crash,
      Instagram!clock
<1>5. InstaRepliesAccounted'
   <2>. SUFFICES ASSUME NEW m \in Messages
                 PROVE  Cardinality(Instagram!SendsOf(m)') + Cardinality(InstaMaySend(m)') + InstaTicket(m)' <= 1 + stalls' + retries'[m]
      BY DEF InstaRepliesAccounted
   <2>1. Cardinality(Instagram!SendsOf(m)) + Cardinality(InstaMaySend(m)) + InstaTicket(m) <= 1 + stalls + retries[m]
      BY <1>0 DEF InstaRepliesAccounted
   <2>2. /\ Cardinality(Instagram!SendsOf(m)) \in Nat /\ Cardinality(InstaMaySend(m)) \in Nat
         /\ InstaTicket(m) \in 0..1
         /\ InstaTicket(m)' \in 0..1 /\ stalls \in Nat /\ retries[m] \in Nat
         /\ Cardinality(InstaMaySend(m)') \in Nat
      BY <1>0, <1>2, InstaNumbers, InstaNextNumbers DEF Instagram!Crash
   <2>3. Instagram!SendsOf(m)' = Instagram!SendsOf(m) /\ stalls' = stalls + 1 /\ retries' = retries
      BY DEF Instagram!SendsOf, Instagram!Crash
   <2>4. InstaMaySend(m)' \subseteq InstaMaySend(m) /\ IsFiniteSet(InstaMaySend(m))
      BY <1>0, <1>1, InstaNumbers DEF InstaMaySend, InstaOthers
   <2>5. Cardinality(InstaMaySend(m)') <= Cardinality(InstaMaySend(m))
      BY <2>4, FS_Subset
   <2>. QED BY <2>1, <2>2, <2>3, <2>5
<1>. QED BY <1>0, <1>2, <1>3, <1>4, <1>5 DEF InstaIInv

\* A claim takes what was free.
LEMMA InstaClaimKeeps ==
    ASSUME InstagramBounds, InstaIInv, NEW w \in Workers, NEW m \in Messages, Instagram!Claim(w, m)
    PROVE  InstaIInv'
<1>. DEFINE claim == message[m].attempts + 1
            y == [Instagram!Idle EXCEPT !.phase = "claimed", !.message = m, !.lease = claim]
<1>0. /\ Instagram!TypeOK /\ InstaWindowsAreOfWritten /\ IsFiniteSet(sent) /\ IsFiniteSet(sent')
      /\ InstaRepliesAccounted
      /\ InstaWorkersKnowReplies /\ InstaOneClaimEach
   BY DEF InstaIInv, Instagram!Claim
<1>1. message[m] \in Instagram!Message /\ claim \in Nat /\ claim > 0 /\ claim > message[m].attempts
   BY <1>0 DEF Instagram!TypeOK, Instagram!Message
<1>2. PICK x : x = [message[m] EXCEPT !.status = "SENDING", !.attempts = claim, !.lease = claim,
                                      !.expired = FALSE, !.due = FALSE]
   OBVIOUS
<1>3. x \in Instagram!Message /\ x.status = "SENDING" /\ x.attempts = claim /\ x.lease = claim /\ x.expired = FALSE
   BY <1>1, <1>2 DEF Instagram!Message, Instagram!Status
<1>4. message' = [message EXCEPT ![m] = x]
   BY <1>2 DEF Instagram!Claim
<1>5. message' \in [Messages -> Instagram!Message] /\ message'[m] = x /\ \A n \in Messages \ {m} : message'[n] = message[n]
   BY <1>0, <1>3, <1>4, InstaReplyIs
<1>6. y \in Instagram!Work /\ y.phase = "claimed" /\ y.message = m /\ y.lease = claim
   BY <1>1, InstaIdleType DEF Instagram!Idle, Instagram!Work, Instagram!Phase, Instagram!Result
<1>7. worker' \in [Workers -> Instagram!Work] /\ worker'[w] = y /\ InstaOthers(w)
   BY <1>0, <1>6 DEF Instagram!TypeOK, Instagram!Claim, InstaOthers
<1>8. Instagram!TypeOK'
   BY <1>0, <1>5, <1>7 DEF Instagram!TypeOK, Instagram!Claim, Instagram!TakesJob, Instagram!account,
      Instagram!clock
<1>9. worker[w].phase = "idle" /\ UNCHANGED <<sent, stalls, retries>>
   BY DEF Instagram!Claim, Instagram!TakesJob
<1>10. InstaWorkersKnowReplies' /\ InstaOneClaimEach'
   <2>1. \A n \in Messages : message[n].attempts <= message'[n].attempts
      <3>1. \A n \in Messages : message[n].attempts \in Nat
         BY <1>0 DEF Instagram!TypeOK, Instagram!Message
      <3>. QED BY <1>1, <1>3, <1>5, <3>1
   <2>2. InstaKnowsReply(w)'
      BY <1>1, <1>3, <1>5, <1>6, <1>7 DEF InstaKnowsReply
   <2>3. \A n \in Messages : worker'[w].message = n => worker'[w].lease > message[n].attempts
      BY <1>1, <1>6, <1>7
   <2>. QED BY <1>0, <1>7, <1>8, <2>1, <2>2, <2>3, InstaOthersKnow
<1>11. \A n \in Messages : Instagram!HasStatus(n, {"NONE"})' => Instagram!HasStatus(n, {"NONE"}) /\ message'[n] = message[n]
   BY <1>3, <1>5 DEF Instagram!HasStatus
<1>12. InstaUnwritten' /\ InstaWindowsAreOfWritten'
   BY <1>0, <1>11, InstaSameWindows DEF InstaIInv, InstaUnwritten, Instagram!Claim, Instagram!clock
<1>13. InstaRepliesAccounted'
   <2>. SUFFICES ASSUME NEW n \in Messages
                 PROVE  Cardinality(Instagram!SendsOf(n)') + Cardinality(InstaMaySend(n)') + InstaTicket(n)' <= 1 + stalls' + retries'[n]
      BY DEF InstaRepliesAccounted
   <2>1. Cardinality(Instagram!SendsOf(n)) + Cardinality(InstaMaySend(n)) + InstaTicket(n) <= 1 + stalls + retries[n]
      BY <1>0 DEF InstaRepliesAccounted
   <2>2. /\ Cardinality(Instagram!SendsOf(n)) \in Nat /\ stalls \in Nat /\ retries[n] \in Nat
      BY <1>0, InstaNumbers
   <2>3. Instagram!SendsOf(n)' = Instagram!SendsOf(n)
      BY <1>9 DEF Instagram!SendsOf
   <2>4. CASE n # m
      <3>1. message'[n] = message[n] /\ worker'[w].message # n
         BY <1>5, <1>6, <1>7, <2>4
      <3>2. Cardinality(Instagram!SendsOf(n)') + Cardinality(InstaMaySend(n)') + InstaTicket(n)' =
            Cardinality(Instagram!SendsOf(n)) + Cardinality(InstaMaySend(n)) + InstaTicket(n)
         BY <1>0, <1>7, <1>8, <1>9, <2>3, <3>1, InstaOtherReplies
      <3>. QED BY <1>9, <2>1, <3>2
   <2>5. CASE n = m
      <3>1. w \notin InstaMaySend(m) /\ w \in InstaMaySend(m)'
         BY <1>6, <1>7, <1>9 DEF InstaMaySend
      <3>2. PICK k \in Nat : /\ Cardinality(InstaMaySend(m)) = k + InstaOne(w \in InstaMaySend(m))
                             /\ Cardinality(InstaMaySend(m)') = k + InstaOne(w \in InstaMaySend(m)')
         BY <1>0, <1>7, <1>8, InstaCallersMove
      <3>3. Cardinality(InstaMaySend(m)) = k /\ Cardinality(InstaMaySend(m)') = k + 1
         BY <3>1, <3>2 DEF InstaOne
      <3>4. InstaTicket(m) = 1
         BY DEF Instagram!Claim, Instagram!Due, InstaTicket, InstaMayBeClaimed, Instagram!HasStatus
      <3>5. InstaKeeps(w, m)'
         BY <1>3, <1>5, <1>6, <1>7 DEF InstaKeeps, Instagram!Owns, Instagram!HasStatus
      <3>6. InstaTicket(m)' = 0
         BY <1>3, <1>5, <3>5 DEF InstaTicket, InstaMayBeClaimed, Instagram!HasStatus
      <3>. QED BY <1>9, <2>1, <2>2, <2>3, <2>5, <3>3, <3>4, <3>6
   <2>. QED BY <2>4, <2>5
<1>. QED BY <1>0, <1>8, <1>10, <1>12, <1>13 DEF InstaIInv

-----------------------------------------------------------------------------
(* The rest of the world                                                    *)

\* Steps that only read, wake the worker, or are about the account.
LEMMA InstaElsewhereKeeps ==
    ASSUME InstagramBounds, InstaIInv,
           \/ \E r \in Managers, m \in Messages : Instagram!RetryRead(r, m)
           \/ \E m \in Messages : Instagram!Reconcile(m)
           \/ \E w \in Workers, m \in Messages : Instagram!Ignore(w, m)
           \/ \E w \in Workers : Instagram!Redeliver(w)
           \/ \E s \in sent : Instagram!EchoIsStored(s)
           \/ Instagram!WindowCloses \/ Instagram!Revoke \/ Instagram!Connect \/ Instagram!Activate \/ Instagram!Disconnect
           \/ UNCHANGED Instagram!vars
    PROVE  InstaIInv'
<1>0. Instagram!TypeOK /\ InstaWindowsAreOfWritten /\ InstaWorkersKnowReplies
   BY DEF InstaIInv
<1>1. ASSUME NEW r \in Managers, NEW m \in Messages, Instagram!RetryRead(r, m) PROVE Instagram!TypeOK'
   BY <1>0, <1>1 DEF Instagram!TypeOK, Instagram!RetryRead, Instagram!account, Instagram!clock
<1>2. ASSUME NEW m \in Messages, Instagram!Reconcile(m) PROVE Instagram!TypeOK'
   BY <1>0, <1>2 DEF Instagram!TypeOK, Instagram!Reconcile, Instagram!account, Instagram!clock
<1>3. ASSUME NEW w \in Workers, NEW m \in Messages, Instagram!Ignore(w, m) PROVE Instagram!TypeOK'
   BY <1>0, <1>3 DEF Instagram!TypeOK, Instagram!Ignore, Instagram!TakesJob, Instagram!account, Instagram!clock
<1>4. ASSUME NEW w \in Workers, Instagram!Redeliver(w) PROVE Instagram!TypeOK'
   <2>1. worker[w].message \in Messages
      BY <1>0, <1>4 DEF InstaWorkersKnowReplies, InstaKnowsReply, Instagram!Redeliver
   <2>. QED BY <1>0, <1>4, <2>1 DEF Instagram!TypeOK, Instagram!Redeliver, Instagram!account, Instagram!clock
<1>5. ASSUME NEW s \in sent, Instagram!EchoIsStored(s) PROVE Instagram!TypeOK'
   BY <1>0, <1>5 DEF Instagram!TypeOK, Instagram!EchoIsStored, Instagram!account, Instagram!clock
<1>6. CASE Instagram!WindowCloses
   <2>1. Instagram!TypeOK'
      BY <1>0, <1>6 DEF Instagram!TypeOK, Instagram!WindowCloses, Instagram!account
   <2>2. InstaWindowsAreOfWritten'
      BY <1>0, <1>6, InstaSameWindows DEF Instagram!WindowCloses, Instagram!HasStatus
   <2>. QED BY <1>6, <2>1, <2>2, InstaStill DEF Instagram!WindowCloses
<1>7. ASSUME Instagram!Revoke \/ Instagram!Connect \/ Instagram!Activate \/ Instagram!Disconnect PROVE Instagram!TypeOK'
   <2>1. connection.generation \in Nat /\ connection.generation + 1 \in Nat
      BY <1>0 DEF Instagram!TypeOK
   <2>2. /\ connection' \in [generation : Nat, status : {"ERROR", "ACTIVE", "REAUTH_REQUIRED", "DISCONNECTED"}]
         /\ unusable' \subseteq Nat
      BY <1>0, <1>7, <2>1 DEF Instagram!TypeOK, Instagram!Revoke, Instagram!Connect, Instagram!Activate,
         Instagram!Disconnect
   <2>. QED BY <1>0, <1>7, <2>2 DEF Instagram!TypeOK, Instagram!Revoke, Instagram!Connect, Instagram!Activate,
      Instagram!Disconnect, Instagram!clock
<1>8. ASSUME UNCHANGED Instagram!vars PROVE Instagram!TypeOK'
   BY <1>0, <1>8 DEF Instagram!TypeOK, Instagram!vars
<1>9. CASE ~Instagram!WindowCloses
   <2>1. Instagram!TypeOK'
      BY <1>1, <1>2, <1>3, <1>4, <1>5, <1>7, <1>8, <1>9
   <2>2. UNCHANGED <<message, worker, sent, stalls, retries, recent, near>>
      BY <1>9 DEF Instagram!RetryRead, Instagram!Reconcile, Instagram!Ignore, Instagram!Redeliver,
         Instagram!EchoIsStored, Instagram!Revoke, Instagram!Connect, Instagram!Activate, Instagram!Disconnect,
                  Instagram!vars, Instagram!clock
   <2>3. InstaWindowsAreOfWritten'
      BY <1>0, <2>2, InstaSameWindows DEF Instagram!HasStatus
   <2>. QED BY <2>1, <2>2, <2>3, InstaStill
<1>. QED BY <1>6, <1>9

LEMMA InstaTypeInAppKeeps == ASSUME InstagramBounds, InstaIInv, Instagram!TypeInApp PROVE InstaIInv'
<1>. DEFINE typed == {s \in sent : s[1] = NoMessage}
<1>0. Instagram!TypeOK /\ InstaWindowsAreOfWritten /\ IsFiniteSet(sent) /\ InstaRepliesAccounted
   BY DEF InstaIInv
<1>1. Cardinality(typed) + 1 \in Nat
   <2>1. IsFiniteSet(typed)
      BY <1>0, FS_Subset
   <2>2. Cardinality(typed) \in Nat
      BY <2>1, FS_CardinalityType
   <2>. QED BY <2>2
<1>. PICK s : s = <<NoMessage, Cardinality(typed) + 1>>
   OBVIOUS
<1>2. s \in Instagram!Sends /\ s[1] = NoMessage
   BY <1>1 DEF Instagram!Sends
<1>3. /\ sent' = sent \cup {s} /\ recent' = recent \cup {s}
      /\ near' = near \cup ({s} \X (recent \cap Messages))
      /\ UNCHANGED <<Instagram!account, message, retrying, queue, worker, rows, stalls, retries>>
   BY SameCardinality DEF Instagram!TypeInApp
<1>4. Instagram!TypeOK'
   <2>1. /\ sent' \subseteq Instagram!Sends /\ recent' \subseteq Messages \cup sent'
         /\ near' \subseteq sent' \X Messages
         /\ rows' \subseteq sent'
      BY <1>0, <1>2, <1>3 DEF Instagram!TypeOK
   <2>. QED BY <1>0, <1>3, <2>1 DEF Instagram!TypeOK, Instagram!account
<1>5. IsFiniteSet(sent')
   BY <1>0, <1>3, FS_AddElement
<1>6. InstaWindowsAreOfWritten'
   <2>1. \A m \in Messages : m \in recent' => m \in recent
      BY <1>2, <1>3 DEF InstagramBounds
   <2>2. \A p \in near' : p \in near \/ p[2] \in recent \cap Messages
      BY <1>3, InstaSecondOfPair
   <2>. QED BY <1>0, <1>3, <2>1, <2>2 DEF InstaWindowsAreOfWritten, Instagram!HasStatus
<1>7. InstaUnwritten' /\ InstaWorkersKnowReplies' /\ InstaOneClaimEach'
   BY <1>3 DEF InstaIInv, InstaUnwritten, InstaWorkersKnowReplies, InstaKnowsReply, InstaOneClaimEach,
      Instagram!HasStatus
<1>8. \A m \in Messages : Instagram!SendsOf(m)' = Instagram!SendsOf(m) /\ InstaMaySend(m)' = InstaMaySend(m) /\ InstaTicket(m)' = InstaTicket(m)
   <2>. SUFFICES ASSUME NEW m \in Messages
                 PROVE  Instagram!SendsOf(m)' = Instagram!SendsOf(m) /\ InstaMaySend(m)' = InstaMaySend(m) /\ InstaTicket(m)' = InstaTicket(m)
      OBVIOUS
   <2>1. Instagram!SendsOf(m)' = Instagram!SendsOf(m)
      BY <1>2, <1>3 DEF Instagram!SendsOf, InstagramBounds
   <2>2. InstaMaySend(m)' = InstaMaySend(m)
      BY <1>3 DEF InstaMaySend
   <2>3. InstaTicket(m)' = InstaTicket(m)
      BY <1>3 DEF InstaTicket, InstaMayBeClaimed, InstaKeeps, Instagram!Owns, Instagram!HasStatus
   <2>. QED BY <2>1, <2>2, <2>3
<1>9. InstaRepliesAccounted'
   BY <1>0, <1>3, <1>8 DEF InstaRepliesAccounted
<1>. QED BY <1>4, <1>5, <1>6, <1>7, <1>9 DEF InstaIInv

LEMMA InstaSendingKeeps ==
    ASSUME InstagramBounds, InstaIInv, NEW w \in Workers,
           Instagram!SendAccepted(w) \/ Instagram!SendRateLimited(w) \/ Instagram!SendAmbiguous(w) \/ Instagram!SendFailed(w) \/ Instagram!SendUnauthorized(w)
    PROVE  InstaIInv'
<1>1. {"SENT", "RATE_LIMITED", "PENDING", "UNKNOWN", "FAILED"} \subseteq Instagram!Result \ {"NONE"}
   BY DEF Instagram!Result, Instagram!Final
<1>2. CASE Instagram!SendAccepted(w)
   BY <1>1, <1>2, InstaAnswerKeeps DEF Instagram!SendAccepted
<1>3. CASE Instagram!SendRateLimited(w)
   BY <1>1, <1>3, InstaAnswerKeeps DEF Instagram!SendRateLimited
<1>4. CASE Instagram!SendAmbiguous(w)
   BY <1>1, <1>4, InstaAnswerKeeps DEF Instagram!SendAmbiguous
<1>5. CASE Instagram!SendFailed(w)
   BY <1>1, <1>5, InstaAnswerKeeps DEF Instagram!SendFailed
<1>6. CASE Instagram!SendUnauthorized(w)
   BY <1>1, <1>6, InstaAnswerKeeps DEF Instagram!SendUnauthorized
<1>. QED BY <1>2, <1>3, <1>4, <1>5, <1>6

LEMMA InstaInitially == InstagramBounds /\ Instagram!Init => InstaIInv
<1>. SUFFICES ASSUME InstagramBounds, Instagram!Init PROVE InstaIInv
   OBVIOUS
<1>1. Instagram!None \in Instagram!Message /\ Instagram!None.status = "NONE"
   BY DEF Instagram!None, Instagram!Message, Instagram!Status, Instagram!NoSend, Instagram!Sends
<1>2. Instagram!TypeOK
   BY <1>1, InstaIdleType DEF Instagram!Init, Instagram!TypeOK
<1>3. IsFiniteSet(sent) /\ InstaUnwritten /\ InstaWorkersKnowReplies /\ InstaOneClaimEach /\ InstaWindowsAreOfWritten
   BY <1>1, InstaIdleType, FS_EmptySet DEF Instagram!Init, InstaUnwritten, InstaWorkersKnowReplies,
      InstaKnowsReply, InstaOneClaimEach, InstaWindowsAreOfWritten
<1>4. InstaRepliesAccounted
   <2>. SUFFICES ASSUME NEW m \in Messages
                 PROVE  Cardinality(Instagram!SendsOf(m)) + Cardinality(InstaMaySend(m)) + InstaTicket(m) <= 1 + stalls + retries[m]
      BY DEF InstaRepliesAccounted
   <2>1. Instagram!SendsOf(m) = {} /\ InstaMaySend(m) = {}
      BY InstaIdleType DEF Instagram!Init, Instagram!SendsOf, InstaMaySend
   <2>2. Cardinality({}) = 0
      BY FS_EmptySet
   <2>. QED BY <1>2, <1>3, <2>1, <2>2, InstaNumbers DEF Instagram!Init
<1>. QED BY <1>2, <1>3, <1>4 DEF InstaIInv

LEMMA InstaStepKeeps == InstagramBounds /\ InstaIInv /\ [Instagram!Next]_Instagram!vars => InstaIInv'
<1>. SUFFICES ASSUME InstagramBounds, InstaIInv, [Instagram!Next]_Instagram!vars PROVE InstaIInv'
   OBVIOUS
<1>1. CASE \E m \in Messages : Instagram!Send(m) \/ Instagram!MessageStep(m)
   BY <1>1, InstaSendKeeps, InstaBecomeDueKeeps, InstaElsewhereKeeps DEF Instagram!MessageStep
<1>2. CASE \E r \in Managers : Instagram!RetryWrite(r) \/ \E m \in Messages : Instagram!RetryRead(r, m)
   BY <1>2, InstaRetryWriteKeeps, InstaElsewhereKeeps
<1>3. CASE \E w \in Workers : Instagram!WorkerStep(w) \/ Instagram!Redeliver(w) \/ Instagram!Crash(w)
   <2>. PICK w \in Workers : Instagram!WorkerStep(w) \/ Instagram!Redeliver(w) \/ Instagram!Crash(w)
      BY <1>3
   <2>1. CASE \E m \in Messages : Instagram!Claim(w, m) \/ Instagram!Ignore(w, m)
      BY <2>1, InstaClaimKeeps, InstaElsewhereKeeps
   <2>2. CASE Instagram!Load(w) \/ Instagram!LookUp(w) \/ Instagram!FailEarly(w)
      BY <2>2, InstaLoadKeeps, InstaLookUpKeeps, InstaFailEarlyKeeps
   <2>3. CASE Instagram!SendAccepted(w) \/ Instagram!SendRateLimited(w) \/ Instagram!SendAmbiguous(w) \/ Instagram!SendFailed(w) \/ Instagram!SendUnauthorized(w)
      BY <2>3, InstaSendingKeeps
   <2>4. CASE Instagram!Finish(w) \/ Instagram!MarkReconnectRequired(w)
      BY <2>4, InstaFinishKeeps, InstaMarkReconnectRequiredKeeps
   <2>5. CASE Instagram!Redeliver(w) \/ Instagram!Crash(w)
      BY <2>5, InstaElsewhereKeeps, InstaCrashKeeps
   <2>. QED BY <2>1, <2>2, <2>3, <2>4, <2>5 DEF Instagram!WorkerStep
<1>4. CASE \E s \in sent : Instagram!EchoIsStored(s) \/ \E m \in Messages : Instagram!EchoMatches(s, m)
   BY <1>4, InstaElsewhereKeeps, InstaEchoMatchesKeeps
<1>5. CASE Instagram!WindowCloses \/ Instagram!TimePasses \/ Instagram!TypeInApp \/ Instagram!Revoke \/ Instagram!Connect \/ Instagram!Activate \/ Instagram!Disconnect
   BY <1>5, InstaElsewhereKeeps, InstaTimePassesKeeps, InstaTypeInAppKeeps
<1>6. CASE UNCHANGED Instagram!vars
   BY <1>6, InstaElsewhereKeeps
<1>. QED BY <1>1, <1>2, <1>3, <1>4, <1>5, <1>6 DEF Instagram!Next

LEMMA InstaInvariant == ASSUME InstagramBounds PROVE Instagram!Spec => []InstaIInv
<1>1. Instagram!Init => InstaIInv
   BY InstaInitially
<1>2. InstaIInv /\ [Instagram!Next]_Instagram!vars => InstaIInv'
   BY InstaStepKeeps
<1>. QED BY <1>1, <1>2, PTL DEF Instagram!Spec

-----------------------------------------------------------------------------
(* The theorems about the replies on Instagram                              *)

\* The replies, the account, the workers' jobs and the texts sent have their
\* types, whatever the workers, managers, echoes and the account do.
THEOREM InstagramTypeCorrect == ASSUME InstagramBounds PROVE Instagram!Spec => []Instagram!TypeOK
<1>1. InstaIInv => Instagram!TypeOK
   BY DEF InstaIInv
<1>. QED BY <1>1, InstaInvariant, PTL

\* The customer gets a reply once more than claims were lost to a crash or to a
\* lease outlived, or than a manager retried it, at most.
THEOREM RepliesAreAccountedFor == ASSUME InstagramBounds PROVE Instagram!Spec => []Instagram!SendsAreAccountedFor
<1>1. InstaIInv => Instagram!SendsAreAccountedFor
   <2>. SUFFICES ASSUME InstaIInv, NEW m \in Messages PROVE Cardinality(Instagram!SendsOf(m)) <= 1 + stalls + retries[m]
      BY SameCardinality DEF Instagram!SendsAreAccountedFor
   <2>1. Cardinality(Instagram!SendsOf(m)) + Cardinality(InstaMaySend(m)) + InstaTicket(m) <= 1 + stalls + retries[m]
      BY DEF InstaIInv, InstaRepliesAccounted
   <2>. QED BY <2>1, InstaNumbers DEF InstaIInv
<1>. QED BY <1>1, InstaInvariant, PTL

\* Nothing moves a reply whose sending ended with no answer but an echo of it, or
\* a manager whose retry was decided on before: no late worker, lease or echo of
\* another text does.
THEOREM UnknownRepliesAwaitEcho == ASSUME InstagramBounds PROVE Instagram!Spec => [][Instagram!AwaitsEcho]_Instagram!vars
<1>1. InstaIInv /\ [Instagram!Next]_Instagram!vars => [Instagram!AwaitsEcho]_Instagram!vars
   <2>. SUFFICES ASSUME InstaIInv, Instagram!Next, NEW m \in Messages, message[m].status = "UNKNOWN"
                 PROVE  message'[m].status \in {"UNKNOWN", "SENT"} \/ Instagram!Reopens(m)
      BY DEF Instagram!AwaitsEcho, Instagram!HasStatus
   <2>0. Instagram!TypeOK
      BY DEF InstaIInv
   <2>1. CASE message'[m] = message[m]
      BY <2>1
   <2>2. ASSUME NEW n \in Messages, Instagram!Send(n) \/ Instagram!BecomeDue(n) PROVE message'[m] = message[m]
      <3>1. n # m
         BY <2>2 DEF Instagram!Send, Instagram!BecomeDue, Instagram!HasStatus
      <3>. QED BY <2>0, <2>2, <3>1 DEF Instagram!TypeOK, Instagram!Send, Instagram!BecomeDue
   <2>3. ASSUME NEW r \in Managers, Instagram!RetryWrite(r) PROVE message'[m] = message[m] \/ Instagram!Reopens(m)
      <3>1. CASE retrying[r] = m
         BY <2>0, <2>3, <3>1 DEF Instagram!TypeOK, Instagram!RetryWrite, Instagram!Reopens
      <3>2. CASE retrying[r] # m
         BY <2>0, <2>3, <3>2 DEF Instagram!TypeOK, Instagram!RetryWrite
      <3>. QED BY <3>1, <3>2
   <2>4. ASSUME NEW w \in Workers, NEW n \in Messages, Instagram!Claim(w, n) PROVE message'[m] = message[m]
      <3>1. n # m
         BY <2>4 DEF Instagram!Claim, Instagram!Due, Instagram!HasStatus
      <3>. QED BY <2>0, <2>4, <3>1 DEF Instagram!TypeOK, Instagram!Claim
   <2>5. ASSUME NEW w \in Workers, Instagram!Finish(w) \/ Instagram!MarkReconnectRequired(w) PROVE message'[m] = message[m]
      <3>1. ~Instagram!Owns(w, m)
         BY DEF Instagram!Owns, Instagram!HasStatus
      <3>2. CASE worker[w].message = m
         BY <2>5, <3>1, <3>2 DEF Instagram!Finish, Instagram!MarkReconnectRequired
      <3>3. CASE worker[w].message # m
         BY <2>0, <2>5, <3>3 DEF Instagram!Finish, Instagram!MarkReconnectRequired, Instagram!Settled,
            Instagram!TypeOK
      <3>. QED BY <3>2, <3>3
   <2>6. ASSUME Instagram!TimePasses PROVE message'[m] = message[m]
      BY <2>6 DEF Instagram!TimePasses, Instagram!Held, Instagram!HasStatus
   <2>7. ASSUME NEW s \in sent, NEW n \in Messages, Instagram!EchoMatches(s, n)
         PROVE  message'[m] = message[m] \/ message'[m].status = "SENT"
      <3>1. message[m] \in Instagram!Message
         BY <2>0 DEF Instagram!TypeOK
      <3>2. CASE n = m
         <4>1. PICK x : x = [message[m] EXCEPT !.status = "SENT", !.provider = s, !.lease = 0, !.expired = FALSE,
                                               !.due = FALSE]
            OBVIOUS
         <4>2. message'[m] = x
            BY <2>0, <2>7, <3>2, <4>1 DEF Instagram!TypeOK, Instagram!EchoMatches
         <4>3. x.status = "SENT"
            BY <3>1, <4>1 DEF Instagram!Message
         <4>. QED BY <4>2, <4>3
      <3>3. CASE n # m
         BY <2>0, <2>7, <3>3 DEF Instagram!TypeOK, Instagram!EchoMatches
      <3>. QED BY <3>2, <3>3
   <2>8. ASSUME NEW w \in Workers, Instagram!WorkerStep(w) PROVE message'[m] = message[m]
      <3>1. CASE \E n \in Messages : Instagram!Claim(w, n)
         BY <2>4, <3>1
      <3>2. CASE Instagram!Finish(w) \/ Instagram!MarkReconnectRequired(w)
         BY <2>5, <3>2
      <3>3. CASE \/ \E n \in Messages : Instagram!Ignore(w, n)
                 \/ Instagram!Load(w) \/ Instagram!LookUp(w) \/ Instagram!FailEarly(w) \/ Instagram!SendAccepted(w) \/ Instagram!SendRateLimited(w)
                 \/ Instagram!SendAmbiguous(w) \/ Instagram!SendFailed(w) \/ Instagram!SendUnauthorized(w)
         BY <3>3 DEF Instagram!Ignore, Instagram!Load, Instagram!LookUp, Instagram!FailEarly,
            Instagram!SendAccepted, Instagram!SendRateLimited, Instagram!SendAmbiguous, Instagram!SendFailed,
                     Instagram!SendUnauthorized, Instagram!Answer
      <3>. QED BY <2>8, <3>1, <3>2, <3>3 DEF Instagram!WorkerStep
   <2>9. ASSUME \/ \E n \in Messages : Instagram!Reconcile(n)
                \/ \E r \in Managers, n \in Messages : Instagram!RetryRead(r, n)
                \/ \E w \in Workers : Instagram!Redeliver(w) \/ Instagram!Crash(w)
                \/ \E s \in sent : Instagram!EchoIsStored(s)
                \/ Instagram!WindowCloses \/ Instagram!TypeInApp \/ Instagram!Revoke \/ Instagram!Connect \/ Instagram!Activate \/ Instagram!Disconnect
         PROVE  message'[m] = message[m]
      BY <2>9 DEF Instagram!Reconcile, Instagram!RetryRead, Instagram!Redeliver, Instagram!Crash,
         Instagram!EchoIsStored, Instagram!WindowCloses, Instagram!TypeInApp, Instagram!Revoke,
         Instagram!Connect,
                  Instagram!Activate, Instagram!Disconnect
   <2>. QED BY <2>1, <2>2, <2>3, <2>6, <2>7, <2>8, <2>9 DEF Instagram!Next, Instagram!MessageStep
<1>. QED BY <1>1, InstaInvariant, PTL DEF Instagram!Spec

\* The reply of a text that its echo cannot miss is compared with it, and no
\* other set of replies can be taken than all that are open.
LEMMA InstaOwnIsCompared ==
    ASSUME InstagramBounds, InstaIInv, NEW s, s[1] \in Messages, ~Instagram!MayBeMissed(s),
           Instagram!ProviderMatch(s) = {}, NEW T \in Instagram!Taken(s)
    PROVE  s[1] \in Instagram!Matches(s, T) /\ IsFiniteSet(Instagram!Matches(s, T))
<1>1. /\ <<s, s[1]>> \in near /\ message[s[1]].provider \in {Instagram!NoSend, s}
      /\ ~(Cardinality(Instagram!Open(s)) > MAX_CANDIDATES)
   BY SameCardinality DEF Instagram!MayBeMissed
<1>2. ~Instagram!HasStatus(s[1], {"NONE"})
   <2>. PICK p : p = <<s, s[1]>>
      OBVIOUS
   <2>1. p \in near /\ p[2] = s[1]
      BY <1>1
   <2>. QED BY <2>1 DEF InstaIInv, InstaWindowsAreOfWritten
<1>3. message[s[1]].provider = Instagram!NoSend
   BY <1>1 DEF Instagram!ProviderMatch
<1>4. s[1] \in Instagram!Open(s)
   BY <1>1, <1>2, <1>3 DEF Instagram!Open
<1>5. IsFiniteSet(Instagram!Open(s))
   <2>1. Instagram!Open(s) \subseteq Messages
      BY DEF Instagram!Open
   <2>. QED BY <2>1, FS_Subset DEF InstagramBounds
<1>6. T = Instagram!Open(s)
   <2>1. T \subseteq Instagram!Open(s) /\ (T = Instagram!Open(s) \/ Cardinality(T) = MAX_CANDIDATES)
      BY SameCardinality DEF Instagram!Taken
   <2>. SUFFICES ASSUME T # Instagram!Open(s) PROVE FALSE
      OBVIOUS
   <2>2. T # Instagram!Open(s) => Cardinality(T) # Cardinality(Instagram!Open(s))
      BY <1>5, <2>1, FS_Subset, Zenon
   <2>3. /\ Cardinality(T) \in Nat /\ Cardinality(Instagram!Open(s)) \in Nat
         /\ Cardinality(T) <= Cardinality(Instagram!Open(s))
      BY <1>5, <2>1, FS_Subset, FS_CardinalityType
   <2>. QED BY <1>1, <2>1, <2>2, <2>3 DEF InstagramBounds
<1>7. Instagram!Matches(s, T) \subseteq Instagram!Open(s)
   BY <1>6 DEF Instagram!Matches
<1>. QED BY <1>4, <1>5, <1>6, <1>7, FS_Subset DEF Instagram!Matches

\* An echo becomes a message of its own only if it may have missed its reply, that
\* was written out of its window, has the echo of another text or is one of more
\* open replies than an echo is compared with, or if another reply of the same text
\* was written in its window.
THEOREM OnlyAmbiguousRowsAreAdded == ASSUME InstagramBounds PROVE Instagram!Spec => [][Instagram!AddsAmbiguousRow]_Instagram!vars
<1>1. InstaIInv /\ [Instagram!Next]_Instagram!vars => [Instagram!AddsAmbiguousRow]_Instagram!vars
   <2>. SUFFICES ASSUME InstaIInv, Instagram!Next PROVE Instagram!AddsAmbiguousRow
      OBVIOUS
   <2>. SUFFICES ASSUME NEW s \in rows' \ rows, s[1] \in Messages, ~Instagram!MayBeMissed(s),
                        ~\E n \in Messages : n # s[1] /\ Text[n] = Text[s[1]] /\ <<s, n>> \in near
                 PROVE  FALSE
      BY Zenon DEF Instagram!AddsAmbiguousRow
   <2>. PICK m \in Messages : m = s[1]
      OBVIOUS
   <2>1. Instagram!EchoIsStored(s)
      <3>1. PICK t \in sent : Instagram!EchoIsStored(t)
         BY DEF Instagram!Next, Instagram!Send, Instagram!MessageStep, Instagram!Reconcile,
            Instagram!BecomeDue, Instagram!RetryWrite, Instagram!RetryRead, Instagram!WorkerStep,
            Instagram!Claim, Instagram!Ignore, Instagram!Load,
                Instagram!LookUp, Instagram!FailEarly, Instagram!SendAccepted, Instagram!SendRateLimited,
                Instagram!SendAmbiguous, Instagram!SendFailed, Instagram!SendUnauthorized, Instagram!Answer,
                Instagram!Finish, Instagram!MarkReconnectRequired, Instagram!Redeliver, Instagram!Crash,
                Instagram!EchoMatches, Instagram!WindowCloses, Instagram!TimePasses, Instagram!TypeInApp,
                Instagram!Revoke, Instagram!Connect, Instagram!Activate, Instagram!Disconnect
      <3>. QED BY <3>1 DEF Instagram!EchoIsStored
   <2>2. PICK T \in Instagram!Taken(s) : Instagram!EchoCandidate(s, T) = {}
      BY <2>1 DEF Instagram!EchoIsStored
   <2>3. Instagram!ProviderMatch(s) = {}
      BY <2>2 DEF Instagram!EchoCandidate
   <2>4. m \in Instagram!Matches(s, T)
      BY <2>3, InstaOwnIsCompared
   <2>5. ASSUME NEW n \in Instagram!Matches(s, T) PROVE n = m
      <3>1. n \in Messages /\ <<s, n>> \in near /\ Text[n] = Text[s[1]]
         BY DEF Instagram!Matches, Instagram!Taken, Instagram!Open
      <3>. QED BY <3>1
   <2>6. Instagram!Matches(s, T) = {m}
      BY <2>4, <2>5
   <2>7. Cardinality(Instagram!Matches(s, T)) = 1
      BY <2>6, FS_Singleton
   <2>. QED BY <2>2, <2>3, <2>6, <2>7, SameCardinality DEF Instagram!EchoCandidate
<1>. QED BY <1>1, InstaInvariant, PTL DEF Instagram!Spec

\* Two replies of one text are not told apart by guessing: an echo settles another
\* reply than its own only if it may have missed its own.
THEOREM EchoesSettleTheirOwn == ASSUME InstagramBounds PROVE Instagram!Spec => [][Instagram!SettlesItsOwn]_Instagram!vars
<1>1. InstaIInv /\ [Instagram!Next]_Instagram!vars => [Instagram!SettlesItsOwn]_Instagram!vars
   <2>. SUFFICES ASSUME InstaIInv, Instagram!Next, NEW m \in Messages, NEW s, s = message'[m].provider,
                        s # message[m].provider, s[1] \in Messages \ {m}, ~Instagram!MayBeMissed(s)
                 PROVE  FALSE
      BY DEF Instagram!SettlesItsOwn
   <2>0. Instagram!TypeOK /\ message[m] \in Instagram!Message
      BY DEF InstaIInv, Instagram!TypeOK
   <2>1. ASSUME NEW n \in Messages, Instagram!Send(n) \/ Instagram!BecomeDue(n) PROVE FALSE
      <3>1. CASE n # m
         BY <2>0, <2>1, <3>1 DEF Instagram!TypeOK, Instagram!Send, Instagram!BecomeDue
      <3>2. CASE Instagram!BecomeDue(m)
         BY <2>0, <3>2 DEF Instagram!TypeOK, Instagram!Message, Instagram!BecomeDue
      <3>3. CASE Instagram!Send(m)
         <4>. PICK x : x = [Instagram!None EXCEPT !.status = "PENDING", !.due = TRUE]
            OBVIOUS
         <4>1. message'[m] = x
            BY <2>0, <3>3 DEF Instagram!TypeOK, Instagram!Send
         <4>2. x.provider = Instagram!NoSend
            BY DEF Instagram!None
         <4>. QED BY <4>1, <4>2 DEF Instagram!NoSend, InstagramBounds
      <3>. QED BY <2>1, <3>1, <3>2, <3>3
   <2>2. ASSUME NEW r \in Managers, Instagram!RetryWrite(r) PROVE FALSE
      BY <2>0, <2>2 DEF Instagram!TypeOK, Instagram!Message, Instagram!RetryWrite
   <2>3. ASSUME NEW w \in Workers, NEW n \in Messages, Instagram!Claim(w, n) PROVE FALSE
      BY <2>0, <2>3 DEF Instagram!TypeOK, Instagram!Message, Instagram!Claim
   <2>4. ASSUME NEW w \in Workers, Instagram!Finish(w) \/ Instagram!MarkReconnectRequired(w) PROVE FALSE
      <3>1. message' = message \/ \E result : message' = Instagram!Settled(w, result)
         BY <2>4 DEF Instagram!Finish, Instagram!MarkReconnectRequired
      <3>2. PICK result : message' = Instagram!Settled(w, result)
         BY <3>1
      <3>3. s = message[m].provider \/ (worker[w].message = m /\ s = <<m, worker[w].lease>>)
         <4>1. CASE worker[w].message = m
            <5>. PICK x : x = [message[m] EXCEPT !.status = result, !.lease = 0, !.expired = FALSE, !.due = FALSE,
                                    !.provider = IF result = "SENT" THEN <<m, worker[w].lease>>
                                                 ELSE message[m].provider]
               OBVIOUS
            <5>1. message'[m] = x
               BY <2>0, <3>2, <4>1 DEF Instagram!Settled, Instagram!TypeOK
            <5>2. x.provider = IF result = "SENT" THEN <<m, worker[w].lease>> ELSE message[m].provider
               BY <2>0 DEF Instagram!Message
            <5>. QED BY <4>1, <5>1, <5>2
         <4>2. CASE worker[w].message # m
            BY <2>0, <3>2, <4>2 DEF Instagram!Settled, Instagram!TypeOK
         <4>. QED BY <4>1, <4>2
      <3>4. <<m, worker[w].lease>>[1] = m
         OBVIOUS
      <3>. QED BY <3>3, <3>4
   <2>5. ASSUME Instagram!TimePasses PROVE FALSE
      BY <2>0, <2>5 DEF Instagram!TimePasses, Instagram!Message
   <2>6. ASSUME NEW t \in sent, NEW n \in Messages, Instagram!EchoMatches(t, n) PROVE FALSE
      <3>1. t = s /\ n = m
         <4>1. CASE n = m
            <5>. PICK x : x = [message[m] EXCEPT !.status = "SENT", !.provider = t, !.lease = 0, !.expired = FALSE,
                                                 !.due = FALSE]
               OBVIOUS
            <5>1. message'[m] = x
               BY <2>0, <2>6, <4>1 DEF Instagram!TypeOK, Instagram!EchoMatches
            <5>2. x.provider = t
               BY <2>0 DEF Instagram!Message
            <5>. QED BY <4>1, <5>1, <5>2
         <4>2. CASE n # m
            BY <2>0, <2>6, <4>2 DEF Instagram!TypeOK, Instagram!EchoMatches
         <4>. QED BY <4>1, <4>2
      <3>2. PICK T \in Instagram!Taken(s) : m \in Instagram!EchoCandidate(s, T)
         BY <2>6, <3>1 DEF Instagram!EchoMatches
      <3>3. m \notin Instagram!ProviderMatch(s)
         BY DEF Instagram!ProviderMatch
      <3>4. /\ Instagram!ProviderMatch(s) = {} /\ m \in Instagram!Matches(s, T)
            /\ Cardinality(Instagram!Matches(s, T)) = 1
         BY <3>2, <3>3, SameCardinality DEF Instagram!EchoCandidate
      <3>5. s[1] \in Instagram!Matches(s, T) /\ IsFiniteSet(Instagram!Matches(s, T))
         BY <3>4, InstaOwnIsCompared
      <3>6. \E x : Instagram!Matches(s, T) = {x}
         BY <3>4, <3>5, FS_Singleton
      <3>. QED BY <3>4, <3>5, <3>6
   <2>7. ASSUME UNCHANGED message PROVE FALSE
      BY <2>7
   <2>8. ASSUME NEW w \in Workers, Instagram!WorkerStep(w) PROVE FALSE
      <3>1. CASE \E n \in Messages : Instagram!Claim(w, n)
         BY <2>3, <3>1
      <3>2. CASE Instagram!Finish(w) \/ Instagram!MarkReconnectRequired(w)
         BY <2>4, <3>2
      <3>3. CASE \/ \E n \in Messages : Instagram!Ignore(w, n)
                 \/ Instagram!Load(w) \/ Instagram!LookUp(w) \/ Instagram!FailEarly(w) \/ Instagram!SendAccepted(w) \/ Instagram!SendRateLimited(w)
                 \/ Instagram!SendAmbiguous(w) \/ Instagram!SendFailed(w) \/ Instagram!SendUnauthorized(w)
         BY <2>7, <3>3 DEF Instagram!Ignore, Instagram!Load, Instagram!LookUp, Instagram!FailEarly,
            Instagram!SendAccepted, Instagram!SendRateLimited, Instagram!SendAmbiguous, Instagram!SendFailed,
            Instagram!SendUnauthorized, Instagram!Answer
      <3>. QED BY <2>8, <3>1, <3>2, <3>3 DEF Instagram!WorkerStep
   <2>9. ASSUME \/ \E n \in Messages : Instagram!Reconcile(n)
                \/ \E r \in Managers, n \in Messages : Instagram!RetryRead(r, n)
                \/ \E w \in Workers : Instagram!Redeliver(w) \/ Instagram!Crash(w)
                \/ \E t \in sent : Instagram!EchoIsStored(t)
                \/ Instagram!WindowCloses \/ Instagram!TypeInApp \/ Instagram!Revoke \/ Instagram!Connect \/ Instagram!Activate \/ Instagram!Disconnect
         PROVE  FALSE
      BY <2>7, <2>9 DEF Instagram!Reconcile, Instagram!RetryRead, Instagram!Redeliver, Instagram!Crash,
         Instagram!EchoIsStored, Instagram!WindowCloses, Instagram!TypeInApp, Instagram!Revoke,
         Instagram!Connect, Instagram!Activate, Instagram!Disconnect
   <2>. QED BY <2>1, <2>2, <2>5, <2>6, <2>8, <2>9 DEF Instagram!Next, Instagram!MessageStep
<1>. QED BY <1>1, InstaInvariant, PTL DEF Instagram!Spec
=============================================================================
