---------------------------- MODULE TikTokToken ----------------------------
(***************************************************************************)
(* The access token of a tenant's TikTok account.  TikTokTokenService of   *)
(* apps/worker gives it to a reply that is being sent and to a media file  *)
(* that is being copied, and refreshes it under a lease in the connection's *)
(* row when it is about to expire.  TikTok gives a new refresh token with  *)
(* every access token, so that a pair that is not written down is lost.    *)
(*                                                                         *)
(* A pair of tokens is the number in which TikTok gave it out; a lease is  *)
(* the number of its claim.  The service compares the row with the time at *)
(* which its caller began, however long it has waited since: "aged" and    *)
(* "lapsed" are what the clock has reached, and a worker keeps the values  *)
(* they had when it began.                                                 *)
(*                                                                         *)
(* TikTokDelivery has what a reply does with the answer, and the settings  *)
(* page, whose write of an expiry is here the webhook's.                   *)
(***************************************************************************)
EXTENDS Integers

CONSTANTS
    Workers,         \* jobs that may be asking for the token at once
    MaxGenerations,  \* bound: times the account is connected
    MaxPairs,        \* bound: pairs of tokens that TikTok gives out
    MaxClaims        \* bound: claims of the lease

VARIABLES
    connection,  \* tiktok_connections
    worker,      \* what each job does
    claims,
    generations, \* generations given out so far
    aged,        \* clock: the last pair whose access token is about to expire
    lapsed,      \* clock: the last lease whose 30 s are over
    issued,      \* external: the pairs TikTok has given out
    latest,      \* external: the last pair of a generation
    shaken       \* ghost: generations for which more than a refresh in time took place

vars == <<connection, worker, claims, generations, aged, lapsed, issued, latest, shaken>>
clock == <<aged, lapsed>>
tiktok == <<issued, latest>>

-----------------------------------------------------------------------------
Generations == 0..MaxGenerations
Pairs == 0..MaxPairs
Leases == 0..MaxClaims

\* "pair" is 0 for a row without tokens, "generation" and "lease" are 0 for null.
Connection == [status : {"ACTIVE", "REAUTH_REQUIRED", "DISCONNECTED"},
               generation : Generations, pair : Pairs, lease : Leases]
Work == [phase : {"idle", "reading", "marking", "claiming", "calling", "writing", "releasing", "shutting"},
         generation : Generations, aged : Pairs, lapsed : Leases, pair : Pairs, lease : Leases,
         error : {"NONE", "RETRYABLE", "REJECTED", "OTHER"}]
Idle == [phase |-> "idle", generation |-> 0, aged |-> 0, lapsed |-> 0, pair |-> 0, lease |-> 0, error |-> "NONE"]

Goes(w, phase) == worker' = [worker EXCEPT ![w].phase = phase]
Stops(w) == worker' = [worker EXCEPT ![w] = Idle]
Fails(w, error) == worker' = [worker EXCEPT ![w].phase = "releasing", ![w].error = error]
Shake(w) == shaken' = shaken \cup {worker[w].generation}
Refreshing(w) == worker[w].phase \in {"calling", "writing"}

GivesPair(g) ==
    /\ issued < MaxPairs
    /\ issued' = issued + 1
    /\ latest' = [latest EXCEPT ![g] = issued + 1]

\* ACTIVE stands for INBOUND_ONLY, too.
Same(w) == connection.generation = worker[w].generation
Leased(w) == Same(w) /\ connection.lease = worker[w].lease
MayRead(w) == Same(w) /\ connection.status = "ACTIVE"

-----------------------------------------------------------------------------
(* The API and the clock                                                    *)

\* A callback that found nothing connected activates what it got, whatever has
\* been connected since; the row keeps the lease of the generation before.
Activate ==
    /\ generations < MaxGenerations
    /\ generations' = generations + 1
    /\ GivesPair(generations + 1)
    /\ connection' = [connection EXCEPT !.status = "ACTIVE", !.generation = generations + 1, !.pair = issued + 1]
    /\ UNCHANGED <<worker, claims, clock, shaken>>

Disconnect ==
    /\ connection.generation # 0
    /\ connection' = [connection EXCEPT !.status = "DISCONNECTED", !.generation = 0, !.pair = 0]
    /\ UNCHANGED <<worker, claims, generations, clock, tiktok, shaken>>

\* A webhook finds that the access token has expired, which no refresh has preceded.
ExpireToken ==
    /\ connection.status = "ACTIVE"
    /\ connection.pair <= aged
    /\ connection' = [connection EXCEPT !.status = "REAUTH_REQUIRED"]
    /\ shaken' = shaken \cup {connection.generation}
    /\ UNCHANGED <<worker, claims, generations, clock, tiktok>>

\* The row's access token comes within five minutes of its expiry.
Age ==
    /\ connection.pair > aged
    /\ aged' = connection.pair
    /\ UNCHANGED <<connection, worker, claims, generations, lapsed, tiktok, shaken>>

\* The row's lease ends.
Lapse ==
    /\ connection.lease > lapsed
    /\ lapsed' = connection.lease
    /\ shaken' = shaken \cup {worker[w].generation : w \in {v \in Workers : Refreshing(v) /\ worker[v].lease = connection.lease}}
    /\ UNCHANGED <<connection, worker, claims, generations, aged, tiktok>>

-----------------------------------------------------------------------------
(* TikTokTokenService.getFreshAccessToken                                   *)

Elsewhere == UNCHANGED <<claims, generations, clock, tiktok>>

\* A reply or a copy has read the connection and asks for its token.
Begin(w) ==
    /\ worker[w].phase = "idle"
    /\ connection.status = "ACTIVE"
    /\ worker' = [worker EXCEPT ![w] = [Idle EXCEPT !.phase = "reading", !.generation = connection.generation,
                                                    !.aged = aged, !.lapsed = lapsed]]
    /\ UNCHANGED <<connection, shaken>>
    /\ Elsewhere

\* readConnection finds nothing.
Unavailable(w) ==
    /\ worker[w].phase = "reading"
    /\ ~MayRead(w)
    /\ Goes(w, "shutting")
    /\ UNCHANGED <<connection, shaken>>
    /\ Elsewhere

Fresh(w) ==
    /\ worker[w].phase = "reading"
    /\ MayRead(w)
    /\ connection.pair > worker[w].aged
    /\ Stops(w)
    /\ UNCHANGED <<connection, shaken>>
    /\ Elsewhere

\* The token is about to expire; the refresh token, which lives for longer, may
\* have expired before.
Stale(w) ==
    /\ worker[w].phase = "reading"
    /\ MayRead(w)
    /\ connection.pair <= worker[w].aged
    /\ \/ worker' = [worker EXCEPT ![w].phase = "claiming", ![w].pair = connection.pair] /\ UNCHANGED shaken
       \/ Goes(w, "marking") /\ Shake(w)
    /\ UNCHANGED connection
    /\ Elsewhere

\* markReauthorization asks for the generation only.
MarkReauthorization(w) ==
    /\ worker[w].phase = "marking"
    /\ connection' = IF Same(w) THEN [connection EXCEPT !.status = "REAUTH_REQUIRED", !.lease = 0] ELSE connection
    /\ Goes(w, "shutting")
    /\ UNCHANGED shaken
    /\ Elsewhere

ClaimableAsItWasRead(w) == MayRead(w) /\ connection.lease \in {0} \cup 1..worker[w].lapsed
Claimable(w) ==
    /\ MayRead(w)
    /\ connection.pair <= worker[w].aged
    /\ connection.lease \in {0} \cup 1..worker[w].lapsed

Claim(w) ==
    /\ worker[w].phase = "claiming"
    /\ Claimable(w)
    /\ claims < MaxClaims
    /\ claims' = claims + 1
    /\ connection' = [connection EXCEPT !.lease = claims + 1]
    /\ worker' = [worker EXCEPT ![w].phase = "calling", ![w].lease = claims + 1]
    /\ UNCHANGED <<generations, clock, tiktok, shaken>>

\* It looks again, up to a hundred times.
Wait(w) ==
    /\ worker[w].phase = "claiming"
    /\ ~Claimable(w)
    /\ \/ Goes(w, "reading") /\ UNCHANGED shaken
       \/ Goes(w, "shutting") /\ Shake(w)
    /\ UNCHANGED connection
    /\ Elsewhere

-----------------------------------------------------------------------------
(* TikTokTokenService.refreshClaimed                                        *)

Answered(w) ==
    /\ worker[w].phase = "calling"
    /\ GivesPair(worker[w].generation)
    /\ worker' = [worker EXCEPT ![w].phase = "writing", ![w].pair = issued + 1]
    /\ UNCHANGED <<connection, claims, generations, clock, shaken>>

\* TikTok refuses for good; it is busy or out of reach; the call lasts for 10 s.
Refused(w) ==
    /\ worker[w].phase = "calling"
    /\ \E error \in {"RETRYABLE", "REJECTED"} :
          Fails(w, error) /\ (IF error = "REJECTED" THEN Shake(w) ELSE UNCHANGED shaken)
    /\ UNCHANGED connection
    /\ Elsewhere

\* A pair is given out, and the answer is lost, malformed or another account's.
Unanswered(w) ==
    /\ worker[w].phase = "calling"
    /\ GivesPair(worker[w].generation)
    /\ \E error \in {"RETRYABLE", "REJECTED", "OTHER"} : Fails(w, error)
    /\ Shake(w)
    /\ UNCHANGED <<connection, claims, generations, clock>>

WritePair(w) ==
    /\ worker[w].phase = "writing"
    /\ Leased(w)
    /\ connection' = [connection EXCEPT !.pair = worker[w].pair, !.lease = 0]
    /\ Stops(w)
    /\ UNCHANGED shaken
    /\ Elsewhere

\* The lease is another's, or the database throws.
WriteNothing(w) ==
    /\ worker[w].phase = "writing"
    /\ Fails(w, "OTHER")
    /\ IF Leased(w) THEN Shake(w) ELSE UNCHANGED shaken
    /\ UNCHANGED connection
    /\ Elsewhere

\* What a write that throws here leaves is the lease, until it lapses.
Release(w) ==
    /\ worker[w].phase = "releasing"
    /\ \/ /\ Leased(w)
          /\ connection' = [connection EXCEPT !.lease = 0,
                                !.status = IF worker[w].error = "REJECTED" THEN "REAUTH_REQUIRED" ELSE @]
       \/ UNCHANGED connection
    /\ IF worker[w].error = "RETRYABLE" THEN Stops(w) ELSE Goes(w, "shutting")
    /\ UNCHANGED shaken
    /\ Elsewhere

-----------------------------------------------------------------------------
\* Without a token, but for a call that may be tried again, the reply shuts the
\* connection: markReconnectRequired asks for the generation only.  A copy fails.
MarkReconnectRequired(w) ==
    /\ worker[w].phase = "shutting"
    /\ \/ /\ Same(w)
          /\ connection' = [connection EXCEPT !.status = "REAUTH_REQUIRED", !.lease = 0]
       \/ UNCHANGED connection
    /\ Stops(w)
    /\ UNCHANGED shaken
    /\ Elsewhere

Crash(w) ==
    /\ worker[w].phase # "idle"
    /\ Stops(w)
    /\ IF Refreshing(w) THEN Shake(w) ELSE UNCHANGED shaken
    /\ UNCHANGED connection
    /\ Elsewhere

-----------------------------------------------------------------------------
Init ==
    /\ connection = [status |-> "DISCONNECTED", generation |-> 0, pair |-> 0, lease |-> 0]
    /\ worker = [w \in Workers |-> Idle]
    /\ claims = 0
    /\ generations = 0
    /\ aged = 0
    /\ lapsed = 0
    /\ issued = 0
    /\ latest = [g \in 1..MaxGenerations |-> 0]
    /\ shaken = {}

WorkerStep(w) ==
    \/ Begin(w) \/ Unavailable(w) \/ Fresh(w) \/ Stale(w) \/ MarkReauthorization(w)
    \/ Claim(w) \/ Wait(w)
    \/ Answered(w) \/ Refused(w) \/ Unanswered(w) \/ WritePair(w) \/ WriteNothing(w) \/ Release(w)
    \/ MarkReconnectRequired(w) \/ Crash(w)

Next ==
    \/ Activate \/ Disconnect \/ ExpireToken \/ Age \/ Lapse
    \/ \E w \in Workers : WorkerStep(w)

Spec == Init /\ [][Next]_vars

-----------------------------------------------------------------------------
(* Properties                                                               *)

TypeOK ==
    /\ connection \in Connection
    /\ worker \in [Workers -> Work]
    /\ claims \in Leases
    /\ generations \in Generations
    /\ aged \in Pairs
    /\ lapsed \in Leases
    /\ issued \in Pairs
    /\ latest \in [1..MaxGenerations -> Pairs]
    /\ shaken \subseteq Generations

\* "A database refresh lease permits only one concurrent refresh for a credential
\* generation": as long as no lease lapses, no call is lost, nobody gives up and
\* no refresh token expires, one job at a time refreshes a connected generation,
\* with the pair the row has.
OneRefresh ==
    (connection.generation # 0 /\ connection.generation \notin shaken) =>
        \A w \in Workers : (Refreshing(w) /\ Same(w)) =>
            /\ \A v \in Workers \ {w} : ~(Refreshing(v) /\ Same(v))
            /\ worker[w].phase = "calling" => worker[w].pair = connection.pair

\* The connection then is not shut, and the row has the last pair TikTok gave out
\* or the job that has it is to write it.
LastPairIsKept ==
    (connection.generation # 0 /\ connection.generation \notin shaken) =>
        /\ connection.status = "ACTIVE"
        /\ \/ connection.pair = latest[connection.generation]
           \/ \E w \in Workers : /\ worker[w].phase = "writing"
                                 /\ Leased(w)
                                 /\ worker[w].pair = latest[connection.generation]

\* Whatever is late: no refresh brings a disconnected account's tokens back, and
\* none replaces a pair by an older one.
PairsGoForward ==
    /\ connection'.pair # 0 => connection'.generation # 0
    /\ connection'.generation = connection.generation => connection'.pair >= connection.pair
=============================================================================
