----------------------- MODULE OrderRecognitionProofs -----------------------
(***************************************************************************)
(* Proofs about OrderRecognition, for all messages, runs, faults, crashes, *)
(* outlived claims and freezes; after them, those about SheetsExport,      *)
(* which writes the recognised orders to Google Sheets.                    *)
(***************************************************************************)
EXTENDS OrderRecognition, FiniteSetTheorems, SequenceTheorems, TLAPS

\* A trigger is a manager's message and an anchor a customer's.
Parties == Triggers \cap Anchors = {}
\* The jobs of the worker are finitely many.
FiniteRuns == IsFiniteSet(Runs)

-----------------------------------------------------------------------------
(* The inductive invariant                                                  *)

\* What a run is about fits what it is doing.
RunFits(r) ==
    /\ run[r].phase # "idle" => run[r].message \in Messages
    /\ run[r].phase \in {"finding", "creating"} => run[r].message \in Triggers
    /\ run[r].phase \in {"claiming", "reclaiming"} => run[r].message \in Anchors
    /\ run[r].phase = "writing" =>
          run[r].result # "NONE" /\ (run[r].result = "IGNORE" => run[r].message \in Anchors)
RunsFit == \A r \in Runs : RunFits(r)

\* How far the run is that has created a trigger's order.
RunRecognises(r) ==
    LET m == run[r].message IN
    (m \in Triggers /\ run[r].phase \in Working) =>
        /\ order[m] # "NONE"
        /\ run[r].phase = "asking" => calls[m] = 0
        /\ run[r].phase \in {"asking", "answered", "writing"} => lines[m] = 0
        /\ run[r].phase \in {"assessing", "exporting"} => order[m] # "AI_PROCESSING"

\* The order of a trigger has one run that works on it at most, and a message
\* without an order has nothing.
OneRun == \A m \in Triggers, r, s \in Runs : (WorksOn(r, m) /\ WorksOn(s, m)) => r = s

MessageFits(m) ==
    /\ lines[m] <= 1
    /\ order[m] = "NONE" => lines[m] = 0
    /\ order[m] \in Approved => lines[m] = 1
    /\ m \in Triggers => calls[m] <= 1 /\ (order[m] = "NONE" => calls[m] = 0)
    /\ m \in Anchors => order[m] # "AI_PROCESSING"

\* An evaluation and its lease agree with the order.
ClaimFits(m) ==
    /\ m \in expired => evaluation[m] = "PROCESSING"
    /\ evaluation[m] \in {"PROPOSED", "AUTO_CREATED"} => order[m] # "NONE"
    /\ evaluation[m] \in {"NONE", "PROCESSING", "FAILED"} => order[m] = "NONE"

Fits ==
    /\ RunsFit
    /\ \A r \in Runs : RunRecognises(r)
    /\ OneRun
    /\ \A m \in Messages : MessageFits(m)
    /\ \A m \in Anchors : ClaimFits(m)
    /\ StuckOnlyIfLost

IInv == TypeOK /\ Fits

\* How many runs about m are at one of some phases.
At(m, phases) == {r \in Runs : run[r].message = m /\ run[r].phase \in phases}
ToAsk == {"asking", "failing"}
ToWrite == {"answered", "writing"}

\* Every request to the model about an anchor that was made, is about to be
\* made, or may yet be made, has its reason.
MayBeClaimed(m) ==
    \/ evaluation[m] \in {"NONE", "FAILED"}
    \/ evaluation[m] = "PROCESSING" /\ m \in expired
CallsAreOwed(m) ==
    calls[m] + Cardinality(At(m, ToAsk)) + (IF MayBeClaimed(m) THEN 1 ELSE 0) <= 1 + failed[m]

\* Every answer about an anchor is one that is about to be written, the order,
\* or the evaluation that was ignored.
AnswersAreUsed(m) ==
    Cardinality(At(m, ToWrite))
        + (IF order[m] # "NONE" THEN 1 ELSE 0) + (IF evaluation[m] = "IGNORED" THEN 1 ELSE 0) <= calls[m]

Counts == \A m \in Anchors : CallsAreOwed(m) /\ AnswersAreUsed(m)

-----------------------------------------------------------------------------
(* What a step does to the run that takes it                                *)

LEMMA RunMoves ==
    ASSUME TypeOK, NEW r \in Runs, NEW phase \in Phase, Goes(r, phase)
    PROVE  /\ run' \in [Runs -> Run]
           /\ run'[r].phase = phase /\ run'[r].message = run[r].message /\ run'[r].result = run[r].result
           /\ \A s \in Runs \ {r} : run'[s] = run[s]
BY DEF TypeOK, Goes, Run

LEMMA RunEnds ==
    ASSUME TypeOK, NEW r \in Runs, Ends(r)
    PROVE  /\ run' \in [Runs -> Run]
           /\ run'[r].phase = "idle" /\ run'[r].message = NoMessage
           /\ \A s \in Runs \ {r} : run'[s] = run[s]
BY DEF TypeOK, Ends, Run, Idle, Phase, Result

LEMMA PhasesArePhases ==
    /\ Working \subseteq Phase
    /\ {"idle", "finding", "creating", "claiming", "reclaiming", "returning"} \subseteq Phase
    /\ \A phase \in {"idle", "finding", "creating", "claiming", "reclaiming", "returning"} : phase \notin Working
    /\ {"asking", "answered", "writing", "assessing", "exporting", "failing"} = Working
BY DEF Working, Phase

LEMMA StatusesAreStatuses ==
    /\ Approved \subseteq OrderStatus /\ Concluded \subseteq EvaluationStatus
    /\ \A result \in Result : result \in {"NONE", "IGNORE"} \/ result \in OrderStatus
    /\ \A result : ConcludedAs(result) \in {"PROPOSED", "AUTO_CREATED"}
BY DEF Approved, OrderStatus, Concluded, EvaluationStatus, Result, ConcludedAs

LEMMA CountsUp ==
    ASSUME NEW S, NEW count \in [S -> Nat], NEW x
    PROVE  [count EXCEPT ![x] = @ + 1] \in [S -> Nat]
<1>1. \A y \in S : count[y] \in Nat /\ count[y] + 1 \in Nat
    OBVIOUS
<1>2. \A y \in S : [count EXCEPT ![x] = @ + 1][y] = IF y = x THEN count[y] + 1 ELSE count[y]
    OBVIOUS
<1>3. \A y \in S : [count EXCEPT ![x] = @ + 1][y] \in Nat
    BY <1>1, <1>2
<1>. QED
    BY <1>3

LEMMA TypeStep ==
    ASSUME Parties, IInv, [Next]_vars
    PROVE  TypeOK'
<1>. USE DEF IInv
<1>1. ASSUME NEW r \in Runs, NEW m \in Messages, Start(r, m) PROVE TypeOK'
  <2>1. run' \in [Runs -> Run]
    BY <1>1 DEF TypeOK, Start, Run, Idle, Phase, Result
  <2>. QED
    BY <1>1, <2>1 DEF TypeOK, Start, orders, claims, ghosts
<1>2. ASSUME NEW r \in Runs, FindOrder(r) PROVE TypeOK'
  <2>1. run' \in [Runs -> Run]
    BY <1>2, RunMoves, RunEnds, PhasesArePhases DEF FindOrder
  <2>. QED
    BY <1>2, <2>1 DEF TypeOK, FindOrder, orders, claims, ghosts
<1>3. ASSUME NEW r \in Runs, CreateProcessingOrder(r) PROVE TypeOK'
  <2>1. run' \in [Runs -> Run]
    BY <1>3, RunMoves, RunEnds, PhasesArePhases DEF CreateProcessingOrder, OnConflict
  <2>2. order' \in [Messages -> OrderStatus]
    BY <1>3 DEF TypeOK, CreateProcessingOrder, OrderStatus
  <2>. QED
    BY <1>3, <2>1, <2>2 DEF TypeOK, CreateProcessingOrder, claims, ghosts
<1>4. ASSUME NEW r \in Runs, Claim(r) PROVE TypeOK'
  <2>1. run' \in [Runs -> Run]
    BY <1>4, RunMoves, PhasesArePhases DEF Claim
  <2>2. evaluation' \in [Anchors -> EvaluationStatus]
    BY <1>4 DEF TypeOK, Claim, EvaluationStatus
  <2>. QED
    BY <1>4, <2>1, <2>2 DEF TypeOK, Claim, orders, ghosts
<1>5. ASSUME NEW r \in Runs, Reclaim(r) PROVE TypeOK'
  <2>1. run' \in [Runs -> Run]
    BY <1>5, RunMoves, PhasesArePhases DEF Reclaim
  <2>2. evaluation' \in [Anchors -> EvaluationStatus] /\ expired' \subseteq Anchors
    BY <1>5 DEF TypeOK, Reclaim, EvaluationStatus, claims
  <2>. QED
    BY <1>5, <2>1, <2>2 DEF TypeOK, Reclaim, orders, ghosts
<1>6. ASSUME NEW r \in Runs, Ask(r) PROVE TypeOK'
  <2>1. run' \in [Runs -> Run]
    BY <1>6, RunMoves, PhasesArePhases DEF Ask
  <2>2. calls' \in [Messages -> Nat] /\ failed' \in [Messages -> Nat]
    BY <1>6, CountsUp DEF TypeOK, Ask
  <2>. QED
    BY <1>6, <2>1, <2>2 DEF TypeOK, Ask, orders, claims
<1>7. ASSUME NEW r \in Runs, NEW result \in Result \ {"NONE"}, Answer(r, result) PROVE TypeOK'
  <2>1. run' \in [Runs -> Run]
    <3>1. run[r] \in Run /\ "writing" \in Phase
        BY PhasesArePhases DEF TypeOK
    <3>2. [run[r] EXCEPT !.phase = "writing", !.result = result] \in Run
        BY <3>1 DEF Run
    <3>3. run' = [run EXCEPT ![r] = [run[r] EXCEPT !.phase = "writing", !.result = result]]
        BY <1>7 DEF Answer
    <3>. QED
        BY <3>2, <3>3 DEF TypeOK
  <2>. QED
    BY <1>7, <2>1 DEF TypeOK, Answer, orders, claims, ghosts
<1>8. ASSUME NEW r \in Runs, Recognise(r) PROVE TypeOK'
  <2>1. run' \in [Runs -> Run]
    BY <1>8, RunMoves, RunEnds, PhasesArePhases DEF Recognise
  <2>2. order' \in [Messages -> OrderStatus]
    <3>1. run[r].result \in Result /\ RunFits(r)
        BY DEF TypeOK, Run, Fits, RunsFit
    <3>2. run[r].result \in OrderStatus \/ run[r].message \in Anchors
        BY <1>8, <3>1, StatusesAreStatuses DEF Recognise, RunFits
    <3>. QED
        BY <1>8, <3>1, <3>2 DEF Parties, TypeOK, Recognise
  <2>. QED
    BY <1>8, <2>1, <2>2 DEF TypeOK, Recognise, claims, ghosts
<1>9. ASSUME NEW r \in Runs, IgnoreIntent(r) PROVE TypeOK'
  <2>1. run' \in [Runs -> Run]
    BY <1>9, RunMoves, PhasesArePhases DEF IgnoreIntent
  <2>2. evaluation' \in [Anchors -> EvaluationStatus]
    BY <1>9 DEF TypeOK, IgnoreIntent, EvaluationStatus, Concluded
  <2>. QED
    BY <1>9, <2>1, <2>2 DEF TypeOK, IgnoreIntent, orders, ghosts
<1>10. ASSUME NEW r \in Runs, CreateIntended(r) PROVE TypeOK'
  <2>1. run' \in [Runs -> Run]
    BY <1>10, RunMoves, PhasesArePhases DEF CreateIntended
  <2>2. order' \in [Messages -> OrderStatus]
    BY <1>10 DEF TypeOK, CreateIntended, OrderStatus, Run, Result
  <2>3. evaluation' \in [Anchors -> EvaluationStatus]
    BY <1>10, StatusesAreStatuses DEF TypeOK, CreateIntended, EvaluationStatus, Concluded
  <2>. QED
    BY <1>10, <2>1, <2>2, <2>3 DEF TypeOK, CreateIntended, ghosts
<1>11. ASSUME NEW r \in Runs, IntendedExists(r) PROVE TypeOK'
  <2>1. run' \in [Runs -> Run]
    BY <1>11, RunMoves, PhasesArePhases DEF IntendedExists
  <2>2. failed' \in [Messages -> Nat]
    BY <1>11, CountsUp DEF TypeOK, IntendedExists
  <2>. QED
    BY <1>11, <2>1, <2>2 DEF TypeOK, IntendedExists, orders, claims
<1>12. ASSUME NEW r \in Runs, Assess(r) PROVE TypeOK'
  <2>1. run' \in [Runs -> Run]
    BY <1>12, RunMoves, PhasesArePhases DEF Assess
  <2>2. run[r].message \in Messages
    BY <1>12 DEF Assess, Fits, RunsFit, RunFits
  <2>. QED
    BY <1>12, <2>1, <2>2 DEF TypeOK, Assess, claims
<1>13. ASSUME NEW r \in Runs, ScheduleExport(r) PROVE TypeOK'
  <2>1. run' \in [Runs -> Run]
    BY <1>13, RunMoves, PhasesArePhases DEF ScheduleExport
  <2>. QED
    BY <1>13, <2>1 DEF TypeOK, ScheduleExport, orders, claims, ghosts
<1>14. ASSUME NEW r \in Runs, Return(r) PROVE TypeOK'
  <2>1. run' \in [Runs -> Run]
    BY <1>14, RunEnds DEF Return
  <2>. QED
    BY <1>14, <2>1 DEF TypeOK, Return, orders, claims, ghosts
<1>15. ASSUME NEW r \in Runs, Throw(r) PROVE TypeOK'
  <2>1. run' \in [Runs -> Run]
    BY <1>15, RunMoves, PhasesArePhases DEF Throw
  <2>2. failed' \in [Messages -> Nat]
    BY <1>15, CountsUp DEF TypeOK, Throw
  <2>. QED
    BY <1>15, <2>1, <2>2 DEF TypeOK, Throw, orders, claims
<1>16. ASSUME NEW r \in Runs, Fail(r) PROVE TypeOK'
  <2>1. run' \in [Runs -> Run]
    BY <1>16, RunEnds DEF Fail
  <2>2. order' \in [Messages -> OrderStatus]
    BY <1>16 DEF TypeOK, Fail, FailsOrder, OrderStatus
  <2>3. evaluation' \in [Anchors -> EvaluationStatus] /\ expired' \subseteq Anchors
    BY <1>16 DEF TypeOK, Fail, EvaluationStatus, claims
  <2>. QED
    BY <1>16, <2>1, <2>2, <2>3 DEF TypeOK, Fail, ghosts
<1>17. ASSUME NEW r \in Runs, Crash(r) PROVE TypeOK'
  <2>1. run' \in [Runs -> Run]
    BY <1>17, RunEnds DEF Crash
  <2>2. run[r].message \in Messages
    BY <1>17, PhasesArePhases DEF Crash, Fits, RunsFit, RunFits
  <2>. QED
    BY <1>17, <2>1, <2>2 DEF TypeOK, Crash, orders, claims
<1>18. ASSUME NEW m \in Anchors, Receive(m) \/ IgnoreFrozen(m) PROVE TypeOK'
    BY <1>18 DEF TypeOK, Receive, IgnoreFrozen, orders, claims, ghosts
<1>19. ASSUME NEW m \in Anchors, LeaseExpires(m) PROVE TypeOK'
  <2>1. failed' \in [Messages -> Nat] /\ faults' \in Nat
    BY <1>19, CountsUp DEF TypeOK, LeaseExpires
  <2>. QED
    BY <1>19, <2>1 DEF TypeOK, LeaseExpires, orders
<1>20. ASSUME NEW m \in Messages, Decide(m) PROVE TypeOK'
  <2>1. order' \in [Messages -> OrderStatus] /\ assessed' \subseteq Messages
    BY <1>20 DEF TypeOK, Decide, OrderStatus
  <2>. QED
    BY <1>20, <2>1 DEF TypeOK, Decide, Elsewhere, claims, ghosts
<1>21. ASSUME NEW m \in Messages, AssessLater(m) PROVE TypeOK'
    BY <1>21 DEF TypeOK, AssessLater, Elsewhere, claims, ghosts
<1>22. CASE Freeze
    BY <1>22 DEF TypeOK, Freeze, Elsewhere, claims, ghosts
<1>23. CASE UNCHANGED vars
    BY <1>23 DEF TypeOK, vars
<1>24. ASSUME NEW r \in Runs, Step(r) PROVE TypeOK'
    BY <1>2, <1>3, <1>4, <1>5, <1>6, <1>7, <1>8, <1>9, <1>10, <1>11, <1>12, <1>13, <1>14, <1>16, <1>24
    DEF Step
<1>. QED
    BY <1>1, <1>15, <1>17, <1>18, <1>19, <1>20, <1>21, <1>22, <1>23, <1>24 DEF Next

-----------------------------------------------------------------------------
(* The invariant without its types                                          *)

\* A step of one run about one message: what is left to show of it.
LEMMA OneMoves ==
    ASSUME IInv, NEW r \in Runs, NEW m \in Messages,
           \A s \in Runs \ {r} : run'[s] = run[s],
           \A n \in Messages \ {m} : order'[n] = order[n] /\ lines'[n] = lines[n] /\ calls'[n] = calls[n],
           \A n \in Anchors \ {m} : evaluation'[n] = evaluation[n] /\ (n \in expired' <=> n \in expired),
           lost \subseteq lost',
           run[r].phase \in Working => run[r].message = m,
           run'[r].phase \in Working => run'[r].message = m,
           RunFits(r)', RunRecognises(r)',
           \A s \in Runs \ {r} : run[s].message = m => RunRecognises(s)',
           \A s \in Runs \ {r} : (m \in Triggers /\ run'[r].phase \in Working) => ~WorksOn(s, m),
           MessageFits(m)',
           m \in Anchors => ClaimFits(m)',
           order'[m] = "AI_PROCESSING" => m \in lost' \/ \E s \in Runs : WorksOn(s, m)'
    PROVE  Fits'
<1>. USE DEF IInv, Fits
<1>1. RunsFit'
    BY DEF RunsFit, RunFits
<1>2. ASSUME NEW s \in Runs PROVE RunRecognises(s)'
  <2>1. CASE s = r
    BY <2>1
  <2>2. CASE s # r /\ run[s].message = m
    BY <2>2
  <2>3. CASE s # r /\ run[s].message # m
    BY <2>3 DEF RunRecognises, Messages
  <2>. QED
    BY <2>1, <2>2, <2>3
<1>3. OneRun'
  <2>. SUFFICES ASSUME NEW n \in Triggers, NEW s \in Runs, NEW u \in Runs, WorksOn(s, n)', WorksOn(u, n)', s # u
                PROVE  FALSE
    BY DEF OneRun
  <2>1. CASE s # r /\ u # r
    BY <2>1 DEF OneRun, WorksOn
  <2>2. CASE s = r
    BY <2>2 DEF WorksOn
  <2>3. CASE u = r
    BY <2>3 DEF WorksOn
  <2>. QED
    BY <2>1, <2>2, <2>3
<1>4. \A n \in Messages : MessageFits(n)'
    BY DEF MessageFits
<1>5. \A n \in Anchors : ClaimFits(n)'
    BY DEF ClaimFits, Messages
<1>6. StuckOnlyIfLost'
  <2>. SUFFICES ASSUME NEW n \in Messages, order'[n] = "AI_PROCESSING", n \notin lost', n # m
                PROVE  \E s \in Runs : WorksOn(s, n)'
    BY DEF StuckOnlyIfLost
  <2>1. PICK s \in Runs : WorksOn(s, n)
    BY DEF StuckOnlyIfLost
  <2>2. s # r
    BY <2>1 DEF WorksOn
  <2>. QED
    BY <2>1, <2>2 DEF WorksOn
<1>. QED
    BY <1>1, <1>2, <1>3, <1>4, <1>5, <1>6

\* A run that goes on, or ends, and writes nothing that the invariant is about.
LEMMA OnlyRunMoves ==
    ASSUME IInv, NEW r \in Runs, NEW m \in Messages,
           \A s \in Runs \ {r} : run'[s] = run[s],
           UNCHANGED <<order, lines, calls, evaluation, expired>>,
           lost \subseteq lost',
           run[r].phase \in Working => run[r].message = m,
           run'[r].phase \in Working => run[r].phase \in Working /\ run'[r].message = m,
           RunFits(r)', RunRecognises(r)',
           (m \in Triggers /\ run[r].phase \in Working /\ run'[r].phase \notin Working) =>
                m \in lost' \/ order[m] # "AI_PROCESSING"
    PROVE  Fits'
<1>. USE DEF IInv, Fits
<1>1. \A s \in Runs \ {r} : RunRecognises(s)'
    BY DEF RunRecognises
<1>2. \A s \in Runs \ {r} : (m \in Triggers /\ run'[r].phase \in Working) => ~WorksOn(s, m)
    BY DEF OneRun, WorksOn
<1>3. MessageFits(m)' /\ (m \in Anchors => ClaimFits(m)')
    BY DEF MessageFits, ClaimFits
<1>4. order'[m] = "AI_PROCESSING" => m \in lost' \/ \E s \in Runs : WorksOn(s, m)'
  <2>. SUFFICES ASSUME order[m] = "AI_PROCESSING", m \notin lost' PROVE \E s \in Runs : WorksOn(s, m)'
    OBVIOUS
  <2>1. PICK s \in Runs : WorksOn(s, m)
    BY DEF StuckOnlyIfLost
  <2>2. m \in Triggers
    BY DEF MessageFits, Messages
  <2>3. CASE s = r
    BY <2>1, <2>2, <2>3 DEF WorksOn
  <2>4. CASE s # r
    BY <2>1, <2>4 DEF WorksOn
  <2>. QED
    BY <2>3, <2>4
<1>. QED
    BY <1>1, <1>2, <1>3, <1>4, OneMoves

LEMMA FitsStep ==
    ASSUME Parties, IInv, [Next]_vars
    PROVE  Fits'
<1>. USE DEF IInv
<1>1. ASSUME NEW r \in Runs
      PROVE  RunFits(r) /\ RunRecognises(r) /\ (run[r].phase # "idle" => run[r].message \in Messages)
    BY DEF Fits, RunsFit, RunFits
<1>2. ASSUME NEW r \in Runs, NEW m \in Messages, Start(r, m) PROVE Fits'
  <2>1. /\ \A s \in Runs \ {r} : run'[s] = run[s]
        /\ run'[r].message = m /\ run'[r].phase = IF m \in Triggers THEN "finding" ELSE "claiming"
        /\ run[r].phase = "idle"
        /\ UNCHANGED <<order, lines, calls, evaluation, expired, lost>>
    BY <1>2 DEF Start, Idle, TypeOK, orders, claims, ghosts
  <2>2. RunFits(r)' /\ RunRecognises(r)' /\ run'[r].phase \notin Working /\ run[r].phase \notin Working
    BY <2>1, PhasesArePhases DEF RunFits, RunRecognises, Messages
  <2>. QED
    BY <2>1, <2>2, OnlyRunMoves
<1>3. ASSUME NEW r \in Runs, FindOrder(r) \/ Return(r) PROVE Fits'
  <2>1. /\ \A s \in Runs \ {r} : run'[s] = run[s]
        /\ run'[r].phase \in {"idle", "creating"} /\ run[r].phase \in {"finding", "returning"}
        /\ run'[r].phase = "creating" => run'[r].message = run[r].message /\ run[r].phase = "finding"
        /\ UNCHANGED <<order, lines, calls, evaluation, expired, lost>>
    BY <1>3, RunMoves, RunEnds, PhasesArePhases DEF FindOrder, Return, orders, claims, ghosts
  <2>2. RunFits(r)' /\ RunRecognises(r)' /\ run'[r].phase \notin Working /\ run[r].phase \notin Working
    BY <1>1, <2>1, PhasesArePhases DEF RunFits, RunRecognises
  <2>. QED
    BY <1>1, <2>1, <2>2, OnlyRunMoves
<1>4. ASSUME NEW r \in Runs, CreateProcessingOrder(r) PROVE Fits'
  <2>. PICK m : m = run[r].message
    OBVIOUS
  <2>1. m \in Triggers /\ m \in Messages /\ run[r].phase = "creating" /\ m \notin Anchors
    BY <1>1, <1>4 DEF CreateProcessingOrder, RunFits, Parties, Messages
  <2>2. CASE ~frozen /\ order[m] = "NONE"
    <3>1. /\ \A s \in Runs \ {r} : run'[s] = run[s]
          /\ run'[r].phase = "asking" /\ run'[r].message = m
        BY <1>4, <2>2, RunMoves, PhasesArePhases DEF CreateProcessingOrder
    <3>2. /\ order' = [order EXCEPT ![m] = "AI_PROCESSING"]
          /\ UNCHANGED <<lines, calls, evaluation, expired, lost>>
        BY <1>4, <2>2 DEF CreateProcessingOrder, claims, ghosts
    <3>3. /\ order'[m] = "AI_PROCESSING" /\ lines'[m] = 0 /\ calls'[m] = 0
          /\ \A n \in Messages \ {m} : order'[n] = order[n]
        BY <2>1, <2>2, <3>2 DEF TypeOK, Fits, MessageFits
    <3>4. RunFits(r)' /\ RunRecognises(r)' /\ run'[r].phase \in Working /\ run[r].phase \notin Working
        BY <2>1, <3>1, <3>3, PhasesArePhases DEF RunFits, RunRecognises
    <3>5. \A s \in Runs \ {r} : ~WorksOn(s, m)
        BY <2>1, <2>2 DEF Fits, RunRecognises, WorksOn
    <3>6. \A s \in Runs \ {r} : run[s].message = m => RunRecognises(s)'
        BY <3>1, <3>5 DEF RunRecognises, WorksOn
    <3>7. MessageFits(m)'
        BY <2>1, <3>3 DEF MessageFits, Approved
    <3>8. WorksOn(r, m)'
        BY <3>1, <3>4 DEF WorksOn
    <3>. QED
        BY <2>1, <3>1, <3>2, <3>3, <3>4, <3>5, <3>6, <3>7, <3>8, OneMoves
  <2>3. CASE frozen \/ order[m] # "NONE"
    <3>1. /\ \A s \in Runs \ {r} : run'[s] = run[s]
          /\ run'[r].phase = "idle"
          /\ UNCHANGED <<order, lines, calls, evaluation, expired, lost>>
        BY <1>4, <2>3, RunEnds DEF CreateProcessingOrder, OnConflict, claims, ghosts
    <3>2. RunFits(r)' /\ RunRecognises(r)' /\ run'[r].phase \notin Working /\ run[r].phase \notin Working
        BY <2>1, <3>1, PhasesArePhases DEF RunFits, RunRecognises
    <3>. QED
        BY <2>1, <3>1, <3>2, OnlyRunMoves
  <2>. QED
    BY <2>2, <2>3
<1>5. ASSUME NEW r \in Runs, Claim(r) \/ Reclaim(r) PROVE Fits'
  <2>. PICK m : m = run[r].message
    OBVIOUS
  <2>1. /\ m \in Anchors /\ m \in Messages /\ m \notin Triggers
        /\ run[r].phase \in {"claiming", "reclaiming"}
    BY <1>1, <1>5 DEF Claim, Reclaim, RunFits, Parties, Messages
  <2>2. /\ \A s \in Runs \ {r} : run'[s] = run[s]
        /\ run'[r].phase \in {"asking", "returning", "reclaiming"} /\ run'[r].message = m
    BY <1>5, RunMoves, PhasesArePhases DEF Claim, Reclaim
  <2>3. /\ UNCHANGED <<order, lines, calls, lost>>
        /\ \A n \in Anchors \ {m} : evaluation'[n] = evaluation[n] /\ (n \in expired' <=> n \in expired)
        /\ m \in expired' => m \in expired /\ evaluation'[m] = evaluation[m]
        /\ \/ evaluation'[m] = evaluation[m]
           \/ evaluation[m] \in {"NONE", "PROCESSING", "FAILED"} /\ evaluation'[m] = "PROCESSING"
    BY <1>5, <2>1 DEF Claim, Reclaim, Reclaimable, TypeOK, Fits, ClaimFits, orders, claims, ghosts
  <2>4. ClaimFits(m)' /\ MessageFits(m)'
    BY <2>1, <2>3 DEF Fits, ClaimFits, MessageFits
  <2>5. RunFits(r)' /\ RunRecognises(r)' /\ run[r].phase \notin Working
    BY <2>1, <2>2, PhasesArePhases DEF RunFits, RunRecognises
  <2>6. \A s \in Runs \ {r} : run[s].message = m => RunRecognises(s)'
    BY <2>1, <2>2 DEF RunRecognises
  <2>7. order'[m] # "AI_PROCESSING"
    BY <2>1, <2>3 DEF Fits, MessageFits
  <2>. QED
    BY <2>1, <2>2, <2>3, <2>4, <2>5, <2>6, <2>7, OneMoves
<1>6. ASSUME NEW r \in Runs, Ask(r) PROVE Fits'
  <2>. PICK m : m = run[r].message
    OBVIOUS
  <2>1. /\ m \in Messages /\ run[r].phase = "asking" /\ run[r].phase \in Working
        /\ \A s \in Runs \ {r} : run'[s] = run[s]
        /\ run'[r].phase \in {"answered", "failing"} /\ run'[r].phase \in Working
        /\ run'[r].message = m
        /\ UNCHANGED <<order, lines, evaluation, expired, lost>>
    BY <1>1, <1>6, RunMoves, PhasesArePhases DEF Ask, orders, claims
  <2>2. /\ \A n \in Messages \ {m} : calls'[n] = calls[n]
        /\ calls[m] \in Nat /\ calls'[m] \in {calls[m], calls[m] + 1}
    BY <1>6, <2>1 DEF Ask, TypeOK
  <2>3. RunFits(r)' /\ RunRecognises(r)'
    BY <1>1, <2>1 DEF RunFits, RunRecognises
  <2>4. \A s \in Runs \ {r} : m \in Triggers => ~WorksOn(s, m)
    BY <2>1 DEF Fits, OneRun, WorksOn
  <2>5. \A s \in Runs \ {r} : run[s].message = m => RunRecognises(s)'
    BY <2>1, <2>4 DEF RunRecognises, WorksOn
  <2>6. MessageFits(m)'
    BY <1>1, <2>1, <2>2 DEF Fits, MessageFits, RunRecognises
  <2>7. m \in Anchors => ClaimFits(m)'
    BY <2>1 DEF Fits, ClaimFits
  <2>8. WorksOn(r, m)'
    BY <2>1 DEF WorksOn
  <2>. QED
    BY <2>1, <2>2, <2>3, <2>4, <2>5, <2>6, <2>7, <2>8, OneMoves
<1>7. ASSUME NEW r \in Runs, NEW result \in Result \ {"NONE"}, Answer(r, result) PROVE Fits'
  <2>1. /\ run[r].phase = "answered" /\ run[r].phase \in Working /\ run[r].message \in Messages
        /\ \A s \in Runs \ {r} : run'[s] = run[s]
        /\ run'[r].phase = "writing" /\ run'[r].phase \in Working
        /\ run'[r].message = run[r].message /\ run'[r].result = result
        /\ result = "IGNORE" => run[r].message \in Anchors
        /\ UNCHANGED <<order, lines, calls, evaluation, expired, lost>>
    BY <1>1, <1>7, PhasesArePhases DEF Answer, TypeOK, Run, orders, claims, ghosts
  <2>2. RunFits(r)' /\ RunRecognises(r)'
    BY <1>1, <2>1 DEF RunFits, RunRecognises
  <2>. QED
    BY <2>1, <2>2, OnlyRunMoves
<1>8. ASSUME NEW r \in Runs, Recognise(r) PROVE Fits'
  <2>. PICK m : m = run[r].message
    OBVIOUS
  <2>1. /\ m \in Triggers /\ m \in Messages /\ m \notin Anchors
        /\ run[r].phase = "writing" /\ run[r].phase \in Working
        /\ run[r].result \in {"NEEDS_REVIEW", "AUTO_APPROVED"}
        /\ lines[m] = 0 /\ order[m] # "NONE"
    BY <1>1, <1>8, PhasesArePhases DEF Recognise, RunFits, RunRecognises, Parties, Messages, TypeOK, Run, Result
  <2>2. /\ \A s \in Runs \ {r} : run'[s] = run[s]
        /\ run'[r].phase \in {"idle", "assessing"} /\ (run'[r].phase = "assessing" => run'[r].message = m)
    BY <1>8, RunMoves, RunEnds, PhasesArePhases DEF Recognise
  <2>3. /\ order'[m] = run[r].result /\ lines'[m] = 1
        /\ \A n \in Messages \ {m} : order'[n] = order[n] /\ lines'[n] = lines[n]
        /\ UNCHANGED <<calls, evaluation, expired, lost>>
    BY <1>8, <2>1 DEF Recognise, TypeOK, claims, ghosts
  <2>4. RunFits(r)' /\ RunRecognises(r)'
    BY <2>1, <2>2, <2>3, PhasesArePhases DEF RunFits, RunRecognises
  <2>5. \A s \in Runs \ {r} : ~WorksOn(s, m)
    BY <2>1 DEF Fits, OneRun, WorksOn
  <2>6. \A s \in Runs \ {r} : run[s].message = m => RunRecognises(s)'
    BY <2>2, <2>5 DEF RunRecognises, WorksOn
  <2>7. MessageFits(m)'
    BY <2>1, <2>3 DEF Fits, MessageFits
  <2>8. run'[r].phase \in Working => run'[r].message = m
    BY <2>2, PhasesArePhases
  <2>. QED
    BY <2>1, <2>2, <2>3, <2>4, <2>5, <2>6, <2>7, <2>8, OneMoves
<1>9. ASSUME NEW r \in Runs, IgnoreIntent(r) PROVE Fits'
  <2>. PICK m : m = run[r].message
    OBVIOUS
  <2>1. /\ m \in Anchors /\ m \in Messages /\ m \notin Triggers
        /\ run[r].phase = "writing" /\ run[r].phase \in Working
    BY <1>1, <1>9, PhasesArePhases DEF IgnoreIntent, RunFits, Parties, Messages
  <2>2. /\ \A s \in Runs \ {r} : run'[s] = run[s]
        /\ run'[r].phase = "returning" /\ run'[r].phase \notin Working /\ run'[r].message = m
    BY <1>9, RunMoves, PhasesArePhases DEF IgnoreIntent
  <2>3. /\ evaluation'[m] = "IGNORED" /\ m \notin expired'
        /\ \A n \in Anchors \ {m} : evaluation'[n] = evaluation[n] /\ (n \in expired' <=> n \in expired)
        /\ UNCHANGED <<order, lines, calls, lost>>
    BY <1>9, <2>1 DEF IgnoreIntent, TypeOK, orders, ghosts
  <2>4. RunFits(r)' /\ RunRecognises(r)'
    BY <2>1, <2>2 DEF RunFits, RunRecognises
  <2>5. \A s \in Runs \ {r} : run[s].message = m => RunRecognises(s)'
    BY <2>1, <2>2 DEF RunRecognises
  <2>6. MessageFits(m)' /\ ClaimFits(m)' /\ order'[m] # "AI_PROCESSING"
    BY <2>1, <2>3 DEF Fits, MessageFits, ClaimFits
  <2>. QED
    BY <2>1, <2>2, <2>3, <2>4, <2>5, <2>6, OneMoves
<1>10. ASSUME NEW r \in Runs, CreateIntended(r) PROVE Fits'
  <2>. PICK m : m = run[r].message
    OBVIOUS
  <2>1. /\ m \in Anchors /\ m \in Messages /\ m \notin Triggers
        /\ run[r].phase = "writing" /\ run[r].phase \in Working
        /\ run[r].result \in {"NEEDS_REVIEW", "AUTO_APPROVED"}
        /\ order[m] = "NONE" /\ lines[m] = 0
    BY <1>1, <1>10, PhasesArePhases DEF CreateIntended, RunFits, Parties, Messages, TypeOK, Run, Result, Fits, MessageFits
  <2>2. /\ \A s \in Runs \ {r} : run'[s] = run[s]
        /\ run'[r].phase \in {"assessing", "returning"} /\ run'[r].message = m
    BY <1>10, RunMoves, PhasesArePhases DEF CreateIntended
  <2>3. /\ order'[m] = run[r].result /\ lines'[m] = 1
        /\ \A n \in Messages \ {m} : order'[n] = order[n] /\ lines'[n] = lines[n]
        /\ evaluation'[m] \in {"PROPOSED", "AUTO_CREATED"} /\ m \notin expired'
        /\ \A n \in Anchors \ {m} : evaluation'[n] = evaluation[n] /\ (n \in expired' <=> n \in expired)
        /\ UNCHANGED <<calls, lost>>
    BY <1>10, <2>1, StatusesAreStatuses DEF CreateIntended, TypeOK, ghosts
  <2>4. RunFits(r)' /\ RunRecognises(r)'
    BY <2>1, <2>2 DEF RunFits, RunRecognises
  <2>5. \A s \in Runs \ {r} : run[s].message = m => RunRecognises(s)'
    BY <2>1, <2>2 DEF RunRecognises
  <2>6. MessageFits(m)' /\ ClaimFits(m)' /\ order'[m] # "AI_PROCESSING"
    BY <2>1, <2>3 DEF MessageFits, ClaimFits
  <2>. QED
    BY <2>1, <2>2, <2>3, <2>4, <2>5, <2>6, OneMoves
<1>11. ASSUME NEW r \in Runs, IntendedExists(r) \/ Throw(r) PROVE Fits'
  <2>1. /\ run[r].phase \in Working /\ run[r].message \in Messages
        /\ \A s \in Runs \ {r} : run'[s] = run[s]
        /\ run'[r].phase = "failing" /\ run'[r].phase \in Working
        /\ run'[r].message = run[r].message
        /\ UNCHANGED <<order, lines, calls, evaluation, expired, lost>>
    BY <1>1, <1>11, RunMoves, PhasesArePhases DEF IntendedExists, Throw, orders, claims
  <2>2. RunFits(r)' /\ RunRecognises(r)'
    BY <1>1, <2>1 DEF RunFits, RunRecognises
  <2>. QED
    BY <2>1, <2>2, OnlyRunMoves
<1>12. ASSUME NEW r \in Runs, Assess(r) PROVE Fits'
  <2>1. /\ run[r].phase = "assessing" /\ run[r].phase \in Working /\ run[r].message \in Messages
        /\ \A s \in Runs \ {r} : run'[s] = run[s]
        /\ run'[r].phase \in {"exporting", "failing"} /\ run'[r].phase \in Working
        /\ run'[r].message = run[r].message
        /\ UNCHANGED <<order, lines, calls, evaluation, expired, lost>>
    BY <1>1, <1>12, RunMoves, PhasesArePhases DEF Assess, claims
  <2>2. RunFits(r)' /\ RunRecognises(r)'
    BY <1>1, <2>1 DEF RunFits, RunRecognises
  <2>. QED
    BY <2>1, <2>2, OnlyRunMoves
<1>13. ASSUME NEW r \in Runs, ScheduleExport(r) PROVE Fits'
  <2>1. /\ run[r].phase = "exporting" /\ run[r].phase \in Working /\ run[r].message \in Messages
        /\ \A s \in Runs \ {r} : run'[s] = run[s]
        /\ run'[r].phase = "returning" /\ run'[r].phase \notin Working
        /\ run'[r].message = run[r].message
        /\ UNCHANGED <<order, lines, calls, evaluation, expired, lost>>
    BY <1>1, <1>13, RunMoves, PhasesArePhases DEF ScheduleExport, orders, claims, ghosts
  <2>2. /\ RunFits(r)' /\ RunRecognises(r)'
        /\ run[r].message \in Triggers => order[run[r].message] # "AI_PROCESSING"
    BY <1>1, <2>1 DEF RunFits, RunRecognises
  <2>. QED
    BY <2>1, <2>2, OnlyRunMoves
<1>14. ASSUME NEW r \in Runs, Fail(r) PROVE Fits'
  <2>. PICK m : m = run[r].message
    OBVIOUS
  <2>1. /\ m \in Messages /\ (m \in Triggers \/ m \in Anchors) /\ (m \in Triggers => m \notin Anchors)
        /\ run[r].phase = "failing" /\ run[r].phase \in Working
    BY <1>1, <1>14, PhasesArePhases DEF Fail, Parties, Messages
  <2>2. /\ \A s \in Runs \ {r} : run'[s] = run[s]
        /\ run'[r].phase = "idle" /\ run'[r].phase \notin Working
    BY <1>14, RunEnds, PhasesArePhases DEF Fail
  <2>3. RunFits(r)' /\ RunRecognises(r)'
    BY <2>2 DEF RunFits, RunRecognises
  <2>4. UNCHANGED <<lines, calls, lost>>
    BY <1>14 DEF Fail, ghosts
  <2>5. CASE m \in Triggers
    <3>1. /\ order'[m] = "AI_FAILED" /\ \A n \in Messages \ {m} : order'[n] = order[n]
          /\ UNCHANGED <<evaluation, expired>>
        BY <1>14, <2>1, <2>5 DEF Fail, FailsOrder, TypeOK, claims
    <3>2. \A s \in Runs \ {r} : ~WorksOn(s, m)
        BY <2>1, <2>5 DEF Fits, OneRun, WorksOn
    <3>3. \A s \in Runs \ {r} : run[s].message = m => RunRecognises(s)'
        BY <2>2, <3>2 DEF RunRecognises, WorksOn
    <3>4. MessageFits(m)'
        BY <1>1, <2>1, <2>4, <2>5, <3>1 DEF Fits, MessageFits, RunRecognises, Approved
    <3>. QED
        BY <2>1, <2>2, <2>3, <2>4, <2>5, <3>1, <3>2, <3>3, <3>4, OneMoves
  <2>6. CASE m \notin Triggers
    <3>1. /\ m \in Anchors /\ order' = order /\ m \notin expired'
          /\ evaluation'[m] = IF evaluation[m] = "PROCESSING" THEN "FAILED" ELSE evaluation[m]
          /\ \A n \in Anchors \ {m} : evaluation'[n] = evaluation[n] /\ (n \in expired' <=> n \in expired)
        BY <1>14, <2>1, <2>6 DEF Fail, Fails, TypeOK
    <3>2. \A s \in Runs \ {r} : run[s].message = m => RunRecognises(s)'
        BY <2>2, <2>6 DEF RunRecognises
    <3>3. MessageFits(m)' /\ ClaimFits(m)' /\ order'[m] # "AI_PROCESSING"
        BY <2>1, <2>4, <3>1 DEF Fits, MessageFits, ClaimFits
    <3>. QED
        BY <2>1, <2>2, <2>3, <2>4, <2>6, <3>1, <3>2, <3>3, OneMoves
  <2>. QED
    BY <2>5, <2>6
<1>15. ASSUME NEW r \in Runs, Crash(r) PROVE Fits'
  <2>1. /\ run[r].message \in Messages
        /\ \A s \in Runs \ {r} : run'[s] = run[s]
        /\ run'[r].phase = "idle" /\ run'[r].phase \notin Working
        /\ UNCHANGED <<order, lines, calls, evaluation, expired>>
        /\ lost' = lost \cup {run[r].message}
    BY <1>1, <1>15, RunEnds, PhasesArePhases DEF Crash, orders, claims
  <2>2. RunFits(r)' /\ RunRecognises(r)'
    BY <2>1 DEF RunFits, RunRecognises
  <2>. QED
    BY <2>1, <2>2, OnlyRunMoves
\* The steps of no run.
<1>16. ASSUME UNCHANGED <<order, lines, calls, evaluation, run, lost>>,
              \A m \in Anchors : m \in expired' => evaluation[m] = "PROCESSING"
       PROVE  Fits'
  <2>1. RunsFit' /\ (\A r \in Runs : RunRecognises(r)') /\ OneRun'
    BY <1>16 DEF Fits, RunsFit, RunFits, RunRecognises, OneRun, WorksOn
  <2>2. (\A m \in Messages : MessageFits(m)') /\ (\A m \in Anchors : ClaimFits(m)')
    BY <1>16 DEF Fits, MessageFits, ClaimFits
  <2>3. StuckOnlyIfLost'
    BY <1>16 DEF Fits, StuckOnlyIfLost, WorksOn
  <2>. QED
    BY <2>1, <2>2, <2>3 DEF Fits
<1>17. \A m \in Anchors : m \in expired => evaluation[m] = "PROCESSING"
    BY DEF Fits, ClaimFits
<1>18. ASSUME NEW m \in Anchors, Receive(m) \/ IgnoreFrozen(m) \/ LeaseExpires(m) PROVE Fits'
    BY <1>16, <1>17, <1>18 DEF Receive, IgnoreFrozen, LeaseExpires, orders, claims, ghosts
<1>19. ASSUME (\E m \in Messages : AssessLater(m)) \/ Freeze \/ UNCHANGED vars PROVE Fits'
    BY <1>16, <1>17, <1>19 DEF AssessLater, Freeze, Elsewhere, claims, ghosts, vars
<1>20. ASSUME NEW m \in Messages, Decide(m) PROVE Fits'
  <2>1. /\ order[m] # "NONE"
        /\ order'[m] \in {"APPROVED", "CANCELLED", "NEEDS_REVIEW"} /\ (order'[m] = "APPROVED" => lines[m] > 0)
        /\ \A n \in Messages \ {m} : order'[n] = order[n]
        /\ UNCHANGED <<lines, calls, evaluation, expired, run, lost>>
    BY <1>20 DEF Decide, Elsewhere, TypeOK, claims, ghosts
  <2>2. RunsFit' /\ OneRun'
    BY <2>1 DEF Fits, RunsFit, RunFits, OneRun, WorksOn
  <2>3. ASSUME NEW r \in Runs PROVE RunRecognises(r)'
    BY <1>1, <2>1 DEF RunRecognises, Messages
  <2>4. ASSUME NEW n \in Messages PROVE MessageFits(n)'
    <3>1. MessageFits(n) /\ lines[n] \in Nat
        BY DEF Fits, TypeOK
    <3>2. CASE n # m
        BY <2>1, <3>1, <3>2 DEF MessageFits
    <3>3. CASE n = m
        BY <2>1, <3>1, <3>3 DEF MessageFits, Approved
    <3>. QED
        BY <3>2, <3>3
  <2>5. \A n \in Anchors : ClaimFits(n)'
    BY <2>1 DEF Fits, ClaimFits, Messages
  <2>6. StuckOnlyIfLost'
    BY <2>1 DEF Fits, StuckOnlyIfLost, WorksOn
  <2>. QED
    BY <2>2, <2>3, <2>4, <2>5, <2>6 DEF Fits
<1>21. ASSUME NEW r \in Runs, Step(r) PROVE Fits'
    BY <1>3, <1>4, <1>5, <1>6, <1>7, <1>8, <1>9, <1>10, <1>11, <1>12, <1>13, <1>14, <1>21 DEF Step
<1>. QED
    BY <1>2, <1>11, <1>15, <1>18, <1>19, <1>20, <1>21 DEF Next

-----------------------------------------------------------------------------
(* Requests to the model                                                    *)

LEMMA AtType ==
    ASSUME FiniteRuns, NEW m, NEW phases
    PROVE  IsFiniteSet(At(m, phases)) /\ Cardinality(At(m, phases)) \in Nat
BY FS_Subset, FS_CardinalityType DEF FiniteRuns, At

\* One run counts one, where it was and where it is.
LEMMA AtMoves ==
    ASSUME FiniteRuns, NEW r \in Runs, NEW m, NEW phases, \A s \in Runs \ {r} : run'[s] = run[s]
    PROVE  Cardinality(At(m, phases))' + (IF r \in At(m, phases) THEN 1 ELSE 0)
               = Cardinality(At(m, phases)) + (IF r \in At(m, phases)' THEN 1 ELSE 0)
<1>. DEFINE Others == At(m, phases) \ {r}
<1>1. IsFiniteSet(Others) /\ Cardinality(Others) \in Nat
    BY AtType, FS_RemoveElement, FS_CardinalityType
<1>2. At(m, phases)' = IF r \in At(m, phases)' THEN Others \cup {r} ELSE Others
    BY DEF At
<1>3. At(m, phases) = IF r \in At(m, phases) THEN Others \cup {r} ELSE Others
    BY DEF At
<1>4. Cardinality(Others \cup {r}) = Cardinality(Others) + 1
    BY <1>1, FS_AddElement
<1>. HIDE DEF Others
<1>5. Cardinality(At(m, phases)') = IF r \in At(m, phases)' THEN Cardinality(Others) + 1 ELSE Cardinality(Others)
    BY <1>2, <1>4
<1>6. Cardinality(At(m, phases)) = IF r \in At(m, phases) THEN Cardinality(Others) + 1 ELSE Cardinality(Others)
    BY <1>3, <1>4
<1>. QED
    BY <1>1, <1>5, <1>6

\* The same of a run that is about m, in terms of its phase.
LEMMA RunCounts ==
    ASSUME FiniteRuns, NEW r \in Runs, NEW m, \A s \in Runs \ {r} : run'[s] = run[s],
           run[r].message = m, run'[r].message = m \/ run'[r].phase = "idle"
    PROVE  /\ Cardinality(At(m, ToAsk)) \in Nat /\ Cardinality(At(m, ToAsk))' \in Nat
           /\ Cardinality(At(m, ToWrite)) \in Nat /\ Cardinality(At(m, ToWrite))' \in Nat
           /\ Cardinality(At(m, ToAsk))' + (IF run[r].phase \in ToAsk THEN 1 ELSE 0)
                  = Cardinality(At(m, ToAsk)) + (IF run'[r].phase \in ToAsk THEN 1 ELSE 0)
           /\ Cardinality(At(m, ToWrite))' + (IF run[r].phase \in ToWrite THEN 1 ELSE 0)
                  = Cardinality(At(m, ToWrite)) + (IF run'[r].phase \in ToWrite THEN 1 ELSE 0)
<1>1. /\ r \in At(m, ToAsk) <=> run[r].phase \in ToAsk
      /\ r \in At(m, ToAsk)' <=> run'[r].phase \in ToAsk
      /\ r \in At(m, ToWrite) <=> run[r].phase \in ToWrite
      /\ r \in At(m, ToWrite)' <=> run'[r].phase \in ToWrite
    BY DEF At, ToAsk, ToWrite
<1>2. /\ Cardinality(At(m, ToAsk)) \in Nat /\ Cardinality(At(m, ToWrite)) \in Nat
      /\ Cardinality(At(m, ToAsk)') \in Nat /\ Cardinality(At(m, ToWrite)') \in Nat
  <2>1. ASSUME NEW phases PROVE Cardinality(At(m, phases)') \in Nat
    BY FS_Subset, FS_CardinalityType DEF FiniteRuns, At
  <2>. QED
    BY <2>1, AtType DEF ToAsk, ToWrite
<1>3. /\ Cardinality(At(m, ToAsk))' + (IF r \in At(m, ToAsk) THEN 1 ELSE 0)
             = Cardinality(At(m, ToAsk)) + (IF r \in At(m, ToAsk)' THEN 1 ELSE 0)
      /\ Cardinality(At(m, ToWrite))' + (IF r \in At(m, ToWrite) THEN 1 ELSE 0)
             = Cardinality(At(m, ToWrite)) + (IF r \in At(m, ToWrite)' THEN 1 ELSE 0)
    BY AtMoves DEF ToAsk, ToWrite
<1>. QED
    BY <1>1, <1>2, <1>3

\* What was made and reserved for an anchor stays, if no run is at it.
LEMMA CountsKeep ==
    ASSUME FiniteRuns, TypeOK, NEW m \in Anchors, CallsAreOwed(m), AnswersAreUsed(m),
           At(m, ToAsk)' \subseteq At(m, ToAsk), At(m, ToWrite)' \subseteq At(m, ToWrite),
           calls'[m] = calls[m], failed'[m] \in Nat, failed[m] <= failed'[m],
           order'[m] # "NONE" => order[m] # "NONE",
           evaluation'[m] = "IGNORED" => evaluation[m] = "IGNORED",
           MayBeClaimed(m)' => MayBeClaimed(m) \/ failed[m] < failed'[m]
    PROVE  CallsAreOwed(m)' /\ AnswersAreUsed(m)'
<1>1. /\ Cardinality(At(m, ToAsk)') <= Cardinality(At(m, ToAsk))
      /\ Cardinality(At(m, ToWrite)') <= Cardinality(At(m, ToWrite))
      /\ Cardinality(At(m, ToAsk)) \in Nat /\ Cardinality(At(m, ToAsk)') \in Nat
      /\ Cardinality(At(m, ToWrite)) \in Nat /\ Cardinality(At(m, ToWrite)') \in Nat
    BY AtType, FS_Subset, FS_CardinalityType DEF ToAsk, ToWrite
<1>2. calls[m] \in Nat /\ failed[m] \in Nat
    BY DEF TypeOK, Messages
<1>. QED
    BY <1>1, <1>2 DEF CallsAreOwed, AnswersAreUsed

\* ... in particular for an anchor that the step is not about.
LEMMA CountsKeepElsewhere ==
    ASSUME FiniteRuns, TypeOK, NEW r \in Runs, NEW m, NEW n \in Anchors, n # m,
           CallsAreOwed(n), AnswersAreUsed(n),
           \A s \in Runs \ {r} : run'[s] = run[s],
           run'[r].message = m \/ run'[r].phase = "idle",
           calls'[n] = calls[n], failed'[n] = failed[n], order'[n] = order[n],
           evaluation'[n] = evaluation[n], n \in expired' => n \in expired
    PROVE  CallsAreOwed(n)' /\ AnswersAreUsed(n)'
<1>1. At(n, ToAsk)' \subseteq At(n, ToAsk) /\ At(n, ToWrite)' \subseteq At(n, ToWrite)
    BY DEF At, ToAsk, ToWrite
<1>2. MayBeClaimed(n)' => MayBeClaimed(n)
    BY DEF MayBeClaimed
<1>3. failed[n] \in Nat
    BY DEF TypeOK, Messages
<1>. QED
    BY <1>1, <1>2, <1>3, CountsKeep

LEMMA CountStep ==
    ASSUME Parties, FiniteRuns, IInv, Counts, [Next]_vars
    PROVE  Counts'
<1>. SUFFICES ASSUME NEW n \in Anchors PROVE CallsAreOwed(n)' /\ AnswersAreUsed(n)'
    BY DEF Counts
<1>. USE DEF IInv
<1>1. /\ CallsAreOwed(n) /\ AnswersAreUsed(n) /\ n \in Messages /\ n \notin Triggers
      /\ calls[n] \in Nat /\ failed[n] \in Nat
    BY DEF Counts, TypeOK, Messages, Parties
<1>2. ASSUME NEW r \in Runs PROVE RunFits(r) /\ (run[r].phase # "idle" => run[r].message \in Messages)
    BY DEF Fits, RunsFit, RunFits
\* The steps that ask for nothing and answer nothing.
<1>3. ASSUME UNCHANGED <<calls, failed, evaluation, expired>>, order'[n] # "NONE" => order[n] # "NONE",
             At(n, ToAsk)' \subseteq At(n, ToAsk), At(n, ToWrite)' \subseteq At(n, ToWrite)
      PROVE  CallsAreOwed(n)' /\ AnswersAreUsed(n)'
  <2>1. MayBeClaimed(n)' => MayBeClaimed(n)
    BY <1>3 DEF MayBeClaimed
  <2>. QED
    BY <1>1, <1>3, <2>1, CountsKeep
<1>4. ASSUME NEW r \in Runs, NEW m \in Messages, Start(r, m) PROVE CallsAreOwed(n)' /\ AnswersAreUsed(n)'
  <2>1. /\ \A s \in Runs \ {r} : run'[s] = run[s]
        /\ run'[r].phase \in {"finding", "claiming"}
        /\ UNCHANGED <<order, calls, failed, evaluation, expired>>
    BY <1>4 DEF Start, Idle, TypeOK, orders, claims, ghosts
  <2>. QED
    BY <1>3, <2>1 DEF At, ToAsk, ToWrite
<1>5. ASSUME NEW r \in Runs, FindOrder(r) \/ Return(r) \/ Crash(r) \/ ScheduleExport(r)
      PROVE  CallsAreOwed(n)' /\ AnswersAreUsed(n)'
  <2>1. /\ \A s \in Runs \ {r} : run'[s] = run[s]
        /\ run'[r].phase \in {"idle", "creating", "returning"}
        /\ UNCHANGED <<order, calls, failed, evaluation, expired>>
    BY <1>5, RunMoves, RunEnds, PhasesArePhases
    DEF FindOrder, Return, Crash, ScheduleExport, orders, claims, ghosts
  <2>. QED
    BY <1>3, <2>1 DEF At, ToAsk, ToWrite
<1>6. ASSUME NEW r \in Runs, NEW result \in Result \ {"NONE"}, Answer(r, result)
      PROVE  CallsAreOwed(n)' /\ AnswersAreUsed(n)'
  <2>1. /\ \A s \in Runs \ {r} : run'[s] = run[s]
        /\ run[r].phase = "answered" /\ run'[r].phase = "writing" /\ run'[r].message = run[r].message
        /\ UNCHANGED <<order, calls, failed, evaluation, expired>>
    BY <1>6 DEF Answer, TypeOK, Run, orders, claims, ghosts
  <2>. QED
    BY <1>3, <2>1 DEF At, ToAsk, ToWrite
<1>7. ASSUME NEW m \in Messages, Decide(m) PROVE CallsAreOwed(n)' /\ AnswersAreUsed(n)'
  <2>1. /\ order'[n] # "NONE" => order[n] # "NONE"
        /\ UNCHANGED <<run, calls, failed, evaluation, expired>>
    BY <1>1, <1>7 DEF Decide, Elsewhere, TypeOK, claims, ghosts
  <2>. QED
    BY <1>3, <2>1 DEF At
<1>8. ASSUME \/ \E m \in Anchors : Receive(m) \/ IgnoreFrozen(m)
             \/ \E m \in Messages : AssessLater(m)
             \/ Freeze \/ UNCHANGED vars
      PROVE  CallsAreOwed(n)' /\ AnswersAreUsed(n)'
  <2>1. UNCHANGED <<order, run, calls, failed, evaluation, expired>>
    BY <1>8 DEF Receive, IgnoreFrozen, AssessLater, Freeze, Elsewhere, orders, claims, ghosts, vars
  <2>. QED
    BY <1>3, <2>1 DEF At
\* What is about a trigger.
<1>9. ASSUME NEW r \in Runs, CreateProcessingOrder(r) \/ Recognise(r)
      PROVE  CallsAreOwed(n)' /\ AnswersAreUsed(n)'
  <2>. PICK m : m = run[r].message
    OBVIOUS
  <2>1. m \in Triggers /\ m # n
    BY <1>1, <1>2, <1>9 DEF CreateProcessingOrder, Recognise, RunFits
  <2>2. /\ \A s \in Runs \ {r} : run'[s] = run[s]
        /\ run'[r].message = m \/ run'[r].phase = "idle"
    BY <1>9, RunMoves, RunEnds, PhasesArePhases DEF CreateProcessingOrder, Recognise, OnConflict
  <2>3. order'[n] = order[n] /\ UNCHANGED <<calls, failed, evaluation, expired>>
    BY <1>1, <1>9, <2>1 DEF CreateProcessingOrder, Recognise, TypeOK, claims, ghosts
  <2>. QED
    BY <1>1, <2>1, <2>2, <2>3, CountsKeepElsewhere
\* The claims.
<1>10. ASSUME NEW r \in Runs, Claim(r) \/ Reclaim(r) PROVE CallsAreOwed(n)' /\ AnswersAreUsed(n)'
  <2>. PICK m : m = run[r].message
    OBVIOUS
  <2>1. /\ m \in Anchors /\ run[r].phase \in {"claiming", "reclaiming"}
        /\ m \in expired => evaluation[m] = "PROCESSING"
    BY <1>2, <1>10 DEF Claim, Reclaim, RunFits, Fits, ClaimFits
  <2>2. /\ \A s \in Runs \ {r} : run'[s] = run[s]
        /\ run'[r].phase \in {"asking", "returning", "reclaiming"} /\ run'[r].message = m
    BY <1>10, RunMoves, PhasesArePhases DEF Claim, Reclaim
  <2>3. UNCHANGED <<order, calls, failed>>
    BY <1>10 DEF Claim, Reclaim, orders, ghosts
  <2>4. CASE n # m
    <3>1. evaluation'[n] = evaluation[n] /\ (n \in expired' => n \in expired)
        BY <1>10, <2>1, <2>4 DEF Claim, Reclaim, TypeOK, claims
    <3>. QED
        BY <1>1, <2>2, <2>3, <2>4, <3>1, CountsKeepElsewhere
  <2>5. CASE n = m
    <3>1. \/ run'[r].phase = "asking" /\ MayBeClaimed(m) /\ ~MayBeClaimed(m)' /\ evaluation'[m] = "PROCESSING"
          \/ run'[r].phase # "asking" /\ evaluation' = evaluation /\ expired' = expired
        BY <1>10, <2>1, RunMoves, PhasesArePhases DEF Claim, Reclaim, Reclaimable, MayBeClaimed, TypeOK, claims
    <3>2. (MayBeClaimed(m)' => MayBeClaimed(m)) /\ (evaluation'[m] = "IGNORED" => evaluation[m] = "IGNORED")
        BY <3>1 DEF MayBeClaimed
    <3>. QED
        BY <1>1, <2>1, <2>2, <2>3, <2>5, <3>1, <3>2, RunCounts DEF CallsAreOwed, AnswersAreUsed, ToAsk, ToWrite
  <2>. QED
    BY <2>4, <2>5
<1>11. ASSUME NEW m \in Anchors, LeaseExpires(m) PROVE CallsAreOwed(n)' /\ AnswersAreUsed(n)'
  <2>1. UNCHANGED <<order, evaluation, run, calls>>
    BY <1>11 DEF LeaseExpires, orders
  <2>2. /\ n # m => failed'[n] = failed[n] /\ (n \in expired' => n \in expired)
        /\ n = m => failed'[n] = failed[n] + 1
    BY <1>1, <1>11 DEF LeaseExpires, TypeOK
  <2>3. /\ failed'[n] \in Nat /\ failed[n] <= failed'[n]
        /\ MayBeClaimed(n)' => MayBeClaimed(n) \/ failed[n] < failed'[n]
    BY <1>1, <2>1, <2>2 DEF MayBeClaimed
  <2>. QED
    BY <1>1, <2>1, <2>3, CountsKeep DEF At
\* The request, and what follows its answer.
<1>12. ASSUME NEW r \in Runs, Ask(r) PROVE CallsAreOwed(n)' /\ AnswersAreUsed(n)'
  <2>. PICK m : m = run[r].message
    OBVIOUS
  <2>1. /\ run[r].phase = "asking" /\ m \in Messages
        /\ \A s \in Runs \ {r} : run'[s] = run[s]
        /\ run'[r].phase = (IF frozen THEN "failing" ELSE "answered") /\ run'[r].message = m
        /\ UNCHANGED <<order, evaluation, expired>>
    BY <1>2, <1>12, RunMoves, PhasesArePhases DEF Ask, orders, claims
  <2>2. /\ n # m => calls'[n] = calls[n] /\ failed'[n] = failed[n]
        /\ n = m /\ frozen => calls'[n] = calls[n] /\ failed'[n] = failed[n] + 1
        /\ n = m /\ ~frozen => calls'[n] = calls[n] + 1 /\ failed'[n] = failed[n]
    BY <1>1, <1>12 DEF Ask, TypeOK
  <2>3. CASE n # m
    BY <1>1, <2>1, <2>2, <2>3, CountsKeepElsewhere
  <2>4. CASE n = m
    <3>1. MayBeClaimed(m)' <=> MayBeClaimed(m)
        BY <2>1 DEF MayBeClaimed
    <3>. QED
        BY <1>1, <2>1, <2>2, <2>4, <3>1, RunCounts DEF CallsAreOwed, AnswersAreUsed, ToAsk, ToWrite
  <2>. QED
    BY <2>3, <2>4
<1>13. ASSUME NEW r \in Runs, IgnoreIntent(r) \/ CreateIntended(r) PROVE CallsAreOwed(n)' /\ AnswersAreUsed(n)'
  <2>. PICK m : m = run[r].message
    OBVIOUS
  <2>1. /\ run[r].phase = "writing" /\ m \in Anchors /\ m \in Messages
        /\ \A s \in Runs \ {r} : run'[s] = run[s]
        /\ run'[r].phase \in {"returning", "assessing"} /\ run'[r].message = m
        /\ UNCHANGED <<calls, failed>>
    BY <1>2, <1>13, RunMoves, PhasesArePhases DEF IgnoreIntent, CreateIntended, RunFits, Messages, ghosts
  <2>2. \A k \in Anchors \ {m} : order'[k] = order[k] /\ evaluation'[k] = evaluation[k] /\ (k \in expired' => k \in expired)
    BY <1>13 DEF IgnoreIntent, CreateIntended, TypeOK, Messages, orders
  <2>3. \/ evaluation'[m] = "IGNORED" /\ order' = order
        \/ evaluation'[m] \in {"PROPOSED", "AUTO_CREATED"} /\ order[m] = "NONE"
    BY <1>13, <2>1, StatusesAreStatuses DEF IgnoreIntent, CreateIntended, TypeOK, orders
  <2>4. CASE n # m
    BY <1>1, <2>1, <2>2, <2>4, CountsKeepElsewhere
  <2>5. CASE n = m
    <3>1. ~MayBeClaimed(m)'
        BY <2>3 DEF MayBeClaimed
    <3>. QED
        BY <1>1, <2>1, <2>3, <2>5, <3>1, RunCounts DEF CallsAreOwed, AnswersAreUsed, ToAsk, ToWrite
  <2>. QED
    BY <2>4, <2>5
<1>14. ASSUME NEW r \in Runs, IntendedExists(r) \/ Throw(r) \/ Assess(r) PROVE CallsAreOwed(n)' /\ AnswersAreUsed(n)'
  <2>. PICK m : m = run[r].message
    OBVIOUS
  <2>1. /\ m \in Messages
        /\ \A s \in Runs \ {r} : run'[s] = run[s]
        /\ run'[r].message = m
        /\ UNCHANGED <<order, calls, evaluation, expired>>
    BY <1>2, <1>14, RunMoves, PhasesArePhases DEF IntendedExists, Throw, Assess, orders, claims
  <2>2. \/ run'[r].phase = "failing" /\ failed' = [failed EXCEPT ![m] = @ + 1]
        \/ run'[r].phase = "exporting" /\ failed' = failed
    BY <1>14, RunMoves, PhasesArePhases DEF IntendedExists, Throw, Assess
  <2>3. n # m => failed'[n] = failed[n]
    BY <1>1, <2>2 DEF TypeOK
  <2>4. CASE n # m
    BY <1>1, <2>1, <2>3, <2>4, CountsKeepElsewhere
  <2>5. CASE n = m
    <3>1. MayBeClaimed(m)' <=> MayBeClaimed(m)
        BY <2>1 DEF MayBeClaimed
    <3>2. \/ run'[r].phase = "failing" /\ failed'[m] = failed[m] + 1
          \/ run'[r].phase = "exporting" /\ failed'[m] = failed[m]
        BY <2>1, <2>2 DEF TypeOK
    <3>. QED
        BY <1>1, <2>1, <2>5, <3>1, <3>2, RunCounts DEF CallsAreOwed, AnswersAreUsed, ToAsk, ToWrite
  <2>. QED
    BY <2>4, <2>5
<1>15. ASSUME NEW r \in Runs, Fail(r) PROVE CallsAreOwed(n)' /\ AnswersAreUsed(n)'
  <2>. PICK m : m = run[r].message
    OBVIOUS
  <2>1. /\ m \in Messages /\ run[r].phase = "failing"
        /\ \A s \in Runs \ {r} : run'[s] = run[s]
        /\ run'[r].phase = "idle"
        /\ UNCHANGED <<calls, failed>>
    BY <1>2, <1>15, RunEnds DEF Fail, ghosts
  <2>2. CASE n # m
    <3>1. order'[n] = order[n] /\ evaluation'[n] = evaluation[n] /\ (n \in expired' => n \in expired)
        BY <1>1, <1>15, <2>2 DEF Fail, FailsOrder, TypeOK, claims
    <3>. QED
        BY <1>1, <2>1, <2>2, <3>1, CountsKeepElsewhere
  <2>3. CASE n = m
    <3>1. order' = order /\ (evaluation'[m] = "IGNORED" => evaluation[m] = "IGNORED")
        BY <1>1, <1>15, <2>3 DEF Fail, TypeOK
    <3>. QED
        BY <1>1, <2>1, <2>3, <3>1, RunCounts DEF CallsAreOwed, AnswersAreUsed, ToAsk, ToWrite
  <2>. QED
    BY <2>2, <2>3
<1>16. ASSUME NEW r \in Runs, Step(r) PROVE CallsAreOwed(n)' /\ AnswersAreUsed(n)'
    BY <1>5, <1>6, <1>9, <1>10, <1>12, <1>13, <1>14, <1>15, <1>16 DEF Step
<1>. QED
    BY <1>4, <1>5, <1>7, <1>8, <1>11, <1>14, <1>16 DEF Next

-----------------------------------------------------------------------------
(* Theorems                                                                 *)

LEMMA Initially == Init => IInv
<1>. SUFFICES ASSUME Init PROVE TypeOK /\ Fits
    BY DEF IInv
<1>1. \A r \in Runs : run[r] = Idle /\ run[r].phase = "idle" /\ run[r].message = NoMessage /\ Idle \in Run
    BY DEF Init, Idle, Run, Phase, Result
<1>2. TypeOK
    BY <1>1 DEF Init, TypeOK, OrderStatus, EvaluationStatus
<1>3. \A r \in Runs : RunFits(r) /\ RunRecognises(r) /\ \A m \in Messages : ~WorksOn(r, m)
    BY <1>1, PhasesArePhases DEF RunFits, RunRecognises, WorksOn
<1>4. \A m \in Messages : MessageFits(m) /\ order[m] # "AI_PROCESSING"
    BY DEF Init, MessageFits, Approved
<1>5. \A m \in Anchors : ClaimFits(m)
    BY DEF Init, ClaimFits, Messages
<1>. QED
    BY <1>2, <1>3, <1>4, <1>5 DEF Fits, RunsFit, OneRun, StuckOnlyIfLost, Messages

LEMMA CountsInitially ==
    ASSUME FiniteRuns, Init
    PROVE  Counts
<1>1. \A m, phases : "idle" \notin phases => At(m, phases) = {}
    BY DEF Init, Idle, At
<1>2. \A m : At(m, ToAsk) = {} /\ At(m, ToWrite) = {}
    BY <1>1 DEF ToAsk, ToWrite
<1>. QED
    BY <1>2, FS_EmptySet DEF Init, Counts, CallsAreOwed, AnswersAreUsed, MayBeClaimed, Messages

LEMMA Invariance ==
    ASSUME Parties
    PROVE  Spec => []IInv
<1>1. IInv /\ [Next]_vars => IInv'
    BY TypeStep, FitsStep DEF IInv
<1>. QED
    BY Initially, <1>1, PTL DEF Spec

LEMMA CountsInvariance ==
    ASSUME Parties, FiniteRuns
    PROVE  Spec => []Counts
<1>1. IInv /\ Counts /\ [Next]_vars => Counts'
    BY CountStep
<1>. QED
    BY Invariance, CountsInitially, <1>1, PTL DEF Spec

\* The state of recognition keeps its shape.
THEOREM TypeCorrect ==
    ASSUME Parties
    PROVE  Spec => []TypeOK
BY Invariance, PTL DEF IInv

\* However many runs of TriggeredOrderProcessor are about a message, and
\* wherever they throw, die or outlive their claims, the message has one order
\* and one set of items, and nothing without items is approved.
THEOREM MessagesAreRecognisedOnce ==
    ASSUME Parties
    PROVE  Spec => []RecognisedOnce
<1>1. IInv => RecognisedOnce
    BY DEF IInv, Fits, MessageFits, RecognisedOnce
<1>. QED
    BY Invariance, <1>1, PTL

\* Only a run that died leaves an order AI_PROCESSING: every other end of a run
\* (recogniseOrder, or the catch block that fails the order) moves it on.
THEOREM OnlyTheLostAreStuck ==
    ASSUME Parties
    PROVE  Spec => []StuckOnlyIfLost
BY Invariance, PTL DEF IInv, Fits

\* The model is asked once about a trigger, and about an anchor once more for
\* every failed run and every claim outlived at most (claimIntentEvaluation).
THEOREM TheModelIsAskedOnce ==
    ASSUME Parties, FiniteRuns
    PROVE  Spec => []ModelIsAskedOnce
<1>1. IInv /\ Counts => ModelIsAskedOnce
  <2>. SUFFICES ASSUME IInv, Counts PROVE ModelIsAskedOnce
    OBVIOUS
  <2>1. \A m \in Triggers : calls[m] <= 1
    BY DEF IInv, Fits, MessageFits, Messages
  <2>2. ASSUME NEW m \in Anchors PROVE calls[m] <= 1 + failed[m]
    <3>1. /\ Cardinality(At(m, ToAsk)) \in Nat /\ calls[m] \in Nat /\ failed[m] \in Nat
          /\ CallsAreOwed(m)
        BY AtType DEF IInv, TypeOK, Counts, Messages
    <3>. QED
        BY <3>1 DEF CallsAreOwed
  <2>. QED
    BY <2>1, <2>2 DEF ModelIsAskedOnce
<1>. QED
    BY Invariance, CountsInvariance, <1>1, PTL

\* An evaluation that names an order has one, an open one has none, and one that
\* was ignored has one only if the model was asked twice: IgnoreIntent of a run
\* whose claim was taken over comes after the other's order.
THEOREM EvaluationsFitOrders ==
    ASSUME Parties, FiniteRuns
    PROVE  Spec => []EvaluationFitsOrder
<1>1. IInv /\ Counts => EvaluationFitsOrder
  <2>. SUFFICES ASSUME IInv, Counts, NEW m \in Anchors, evaluation[m] = "IGNORED", order[m] # "NONE"
                PROVE  calls[m] > 1
    BY DEF EvaluationFitsOrder, IInv, Fits, ClaimFits
  <2>1. Cardinality(At(m, ToWrite)) \in Nat /\ calls[m] \in Nat /\ AnswersAreUsed(m)
    BY AtType DEF IInv, TypeOK, Counts, Messages
  <2>. QED
    BY <2>1 DEF AnswersAreUsed
<1>. QED
    BY Invariance, CountsInvariance, <1>1, PTL

-----------------------------------------------------------------------------
(***************************************************************************)
(* The row of an approved order in the tenant's spreadsheet: proofs about  *)
(* SheetsExport, for all workers, corrections, faults, freezes and exports *)
(* asked for while one is under way.                                       *)
(***************************************************************************)
CONSTANTS
    Workers,         \* worker processes
    MaxCorrections,  \* bound: corrections of the order
    MaxRenewed       \* bound: exports asked for while one is under way

\* SheetsExport's order is named apart from recognition's orders.
VARIABLES sale, export, asking, poll, table, renewed, approved, torn

Sheets == INSTANCE SheetsExport WITH order <- sale

\* The workers are finitely many, and the model's bounds are numbers.
SheetsBounds == IsFiniteSet(Workers) /\ MaxCorrections \in Nat

-----------------------------------------------------------------------------
(* The inductive invariant                                                  *)

\* The workers that are about the export.
SheetsActive == {w \in Workers : poll[w].phase # "idle"}
\* Those that have found no row, and are to append one.
SheetsAppending == {w \in Workers : poll[w].phase = "writing" /\ poll[w].row = 0}

\* What is read of the order, and what is written, was approved.
SheetsReadIsApproved ==
    /\ sale.status = "APPROVED" => sale.edits \in approved
    /\ \A w \in Workers : poll[w].phase \in {"joining", "finding", "writing"} => poll[w].details \in approved
    /\ \A i \in DOMAIN table : table[i].details \in approved

\* What is read of the items is of the same correction, or the order was corrected
\* after it was read.  Items that are still to be read are the order's as it is.
SheetsFits(row) == row.items = row.details \/ row \in torn
SheetsItemsFit ==
    /\ \A w \in Workers : poll[w].phase = "joining" => SheetsFits(Sheets!RowOf(poll[w].details, sale.edits))
    /\ \A w \in Workers :
            poll[w].phase \in {"finding", "writing"} => SheetsFits(Sheets!RowOf(poll[w].details, poll[w].items))
    /\ \A i \in DOMAIN table : SheetsFits(table[i])

\* A row that was found is there.
SheetsFoundIsThere == \A w \in Workers : poll[w].phase = "writing" => poll[w].row \in {0} \cup DOMAIN table

\* One export at a time, and one for each that was asked for while one was under way;
\* each of them appends a row once.
SheetsAsked == IF export = "PENDING" THEN 1 ELSE 0
SheetsAskedForEach == Cardinality(SheetsActive) + SheetsAsked <= 1 + renewed
SheetsAppendsOnce == Len(table) + Cardinality(SheetsAppending) <= 1 + renewed

\* Nothing was asked for meanwhile, nothing failed and nobody was frozen.
SheetsCalm == renewed = 0 /\ faults = 0 /\ freezes = 0
\* No approval waits for its export to be asked for.
SheetsSettled == sale.status = "APPROVED" /\ "export" \notin asking

\* The one worker then has what the order is.
SheetsCalmIsCurrent ==
    SheetsCalm =>
        /\ \A v, w \in SheetsActive : v = w
        /\ \A w \in SheetsActive : export = "PROCESSING"
        /\ \A w \in SheetsActive : (poll[w].phase \in {"joining", "finding", "writing"} /\ SheetsSettled) => poll[w].details = sale.edits
        /\ \A w \in SheetsActive : (poll[w].phase \in {"finding", "writing"} /\ SheetsSettled) => poll[w].items = sale.edits
        /\ \A w \in SheetsActive : (poll[w].phase = "settling" /\ poll[w].result = "SUCCEEDED" /\ SheetsSettled) => Sheets!Shows(sale.edits)
        /\ (export = "SUCCEEDED" /\ SheetsSettled) => Sheets!Shows(sale.edits)

\* The inductive invariant.
SheetsIInv ==
    /\ Sheets!TypeOK
    /\ SheetsReadIsApproved
    /\ SheetsItemsFit
    /\ SheetsFoundIsThere
    /\ SheetsAskedForEach
    /\ SheetsAppendsOnce
    /\ frozen => freezes > 0
    /\ SheetsCalmIsCurrent

-----------------------------------------------------------------------------
(* Counting workers                                                         *)

\* The sets that are counted are finite.
LEMMA SheetsCountsAreNat ==
    ASSUME SheetsBounds
    PROVE /\ IsFiniteSet(SheetsActive) /\ Cardinality(SheetsActive) \in Nat
          /\ IsFiniteSet(SheetsAppending) /\ Cardinality(SheetsAppending) \in Nat
          /\ SheetsAppending \subseteq SheetsActive /\ Cardinality(SheetsAppending) <= Cardinality(SheetsActive)
<1>1. SheetsActive \in SUBSET Workers /\ SheetsAppending \in SUBSET SheetsActive
  BY DEF SheetsActive, SheetsAppending
<1>2. IsFiniteSet(SheetsActive) /\ IsFiniteSet(SheetsAppending) /\ Cardinality(SheetsAppending) <= Cardinality(SheetsActive)
  BY <1>1, FS_Subset DEF SheetsBounds
<1> QED BY <1>1, <1>2, FS_CardinalityType

\* The same of the next state.
LEMMA SheetsNextCountsAreNat ==
    ASSUME SheetsBounds
    PROVE /\ Cardinality(SheetsActive)' \in Nat /\ Cardinality(SheetsAppending)' \in Nat
          /\ Cardinality(SheetsAppending)' <= Cardinality(SheetsActive)'
<1>1. SheetsActive' \in SUBSET Workers /\ SheetsAppending' \in SUBSET SheetsActive'
  BY DEF SheetsActive, SheetsAppending
<1>2. IsFiniteSet(SheetsActive') /\ IsFiniteSet(SheetsAppending') /\ Cardinality(SheetsAppending') <= Cardinality(SheetsActive')
  BY <1>1, FS_Subset DEF SheetsBounds
<1> QED BY <1>1, <1>2, FS_CardinalityType

\* A worker moves; what it then is counts.
LEMMA SheetsWorkerMoves ==
    ASSUME SheetsBounds, Sheets!TypeOK, NEW w \in Workers, NEW x \in Sheets!Poll, poll' = [poll EXCEPT ![w] = x]
    PROVE /\ poll' \in [Workers -> Sheets!Poll] /\ poll'[w] = x
          /\ \A v \in Workers : v # w => poll'[v] = poll[v]
          /\ SheetsActive' = IF x.phase = "idle" THEN SheetsActive \ {w} ELSE SheetsActive \cup {w}
          /\ SheetsAppending' = IF x.phase = "writing" /\ x.row = 0 THEN SheetsAppending \cup {w} ELSE SheetsAppending \ {w}
          /\ Cardinality(SheetsActive)' = (Cardinality(SheetsActive) - (IF w \in SheetsActive THEN 1 ELSE 0))
                                        + (IF x.phase = "idle" THEN 0 ELSE 1)
          /\ Cardinality(SheetsAppending)' = (Cardinality(SheetsAppending) - (IF w \in SheetsAppending THEN 1 ELSE 0))
                                        + (IF x.phase = "writing" /\ x.row = 0 THEN 1 ELSE 0)
<1>1. /\ poll' \in [Workers -> Sheets!Poll] /\ poll'[w] = x
      /\ \A v \in Workers : v # w => poll'[v] = poll[v]
  BY DEF Sheets!TypeOK
<1>2. SheetsActive' = IF x.phase = "idle" THEN SheetsActive \ {w} ELSE SheetsActive \cup {w}
  BY <1>1 DEF SheetsActive
<1>3. SheetsAppending' = IF x.phase = "writing" /\ x.row = 0 THEN SheetsAppending \cup {w} ELSE SheetsAppending \ {w}
  BY <1>1 DEF SheetsAppending
<1>4. /\ IsFiniteSet(SheetsActive) /\ Cardinality(SheetsActive) \in Nat
      /\ IsFiniteSet(SheetsAppending) /\ Cardinality(SheetsAppending) \in Nat
  BY SheetsCountsAreNat
<1>5. Cardinality(SheetsActive)' = (Cardinality(SheetsActive) - (IF w \in SheetsActive THEN 1 ELSE 0))
                                        + (IF x.phase = "idle" THEN 0 ELSE 1)
  <2>1. Cardinality(SheetsActive \ {w}) = IF w \in SheetsActive THEN Cardinality(SheetsActive) - 1 ELSE Cardinality(SheetsActive)
    BY <1>4, FS_RemoveElement
  <2>2. Cardinality(SheetsActive \cup {w}) = IF w \in SheetsActive THEN Cardinality(SheetsActive) ELSE Cardinality(SheetsActive) + 1
    BY <1>4, FS_AddElement
  <2> QED BY <1>2, <1>4, <2>1, <2>2
<1>6. Cardinality(SheetsAppending)' = (Cardinality(SheetsAppending) - (IF w \in SheetsAppending THEN 1 ELSE 0))
                                        + (IF x.phase = "writing" /\ x.row = 0 THEN 1 ELSE 0)
  <2>1. Cardinality(SheetsAppending \ {w}) = IF w \in SheetsAppending THEN Cardinality(SheetsAppending) - 1 ELSE Cardinality(SheetsAppending)
    BY <1>4, FS_RemoveElement
  <2>2. Cardinality(SheetsAppending \cup {w}) = IF w \in SheetsAppending THEN Cardinality(SheetsAppending) ELSE Cardinality(SheetsAppending) + 1
    BY <1>4, FS_AddElement
  <2> QED BY <1>3, <1>4, <2>1, <2>2
<1> QED BY <1>1, <1>2, <1>3, <1>5, <1>6

-----------------------------------------------------------------------------
(* The order, what is asked, and the freeze                                 *)

\* Nobody moves.
LEMMA SheetsNobodyMoves ==
    ASSUME UNCHANGED <<poll, table>>
    PROVE SheetsActive' = SheetsActive /\ SheetsAppending' = SheetsAppending /\ Cardinality(SheetsActive)' = Cardinality(SheetsActive)
          /\ Cardinality(SheetsAppending)' = Cardinality(SheetsAppending)
          /\ (SheetsFoundIsThere => SheetsFoundIsThere')
BY DEF SheetsActive, SheetsAppending, SheetsFoundIsThere

\* The order changes: no export can then be settled, or it was corrected.
LEMMA SheetsOrderKeeps ==
    ASSUME SheetsBounds, SheetsIInv, Sheets!Approve \/ Sheets!Correct \/ Sheets!Cancel
    PROVE SheetsIInv'
<1>1. /\ UNCHANGED <<export, poll, table, renewed, frozen, freezes, faults>>
      /\ sale \in [status : {"NEEDS_REVIEW", "APPROVED", "CANCELLED"}, edits : Sheets!Edits]
      /\ asking' \subseteq asking \cup {"export"} /\ approved \subseteq approved'
  BY DEF Sheets!Approve, Sheets!Correct, Sheets!Cancel, Sheets!outside, SheetsIInv, Sheets!TypeOK
<1>2. /\ sale' \in [status : {"NEEDS_REVIEW", "APPROVED", "CANCELLED"}, edits : Sheets!Edits]
      /\ approved' \subseteq Sheets!Edits /\ torn' \subseteq Sheets!Row
      /\ ~SheetsSettled'
      /\ sale'.status = "APPROVED" => sale'.edits \in approved'
  <2>1. CASE Sheets!Approve
    BY <1>1, <2>1 DEF Sheets!Approve, SheetsSettled, SheetsIInv, Sheets!TypeOK
  <2>2. CASE Sheets!Correct
    <3>1. sale.edits + 1 \in Sheets!Edits
      BY <1>1, <2>2 DEF Sheets!Correct, Sheets!Edits, SheetsBounds
    <3>2. \A w \in Workers : Sheets!RowOf(poll[w].details, sale.edits + 1) \in Sheets!Row
      BY <3>1 DEF Sheets!RowOf, Sheets!Row, SheetsIInv, Sheets!TypeOK, Sheets!Poll
    <3>3. torn' \subseteq Sheets!Row
      BY <2>2, <3>2 DEF Sheets!Correct, SheetsIInv, Sheets!TypeOK
    <3> QED BY <1>1, <2>2, <3>1, <3>3 DEF Sheets!Correct, SheetsSettled, SheetsIInv, Sheets!TypeOK
  <2>3. CASE Sheets!Cancel
    BY <1>1, <2>3 DEF Sheets!Cancel, SheetsSettled, SheetsIInv, Sheets!TypeOK
  <2> QED BY <2>1, <2>2, <2>3
<1>3. Sheets!TypeOK'
  BY <1>1, <1>2 DEF SheetsIInv, Sheets!TypeOK
<1>4. SheetsReadIsApproved' /\ SheetsItemsFit'
  <2>1. SheetsReadIsApproved'
    BY <1>1, <1>2 DEF SheetsIInv, SheetsReadIsApproved
  <2>2. /\ SheetsItemsFit
        /\ UNCHANGED <<poll, table>>
    BY <1>1 DEF SheetsIInv
  <2>3. /\ torn \subseteq torn'
        /\ \A w \in Workers : poll[w].phase = "joining" =>
              sale'.edits = sale.edits \/ Sheets!RowOf(poll[w].details, sale'.edits) \in torn'
    <3>1. CASE Sheets!Correct
      <4>1. sale'.edits = sale.edits + 1 /\ torn \subseteq torn'
        BY <3>1 DEF Sheets!Correct
      <4>2. \A w \in Workers : poll[w].phase = "joining" => Sheets!RowOf(poll[w].details, sale.edits + 1) \in torn'
        BY <3>1 DEF Sheets!Correct
      <4> QED BY <4>1, <4>2
    <3>2. CASE Sheets!Approve \/ Sheets!Cancel
      BY <3>2 DEF Sheets!Approve, Sheets!Cancel, SheetsIInv, Sheets!TypeOK
    <3> QED BY <3>1, <3>2
  <2>4. SheetsItemsFit'
    BY <2>2, <2>3 DEF SheetsItemsFit, SheetsFits
  <2> QED BY <2>1, <2>4
<1>5. SheetsFoundIsThere' /\ SheetsAskedForEach' /\ SheetsAppendsOnce' /\ (frozen => freezes > 0)'
  BY <1>1, SheetsNobodyMoves DEF SheetsIInv, SheetsAskedForEach, SheetsAppendsOnce, SheetsAsked
<1>6. SheetsCalmIsCurrent'
  BY <1>1, <1>2, SheetsNobodyMoves DEF SheetsIInv, SheetsCalmIsCurrent, SheetsCalm
<1> QED BY <1>3, <1>4, <1>5, <1>6 DEF SheetsIInv

\* An export is asked for, or not, if the tenant is frozen: while one is under way
\* it is another one, and not calm.
LEMMA SheetsAskingKeeps ==
    ASSUME SheetsBounds, SheetsIInv, Sheets!EnsurePendingExport \/ Sheets!RetryWrite
    PROVE SheetsIInv'
<1>1. /\ UNCHANGED <<sale, poll, table, approved, torn, frozen, freezes, faults>>
      /\ asking' \subseteq asking /\ Sheets!Renews
      /\ export' = IF frozen THEN export ELSE "PENDING"
      /\ renewed \in Nat /\ frozen \in BOOLEAN
  BY DEF Sheets!EnsurePendingExport, Sheets!RetryWrite, Sheets!AskAgain, Sheets!outside, SheetsIInv,
     Sheets!TypeOK
<1>2. Sheets!UnderWay <=> export = "PROCESSING" \/ SheetsActive # {}
  BY DEF Sheets!UnderWay, SheetsActive
<1>3. renewed' \in Nat /\ renewed' = IF ~frozen /\ Sheets!UnderWay THEN renewed + 1 ELSE renewed
  BY <1>1 DEF Sheets!Renews
<1>4. Sheets!TypeOK'
  BY <1>1, <1>3 DEF SheetsIInv, Sheets!TypeOK, Sheets!ExportStatus
<1>5. SheetsReadIsApproved' /\ SheetsItemsFit'
  BY <1>1 DEF SheetsIInv, SheetsReadIsApproved, SheetsItemsFit, SheetsFits
<1>6. SheetsFoundIsThere' /\ (frozen => freezes > 0)'
  BY <1>1, SheetsNobodyMoves DEF SheetsIInv
<1>7. SheetsAskedForEach' /\ SheetsAppendsOnce'
  <2>1. Cardinality({}) = 0
    BY FS_EmptySet
  <2>2. Len(table) \in Nat /\ Cardinality(SheetsActive) \in Nat /\ Cardinality(SheetsAppending) \in Nat
    BY SheetsCountsAreNat DEF SheetsIInv, Sheets!TypeOK
  <2>3. /\ Cardinality(SheetsActive') = Cardinality(SheetsActive)
        /\ Cardinality(SheetsAppending') = Cardinality(SheetsAppending)
        /\ Len(table') = Len(table)
    BY <1>1, SheetsNobodyMoves
  <2>4. SheetsAppendsOnce'
    BY <1>1, <1>3, <2>2, <2>3 DEF SheetsIInv, SheetsAppendsOnce
  <2>5. SheetsAskedForEach'
    <3>1. CASE frozen
      BY <1>1, <1>3, <2>2, <2>3, <3>1 DEF SheetsIInv, SheetsAskedForEach, SheetsAsked
    <3>2. CASE ~frozen /\ Sheets!UnderWay
      BY <1>1, <1>3, <2>2, <2>3, <3>2 DEF SheetsIInv, SheetsAskedForEach, SheetsAsked
    <3>3. CASE ~frozen /\ ~Sheets!UnderWay
      <4>1. Cardinality(SheetsActive') = 0
        BY <1>2, <2>1, <2>3, <3>3
      <4> QED BY <1>1, <1>3, <3>3, <4>1 DEF SheetsAskedForEach, SheetsAsked
    <3> QED BY <3>1, <3>2, <3>3
  <2> QED BY <2>4, <2>5
<1>8. SheetsCalmIsCurrent'
  <2> SUFFICES ASSUME SheetsCalm'
               PROVE SheetsCalmIsCurrent'
    BY DEF SheetsCalmIsCurrent
  <2>1. SheetsCalm /\ ~frozen /\ ~Sheets!UnderWay /\ export' = "PENDING"
    BY <1>1, <1>3 DEF SheetsCalm, SheetsIInv
  <2>2. SheetsActive' = {}
    BY <1>1, <1>2, <2>1, SheetsNobodyMoves
  <2> QED BY <2>1, <2>2 DEF SheetsCalmIsCurrent
<1> QED BY <1>4, <1>5, <1>6, <1>7, <1>8 DEF SheetsIInv

\* Requests come and go, and the tenant is frozen and thawed.
LEMMA SheetsOutsideKeeps ==
    ASSUME SheetsBounds, SheetsIInv, Sheets!RetryRead \/ Sheets!CrashApi \/ Sheets!Freeze
    PROVE SheetsIInv'
<1>1. /\ UNCHANGED <<sale, export, poll, table, renewed, approved, torn>>
      /\ faults \in Nat /\ freezes \in Nat
      /\ faults' \in Nat /\ freezes' \in Nat /\ frozen' \in BOOLEAN
      /\ asking' \subseteq {"export", "retry"}
      /\ faults' >= faults /\ freezes' >= freezes
      /\ frozen' => freezes' > 0
  <2>0. /\ faults \in Nat /\ freezes \in Nat /\ frozen \in BOOLEAN /\ asking \subseteq {"export", "retry"}
        /\ frozen => freezes > 0
    BY DEF SheetsIInv, Sheets!TypeOK
  <2>1. CASE Sheets!RetryRead
    BY <2>0, <2>1 DEF Sheets!RetryRead, Sheets!outside
  <2>2. CASE Sheets!CrashApi
    BY <2>0, <2>2 DEF Sheets!CrashApi
  <2>3. CASE Sheets!Freeze
    <3>1. (~frozen) \in BOOLEAN
      OBVIOUS
    <3>2. frozen' = ~frozen /\ freezes' = IF frozen THEN freezes ELSE freezes + 1
      BY <2>3 DEF Sheets!Freeze
    <3>3. frozen' \in BOOLEAN
      BY <3>1, <3>2
    <3>4. freezes' \in Nat /\ freezes' >= freezes /\ (frozen' => freezes' > 0)
      BY <2>0, <3>2
    <3> QED BY <2>0, <2>3, <3>3, <3>4 DEF Sheets!Freeze
  <2> QED BY <2>1, <2>2, <2>3
<1>2. Sheets!TypeOK'
  BY <1>1 DEF SheetsIInv, Sheets!TypeOK
<1>3. SheetsReadIsApproved' /\ SheetsItemsFit'
  BY <1>1 DEF SheetsIInv, SheetsReadIsApproved, SheetsItemsFit, SheetsFits
<1>4. SheetsFoundIsThere' /\ SheetsAskedForEach' /\ SheetsAppendsOnce'
  BY <1>1, SheetsNobodyMoves DEF SheetsIInv, SheetsAskedForEach, SheetsAppendsOnce, SheetsAsked
<1>5. (frozen => freezes > 0)'
  BY <1>1
<1>6. SheetsCalmIsCurrent'
  <2> SUFFICES ASSUME SheetsCalm'
               PROVE SheetsCalmIsCurrent'
    BY DEF SheetsCalmIsCurrent
  <2>1. SheetsCalm
    BY <1>1 DEF SheetsCalm
  <2>2. SheetsSettled' => SheetsSettled
    <3>1. CASE Sheets!RetryRead
      BY <1>1, <3>1 DEF Sheets!RetryRead, SheetsSettled
    <3>2. CASE Sheets!CrashApi
      BY <2>1, <3>2 DEF Sheets!CrashApi, SheetsCalm
    <3>3. CASE Sheets!Freeze
      BY <3>3 DEF Sheets!Freeze, SheetsSettled
    <3> QED BY <3>1, <3>2, <3>3
  <2> QED BY <1>1, <2>1, <2>2, SheetsNobodyMoves DEF SheetsIInv, SheetsCalmIsCurrent, Sheets!Shows
<1> QED BY <1>2, <1>3, <1>4, <1>5, <1>6 DEF SheetsIInv

-----------------------------------------------------------------------------
(* The workers                                                              *)

\* A worker goes on without writing: it takes an export, or has one already, and
\* what it has read is the order's, and was approved.
LEMMA SheetsWorkerKeeps ==
    ASSUME SheetsBounds, SheetsIInv, NEW w \in Workers, NEW x \in Sheets!Poll, poll' = [poll EXCEPT ![w] = x],
           UNCHANGED <<sale, asking, table, renewed, approved, torn, frozen, freezes>>,
           faults' \in Nat, SheetsCalm' => SheetsCalm,
           export' \in Sheets!ExportStatus,
           poll[w].phase = "idle" => x.phase # "idle" /\ export = "PENDING" /\ export' = "PROCESSING",
           export' = "PENDING" => export = "PENDING",
           x.phase # "idle" => export' \in {"PROCESSING", export},
           x.phase \in {"joining", "finding", "writing"} => x.details \in approved,
           x.phase = "joining" => x.details = sale.edits,
           x.phase \in {"finding", "writing"} => SheetsFits(Sheets!RowOf(x.details, x.items)),
           (x.phase \in {"finding", "writing"} /\ SheetsSettled /\ SheetsCalm) => x.details = sale.edits /\ x.items = sale.edits,
           x.phase = "writing" => x.row \in {0} \cup DOMAIN table,
           (x.phase = "writing" /\ x.row = 0) => table = <<>> \/ w \in SheetsAppending,
           (x.phase = "settling" /\ x.result = "SUCCEEDED" /\ SheetsSettled /\ SheetsCalm') => Sheets!Shows(sale.edits),
           (export' = "SUCCEEDED" /\ SheetsSettled /\ SheetsCalm') => Sheets!Shows(sale.edits)
    PROVE SheetsIInv'
<1>1. /\ poll' \in [Workers -> Sheets!Poll] /\ poll'[w] = x
      /\ \A v \in Workers : v # w => poll'[v] = poll[v]
      /\ SheetsActive' = IF x.phase = "idle" THEN SheetsActive \ {w} ELSE SheetsActive \cup {w}
      /\ Cardinality(SheetsActive)' = (Cardinality(SheetsActive) - (IF w \in SheetsActive THEN 1 ELSE 0))
                                    + (IF x.phase = "idle" THEN 0 ELSE 1)
      /\ Cardinality(SheetsAppending)' = (Cardinality(SheetsAppending) - (IF w \in SheetsAppending THEN 1 ELSE 0))
                                    + (IF x.phase = "writing" /\ x.row = 0 THEN 1 ELSE 0)
  BY SheetsWorkerMoves DEF SheetsIInv
<1>2. Sheets!TypeOK'
  BY <1>1 DEF SheetsIInv, Sheets!TypeOK
<1>3. SheetsReadIsApproved' /\ SheetsItemsFit'
  <2>1. SheetsReadIsApproved'
    BY <1>1 DEF SheetsIInv, SheetsReadIsApproved
  <2>2. \A row : SheetsFits(row)' <=> SheetsFits(row)
    BY DEF SheetsFits
  <2>3. x.phase = "joining" => SheetsFits(Sheets!RowOf(x.details, sale.edits))
    BY DEF SheetsFits, Sheets!RowOf
  <2> QED BY <1>1, <2>1, <2>2, <2>3 DEF SheetsIInv, SheetsItemsFit
<1>4. SheetsFoundIsThere'
  BY <1>1 DEF SheetsIInv, SheetsFoundIsThere
<1>5. /\ Cardinality(SheetsActive) \in Nat /\ Cardinality(SheetsAppending) \in Nat /\ renewed \in Nat
      /\ Len(table) \in Nat
      /\ Cardinality(SheetsActive)' \in Nat /\ Cardinality(SheetsAppending)' \in Nat
      /\ Cardinality(SheetsAppending)' <= Cardinality(SheetsActive)'
  BY SheetsCountsAreNat, SheetsNextCountsAreNat DEF SheetsIInv, Sheets!TypeOK
<1>6. SheetsAskedForEach'
  <2>1. (w \in SheetsActive) <=> poll[w].phase # "idle"
    BY DEF SheetsActive
  <2> QED BY <1>1, <1>5, <2>1 DEF SheetsIInv, SheetsAskedForEach, SheetsAsked
<1>7. SheetsAppendsOnce'
  <2>1. CASE x.phase = "writing" /\ x.row = 0 /\ w \notin SheetsAppending
    <3>1. Len(table) = 0 /\ Len(table') = 0
      BY <2>1
    <3> QED BY <1>1, <1>5, <1>6, <2>1, <3>1 DEF SheetsAskedForEach, SheetsAppendsOnce, SheetsAsked
  <2>2. CASE ~(x.phase = "writing" /\ x.row = 0 /\ w \notin SheetsAppending)
    BY <1>1, <1>5, <2>2 DEF SheetsIInv, SheetsAppendsOnce
  <2> QED BY <2>1, <2>2
<1>8. SheetsCalmIsCurrent'
  <2> SUFFICES ASSUME SheetsCalm'
               PROVE SheetsCalmIsCurrent'
    BY DEF SheetsCalmIsCurrent
  <2>1. SheetsCalm
    OBVIOUS
  <2>2. (w \in SheetsActive) <=> poll[w].phase # "idle"
    BY DEF SheetsActive
  <2>3. export = "PENDING" => SheetsActive = {}
    BY <2>1 DEF SheetsIInv, SheetsCalmIsCurrent
  <2>4. \A v \in SheetsActive' : v = w \/ v \in SheetsActive
    BY <1>1
  <2>5. \A u, v \in SheetsActive' : u = v
    BY <1>1, <2>1, <2>2, <2>3 DEF SheetsIInv, SheetsCalmIsCurrent
  <2>6. \A v \in SheetsActive' : export' = "PROCESSING"
    BY <1>1, <2>1, <2>2, <2>3, <2>5 DEF SheetsIInv, SheetsCalmIsCurrent
  <2>7. (SheetsSettled' <=> SheetsSettled) /\ (Sheets!Shows(sale.edits)' <=> Sheets!Shows(sale.edits))
    BY DEF SheetsSettled, Sheets!Shows
  <2>8. \A v \in SheetsActive' : v # w => FALSE
    BY <1>1, <2>1, <2>2, <2>3, <2>5 DEF SheetsIInv, SheetsCalmIsCurrent
  <2> QED BY <1>1, <2>1, <2>5, <2>6, <2>7, <2>8 DEF SheetsCalmIsCurrent
<1> QED BY <1>2, <1>3, <1>4, <1>6, <1>7, <1>8 DEF SheetsIInv

\* A worker that does nothing.
LEMMA SheetsIdleIsPoll == 0 \in Sheets!Edits => Sheets!Idle \in Sheets!Poll /\ Sheets!Idle.phase = "idle"
BY DEF Sheets!Idle, Sheets!Poll, Sheets!Phase

\* What is pending is taken by one worker.
LEMMA SheetsClaimKeeps ==
    ASSUME SheetsBounds, SheetsIInv, NEW w \in Workers, Sheets!Claim(w)
    PROVE SheetsIInv'
<1>. PICK x : x = [poll[w] EXCEPT !.phase = "claimed"]
  OBVIOUS
<1>1. poll[w] \in Sheets!Poll /\ faults \in Nat
  BY DEF SheetsIInv, Sheets!TypeOK
<1>2. x \in Sheets!Poll /\ x.phase = "claimed"
  BY <1>1 DEF Sheets!Poll, Sheets!Phase
<1>3. poll' = [poll EXCEPT ![w] = x]
  BY DEF Sheets!Claim, Sheets!Goes
<1>4. /\ poll[w].phase = "idle" /\ export = "PENDING" /\ export' = "PROCESSING"
      /\ export' \in Sheets!ExportStatus
      /\ UNCHANGED <<sale, asking, table, renewed, approved, torn, frozen, freezes, faults>>
  BY DEF Sheets!Claim, Sheets!outside, Sheets!ExportStatus
<1>5. SheetsCalm' => SheetsCalm
  BY <1>4 DEF SheetsCalm
<1> QED BY <1>1, <1>2, <1>3, <1>4, <1>5, SheetsWorkerKeeps

\* The processor takes it for its own, or fails it for a frozen tenant.
LEMMA SheetsStartKeeps ==
    ASSUME SheetsBounds, SheetsIInv, NEW w \in Workers, Sheets!Start(w)
    PROVE SheetsIInv'
<1>1. poll[w] \in Sheets!Poll /\ faults \in Nat /\ (frozen => freezes > 0)
  BY DEF SheetsIInv, Sheets!TypeOK
<1>4. /\ poll[w].phase = "claimed"
      /\ UNCHANGED <<sale, asking, table, renewed, approved, torn, frozen, freezes, faults>>
  BY DEF Sheets!Start, Sheets!outside
<1>5. SheetsCalm' => SheetsCalm
  BY <1>4 DEF SheetsCalm
<1>2. CASE frozen
  <2>1. Sheets!Idle \in Sheets!Poll /\ Sheets!Idle.phase = "idle"
    BY SheetsIdleIsPoll DEF Sheets!Edits, SheetsBounds
  <2>2. poll' = [poll EXCEPT ![w] = Sheets!Idle] /\ export' = "FAILED" /\ export' \in Sheets!ExportStatus
    BY <1>2 DEF Sheets!Start, Sheets!ExportStatus
  <2> QED BY <1>1, <1>4, <1>5, <2>1, <2>2, SheetsWorkerKeeps
<1>3. CASE ~frozen
  <2>. PICK x : x = [poll[w] EXCEPT !.phase = "reading"]
    OBVIOUS
  <2>1. x \in Sheets!Poll /\ x.phase = "reading"
    BY <1>1 DEF Sheets!Poll, Sheets!Phase
  <2>2. poll' = [poll EXCEPT ![w] = x] /\ export' = "PROCESSING" /\ export' \in Sheets!ExportStatus
    BY <1>3 DEF Sheets!Start, Sheets!Goes, Sheets!ExportStatus
  <2> QED BY <1>1, <1>4, <1>5, <2>1, <2>2, SheetsWorkerKeeps
<1> QED BY <1>2, <1>3

\* Only an approved order is read for its row.
LEMMA SheetsReadOrderKeeps ==
    ASSUME SheetsBounds, SheetsIInv, NEW w \in Workers, Sheets!ReadOrder(w)
    PROVE SheetsIInv'
<1>1. /\ poll[w] \in Sheets!Poll /\ faults \in Nat /\ sale.edits \in Sheets!Edits
      /\ export \in Sheets!ExportStatus
      /\ sale.status = "APPROVED" => sale.edits \in approved
  BY DEF SheetsIInv, Sheets!TypeOK, SheetsReadIsApproved
<1>0. /\ poll[w].phase = "reading" /\ faults' = faults
      /\ UNCHANGED <<sale, export, asking, table, renewed, approved, torn, frozen, freezes>>
  BY DEF Sheets!ReadOrder, Sheets!outside
<1>4. (export = "SUCCEEDED" /\ SheetsSettled /\ SheetsCalm) => Sheets!Shows(sale.edits)
  BY DEF SheetsIInv, SheetsCalmIsCurrent
<1>5. SheetsCalm' <=> SheetsCalm
  BY <1>0 DEF SheetsCalm
<1>2. CASE Sheets!Exportable
  <2>. PICK x : x = [poll[w] EXCEPT !.phase = "joining", !.details = sale.edits]
    OBVIOUS
  <2>1. x \in Sheets!Poll /\ x.phase = "joining" /\ x.details = sale.edits
    BY <1>1 DEF Sheets!Poll, Sheets!Phase
  <2>2. poll' = [poll EXCEPT ![w] = x]
    BY <1>2 DEF Sheets!ReadOrder
  <2>3. x.details \in approved
    BY <1>1, <1>2, <2>1 DEF Sheets!Exportable
  <2> QED BY <1>0, <1>1, <1>4, <1>5, <2>1, <2>2, <2>3, SheetsWorkerKeeps
<1>3. CASE ~Sheets!Exportable
  <2>. PICK x : x = [poll[w] EXCEPT !.phase = "settling", !.result = "FAILED"]
    OBVIOUS
  <2>1. x \in Sheets!Poll /\ x.phase = "settling" /\ x.result = "FAILED"
    BY <1>1 DEF Sheets!Poll, Sheets!Phase
  <2>2. poll' = [poll EXCEPT ![w] = x]
    BY <1>3 DEF Sheets!ReadOrder, Sheets!Ends
  <2> QED BY <1>0, <1>1, <1>4, <1>5, <2>1, <2>2, SheetsWorkerKeeps
<1> QED BY <1>2, <1>3

\* The items are read as they have become.
LEMMA SheetsReadItemsKeeps ==
    ASSUME SheetsBounds, SheetsIInv, NEW w \in Workers, Sheets!ReadItems(w)
    PROVE SheetsIInv'
<1>1. /\ poll[w] \in Sheets!Poll /\ faults \in Nat /\ sale.edits \in Sheets!Edits /\ export \in Sheets!ExportStatus
  BY DEF SheetsIInv, Sheets!TypeOK
<1>0. /\ poll[w].phase = "joining" /\ faults' = faults
      /\ UNCHANGED <<sale, export, asking, table, renewed, approved, torn, frozen, freezes>>
  BY DEF Sheets!ReadItems, Sheets!outside
<1>2. /\ poll[w].details \in approved
      /\ SheetsFits(Sheets!RowOf(poll[w].details, sale.edits))
      /\ (SheetsSettled /\ SheetsCalm) => poll[w].details = sale.edits
      /\ (export = "SUCCEEDED" /\ SheetsSettled /\ SheetsCalm) => Sheets!Shows(sale.edits)
  BY <1>0 DEF SheetsIInv, SheetsReadIsApproved, SheetsItemsFit, SheetsCalmIsCurrent, SheetsActive
<1>3. SheetsCalm' <=> SheetsCalm
  BY <1>0 DEF SheetsCalm
<1>. PICK x : x = [poll[w] EXCEPT !.phase = "finding", !.items = sale.edits]
  OBVIOUS
<1>4. x \in Sheets!Poll /\ x.phase = "finding" /\ x.details = poll[w].details /\ x.items = sale.edits
  BY <1>1 DEF Sheets!Poll, Sheets!Phase
<1>5. poll' = [poll EXCEPT ![w] = x]
  BY DEF Sheets!ReadItems
<1> QED BY <1>0, <1>1, <1>2, <1>3, <1>4, <1>5, SheetsWorkerKeeps

\* No row is found only where there is none.
LEMMA SheetsFindRowKeeps ==
    ASSUME SheetsBounds, SheetsIInv, NEW w \in Workers, Sheets!FindRow(w)
    PROVE SheetsIInv'
<1>1. /\ poll[w] \in Sheets!Poll /\ faults \in Nat /\ export \in Sheets!ExportStatus
      /\ table \in Seq(Sheets!Row)
      /\ poll[w].phase = "finding" =>
            poll[w].details \in approved /\ SheetsFits(Sheets!RowOf(poll[w].details, poll[w].items))
  BY DEF SheetsIInv, Sheets!TypeOK, SheetsReadIsApproved, SheetsItemsFit
<1>0. /\ poll[w].phase = "finding" /\ faults' = faults
      /\ UNCHANGED <<sale, export, asking, table, renewed, approved, torn, frozen, freezes>>
  BY DEF Sheets!FindRow, Sheets!outside
<1>2. /\ (export = "SUCCEEDED" /\ SheetsSettled /\ SheetsCalm) => Sheets!Shows(sale.edits)
      /\ (SheetsSettled /\ SheetsCalm) => poll[w].details = sale.edits /\ poll[w].items = sale.edits
  BY <1>0 DEF SheetsIInv, SheetsCalmIsCurrent, SheetsActive
<1>5. SheetsCalm' <=> SheetsCalm
  BY <1>0 DEF SheetsCalm
<1>. PICK x : x = [poll[w] EXCEPT !.phase = "writing", !.row = Sheets!Found]
  OBVIOUS
<1>3. /\ Sheets!Found \in Nat /\ Sheets!Found \in {0} \cup DOMAIN table /\ (Sheets!Found = 0 => table = <<>>)
  BY <1>1 DEF Sheets!Found
<1>4. x \in Sheets!Poll /\ x.phase = "writing" /\ x.row = Sheets!Found
      /\ x.details = poll[w].details /\ x.items = poll[w].items
  BY <1>1, <1>3 DEF Sheets!Poll, Sheets!Phase
<1>6. poll' = [poll EXCEPT ![w] = x]
  BY DEF Sheets!FindRow
<1> QED BY <1>0, <1>1, <1>2, <1>3, <1>4, <1>5, <1>6, SheetsWorkerKeeps

\* What is settled is what came of it.
LEMMA SheetsSettleKeeps ==
    ASSUME SheetsBounds, SheetsIInv, NEW w \in Workers, Sheets!Settle(w)
    PROVE SheetsIInv'
<1>1. /\ poll[w] \in Sheets!Poll /\ faults \in Nat /\ poll[w].result \in {"NONE", "SUCCEEDED", "FAILED"}
  BY DEF SheetsIInv, Sheets!TypeOK, Sheets!Poll
<1>0. /\ poll[w].phase = "settling" /\ faults' = faults /\ export' = poll[w].result
      /\ poll' = [poll EXCEPT ![w] = Sheets!Idle]
      /\ UNCHANGED <<sale, asking, table, renewed, approved, torn, frozen, freezes>>
  BY DEF Sheets!Settle, Sheets!outside
<1>2. /\ (poll[w].result = "SUCCEEDED" /\ SheetsSettled /\ SheetsCalm) => Sheets!Shows(sale.edits)
  BY <1>0 DEF SheetsIInv, SheetsCalmIsCurrent, SheetsActive
<1>3. SheetsCalm' <=> SheetsCalm
  BY <1>0 DEF SheetsCalm
<1>4. Sheets!Idle \in Sheets!Poll /\ Sheets!Idle.phase = "idle"
  BY SheetsIdleIsPoll DEF Sheets!Edits, SheetsBounds
<1> QED BY <1>0, <1>1, <1>2, <1>3, <1>4, SheetsWorkerKeeps DEF Sheets!ExportStatus

\* A worker that is lost leaves the export to nobody, and is no calm.
LEMMA SheetsCrashWorkerKeeps ==
    ASSUME SheetsBounds, SheetsIInv, NEW w \in Workers, Sheets!CrashWorker(w)
    PROVE SheetsIInv'
<1>1. faults \in Nat /\ export \in Sheets!ExportStatus
  BY DEF SheetsIInv, Sheets!TypeOK
<1>0. /\ poll[w].phase # "idle" /\ faults' = faults + 1
      /\ poll' = [poll EXCEPT ![w] = Sheets!Idle]
      /\ UNCHANGED <<sale, export, asking, table, renewed, approved, torn, frozen, freezes>>
  BY DEF Sheets!CrashWorker
<1>3. ~SheetsCalm' /\ faults' \in Nat
  BY <1>0, <1>1 DEF SheetsCalm
<1>4. Sheets!Idle \in Sheets!Poll /\ Sheets!Idle.phase = "idle"
  BY SheetsIdleIsPoll DEF Sheets!Edits, SheetsBounds
<1> QED BY <1>0, <1>1, <1>3, <1>4, SheetsWorkerKeeps

-----------------------------------------------------------------------------
(* The write                                                                *)

\* Writing over a row that is there, or appending one.
LEMMA SheetsWritesARow ==
    ASSUME SheetsIInv, NEW w \in Workers, poll[w].phase = "writing"
    PROVE /\ Sheets!Written(w) \in Seq(Sheets!Row)
          /\ Len(Sheets!Written(w)) = Len(table) + (IF w \in SheetsAppending THEN 1 ELSE 0)
          /\ \A i \in DOMAIN Sheets!Written(w) : Sheets!Written(w)[i].details \in approved /\ SheetsFits(Sheets!Written(w)[i])
          /\ \E i \in DOMAIN Sheets!Written(w) : Sheets!Written(w)[i] = Sheets!RowOf(poll[w].details, poll[w].items)
          /\ DOMAIN table \subseteq DOMAIN Sheets!Written(w)
<1>. PICK v : v = Sheets!RowOf(poll[w].details, poll[w].items)
  OBVIOUS
<1>. PICK r : r = poll[w].row
  OBVIOUS
<1>1. /\ table \in Seq(Sheets!Row) /\ v \in Sheets!Row /\ v.details \in approved /\ SheetsFits(v)
      /\ r \in {0} \cup DOMAIN table
      /\ \A i \in DOMAIN table : table[i].details \in approved /\ SheetsFits(table[i])
      /\ DOMAIN table = 1..Len(table)
  <2>1. poll[w] \in Sheets!Poll
    BY DEF SheetsIInv, Sheets!TypeOK
  <2>2. v \in Sheets!Row /\ v.details = poll[w].details
    BY <2>1 DEF Sheets!RowOf, Sheets!Row, Sheets!Poll
  <2> QED BY <2>2 DEF SheetsIInv, Sheets!TypeOK, SheetsReadIsApproved, SheetsItemsFit, SheetsFoundIsThere
<1>2. CASE r = 0
  <2>1. Sheets!Written(w) = Append(table, v) /\ w \in SheetsAppending
    BY <1>2 DEF Sheets!Written, SheetsAppending
  <2>2. /\ Append(table, v) \in Seq(Sheets!Row) /\ Len(Append(table, v)) = Len(table) + 1
        /\ \A i \in 1..Len(table) : Append(table, v)[i] = table[i]
        /\ Append(table, v)[Len(table) + 1] = v
        /\ DOMAIN Append(table, v) = 1..(Len(table) + 1) /\ Len(table) \in Nat
    BY <1>1, AppendProperties
  <2>3. \A i \in 1..(Len(table) + 1) : i \in 1..Len(table) \/ i = Len(table) + 1
    BY <2>2
  <2> QED BY <1>1, <2>1, <2>2, <2>3
<1>3. CASE r # 0
  <2>1. Sheets!Written(w) = [table EXCEPT ![r] = v] /\ w \notin SheetsAppending
    BY <1>3 DEF Sheets!Written, SheetsAppending
  <2>2. r \in 1..Len(table)
    BY <1>1, <1>3
  <2>3. /\ [table EXCEPT ![r] = v] \in Seq(Sheets!Row) /\ Len([table EXCEPT ![r] = v]) = Len(table)
        /\ \A i \in 1..Len(table) : [table EXCEPT ![r] = v][i] = IF i = r THEN v ELSE table[i]
    BY <1>1, <2>2, ExceptSeq
  <2>4. DOMAIN [table EXCEPT ![r] = v] = 1..Len(table)
    BY <1>1
  <2>5. Len(table) \in Nat
    BY <1>1
  <2> QED BY <1>1, <2>1, <2>2, <2>3, <2>4, <2>5
<1> QED BY <1>2, <1>3

\* A worker that has written ends.
LEMMA SheetsWritingKeeps ==
    ASSUME SheetsBounds, SheetsIInv, NEW w \in Workers, NEW x \in Sheets!Poll, poll' = [poll EXCEPT ![w] = x],
           poll[w].phase = "writing", table' = Sheets!Written(w),
           x.phase = "settling",
           UNCHANGED <<sale, export, asking, renewed, approved, torn, frozen, freezes>>,
           faults' \in Nat, SheetsCalm' => SheetsCalm
    PROVE SheetsIInv'
<1>1. /\ poll' \in [Workers -> Sheets!Poll] /\ poll'[w] = x
      /\ \A v \in Workers : v # w => poll'[v] = poll[v]
      /\ SheetsActive' = SheetsActive \cup {w}
      /\ Cardinality(SheetsActive)' = (Cardinality(SheetsActive) - (IF w \in SheetsActive THEN 1 ELSE 0)) + 1
      /\ Cardinality(SheetsAppending)' = Cardinality(SheetsAppending) - (IF w \in SheetsAppending THEN 1 ELSE 0)
      /\ w \in SheetsActive
  <2>1. w \in SheetsActive
    BY DEF SheetsActive
  <2>2. Cardinality(SheetsAppending) \in Nat /\ Cardinality(SheetsActive) \in Nat
    BY SheetsCountsAreNat
  <2>3. /\ poll' \in [Workers -> Sheets!Poll] /\ poll'[w] = x
        /\ \A v \in Workers : v # w => poll'[v] = poll[v]
        /\ SheetsActive' = IF x.phase = "idle" THEN SheetsActive \ {w} ELSE SheetsActive \cup {w}
        /\ Cardinality(SheetsActive)' = (Cardinality(SheetsActive) - (IF w \in SheetsActive THEN 1 ELSE 0))
                                      + (IF x.phase = "idle" THEN 0 ELSE 1)
        /\ Cardinality(SheetsAppending)' = (Cardinality(SheetsAppending) - (IF w \in SheetsAppending THEN 1 ELSE 0))
                                      + (IF x.phase = "writing" /\ x.row = 0 THEN 1 ELSE 0)
    BY SheetsWorkerMoves DEF SheetsIInv
  <2> QED BY <2>1, <2>2, <2>3
<1>2. /\ table' \in Seq(Sheets!Row)
      /\ Len(table') = Len(table) + (IF w \in SheetsAppending THEN 1 ELSE 0)
      /\ \A i \in DOMAIN table' : table'[i].details \in approved /\ SheetsFits(table'[i])
      /\ \E i \in DOMAIN table' : table'[i] = Sheets!RowOf(poll[w].details, poll[w].items)
      /\ DOMAIN table \subseteq DOMAIN table'
  BY SheetsWritesARow
<1>3. Sheets!TypeOK'
  BY <1>1, <1>2 DEF SheetsIInv, Sheets!TypeOK
<1>4. SheetsReadIsApproved' /\ SheetsItemsFit'
  <2>1. SheetsReadIsApproved'
    BY <1>1, <1>2 DEF SheetsIInv, SheetsReadIsApproved
  <2>2. \A row : SheetsFits(row)' <=> row.items = row.details \/ row \in torn
    BY DEF SheetsFits
  <2>3. \A v \in Workers : v # w => poll'[v] = poll[v]
    BY <1>1
  <2>4. SheetsItemsFit'
    BY <1>1, <1>2, <2>2, <2>3 DEF SheetsIInv, SheetsItemsFit, SheetsFits
  <2> QED BY <2>1, <2>4
<1>5. SheetsFoundIsThere'
  BY <1>1, <1>2 DEF SheetsIInv, SheetsFoundIsThere
<1>6. /\ Cardinality(SheetsActive) \in Nat /\ Cardinality(SheetsAppending) \in Nat /\ renewed \in Nat
      /\ Len(table) \in Nat
  BY SheetsCountsAreNat DEF SheetsIInv, Sheets!TypeOK
<1>7. SheetsAskedForEach' /\ SheetsAppendsOnce'
  BY <1>1, <1>2, <1>6 DEF SheetsIInv, SheetsAskedForEach, SheetsAppendsOnce, SheetsAsked
<1>8. SheetsCalmIsCurrent'
  <2> SUFFICES ASSUME SheetsCalm'
               PROVE SheetsCalmIsCurrent'
    BY DEF SheetsCalmIsCurrent
  <2>1. SheetsCalm
    OBVIOUS
  <2>2. SheetsActive' = SheetsActive /\ \A v \in SheetsActive : v = w
    BY <1>1, <2>1 DEF SheetsIInv, SheetsCalmIsCurrent
  <2>3. export' = "PROCESSING"
    BY <1>1, <2>1 DEF SheetsIInv, SheetsCalmIsCurrent
  <2>4. SheetsSettled' => (poll[w].details = sale.edits /\ poll[w].items = sale.edits)
    BY <1>1, <2>1 DEF SheetsIInv, SheetsCalmIsCurrent, SheetsSettled
  <2>5. SheetsSettled' => Sheets!Shows(sale.edits)'
    BY <1>2, <2>4 DEF Sheets!Shows
  <2> QED BY <1>1, <2>2, <2>3, <2>5 DEF SheetsCalmIsCurrent
<1> QED BY <1>3, <1>4, <1>5, <1>7, <1>8 DEF SheetsIInv

\* The row is written, and so it is reported.
LEMMA SheetsWriteRowKeeps ==
    ASSUME SheetsBounds, SheetsIInv, NEW w \in Workers, Sheets!WriteRow(w)
    PROVE SheetsIInv'
<1>1. poll[w] \in Sheets!Poll /\ faults \in Nat
  BY DEF SheetsIInv, Sheets!TypeOK
<1>. PICK x : x = [poll[w] EXCEPT !.phase = "settling", !.result = "SUCCEEDED"]
  OBVIOUS
<1>2. x \in Sheets!Poll /\ x.phase = "settling"
  BY <1>1 DEF Sheets!Poll, Sheets!Phase
<1>3. poll' = [poll EXCEPT ![w] = x]
  BY DEF Sheets!WriteRow, Sheets!Ends
<1>4. /\ poll[w].phase = "writing" /\ table' = Sheets!Written(w)
      /\ UNCHANGED <<sale, export, asking, renewed, approved, torn, frozen, freezes, faults>>
  BY DEF Sheets!WriteRow, Sheets!outside
<1>5. SheetsCalm' => SheetsCalm
  BY <1>4 DEF SheetsCalm
<1> QED BY <1>1, <1>2, <1>3, <1>4, <1>5, SheetsWritingKeeps

\* A call fails before or after it has written the row.
LEMMA SheetsCallFailsKeeps ==
    ASSUME SheetsBounds, SheetsIInv, NEW w \in Workers, Sheets!CallFails(w)
    PROVE SheetsIInv'
<1>1. poll[w] \in Sheets!Poll /\ faults \in Nat /\ faults' = faults + 1 /\ export \in Sheets!ExportStatus
  BY DEF SheetsIInv, Sheets!TypeOK, Sheets!CallFails
<1>. PICK x : x = [poll[w] EXCEPT !.phase = "settling", !.result = "FAILED"]
  OBVIOUS
<1>2. x \in Sheets!Poll /\ x.phase = "settling" /\ x.result = "FAILED"
  BY <1>1 DEF Sheets!Poll, Sheets!Phase
<1>3. poll' = [poll EXCEPT ![w] = x]
  BY DEF Sheets!CallFails, Sheets!Ends
<1>4. ~SheetsCalm' /\ faults' \in Nat
  BY <1>1 DEF SheetsCalm
<1>7. /\ poll[w].phase # "idle"
      /\ UNCHANGED <<sale, export, asking, renewed, approved, torn, frozen, freezes>>
  BY DEF Sheets!CallFails
<1>5. CASE UNCHANGED table
  BY <1>1, <1>2, <1>3, <1>4, <1>5, <1>7, SheetsWorkerKeeps
<1>6. CASE poll[w].phase = "writing" /\ table' = Sheets!Written(w)
  BY <1>1, <1>2, <1>3, <1>4, <1>6, <1>7, SheetsWritingKeeps
<1> QED BY <1>5, <1>6 DEF Sheets!CallFails

-----------------------------------------------------------------------------
(* The specification                                                        *)

\* There is no export yet.
LEMMA SheetsInitially ==
    ASSUME SheetsBounds, Sheets!Init
    PROVE SheetsIInv
<1>0. 0 \in Sheets!Edits
  BY DEF Sheets!Edits, SheetsBounds
<1>1. /\ sale.status = "NEEDS_REVIEW" /\ export = "NONE" /\ table = <<>> /\ renewed = 0
      /\ \A w \in Workers : poll[w].phase = "idle"
      /\ frozen = FALSE
  BY SheetsIdleIsPoll, <1>0 DEF Sheets!Init
<1>2. Sheets!TypeOK
  <2>1. sale \in [status : {"NEEDS_REVIEW", "APPROVED", "CANCELLED"}, edits : Sheets!Edits]
    BY <1>0 DEF Sheets!Init
  <2>2. poll \in [Workers -> Sheets!Poll]
    BY <1>0, SheetsIdleIsPoll DEF Sheets!Init
  <2>3. table \in Seq(Sheets!Row) /\ export \in Sheets!ExportStatus /\ asking \subseteq {"export", "retry"}
    BY DEF Sheets!Init, Sheets!ExportStatus
  <2>4. frozen \in BOOLEAN /\ approved \subseteq Sheets!Edits /\ torn \subseteq Sheets!Row
    BY DEF Sheets!Init
  <2>5. {freezes, faults, renewed} \subseteq Nat
    BY DEF Sheets!Init
  <2> QED BY <2>1, <2>2, <2>3, <2>4, <2>5 DEF Sheets!TypeOK
<1>3. SheetsActive = {} /\ SheetsAppending = {} /\ Cardinality({}) = 0
  BY <1>1, FS_EmptySet DEF SheetsActive, SheetsAppending
<1>4. SheetsReadIsApproved /\ SheetsItemsFit /\ SheetsFoundIsThere
  BY <1>1 DEF SheetsReadIsApproved, SheetsItemsFit, SheetsFoundIsThere
<1>5. SheetsAskedForEach /\ SheetsAppendsOnce
  <2>1. Len(table) = 0
    BY <1>1
  <2> QED BY <1>1, <1>3, <2>1 DEF SheetsAskedForEach, SheetsAppendsOnce, SheetsAsked
<1>6. SheetsCalmIsCurrent
  BY <1>1, <1>3 DEF SheetsCalmIsCurrent
<1> QED BY <1>1, <1>2, <1>4, <1>5, <1>6 DEF SheetsIInv

\* Each step keeps the invariant.
LEMMA SheetsSteps ==
    ASSUME SheetsBounds, SheetsIInv, [Sheets!Next]_Sheets!vars
    PROVE SheetsIInv'
<1>1. CASE Sheets!Approve \/ Sheets!Correct \/ Sheets!Cancel
  BY <1>1, SheetsOrderKeeps
<1>2. CASE Sheets!EnsurePendingExport \/ Sheets!RetryWrite
  BY <1>2, SheetsAskingKeeps
<1>3. CASE Sheets!RetryRead \/ Sheets!CrashApi \/ Sheets!Freeze
  BY <1>3, SheetsOutsideKeeps
<1>4. ASSUME NEW w \in Workers, Sheets!WorkerStep(w) \/ Sheets!CrashWorker(w) PROVE SheetsIInv'
  BY <1>4, SheetsClaimKeeps, SheetsStartKeeps, SheetsReadOrderKeeps, SheetsReadItemsKeeps, SheetsFindRowKeeps, SheetsWriteRowKeeps,
     SheetsCallFailsKeeps, SheetsSettleKeeps,
     SheetsCrashWorkerKeeps DEF Sheets!WorkerStep
<1>5. CASE UNCHANGED Sheets!vars
  <2>1. UNCHANGED <<poll, table>>
    BY <1>5 DEF Sheets!vars
  <2> QED BY <1>5, <2>1, SheetsNobodyMoves
     DEF Sheets!vars, SheetsIInv, Sheets!TypeOK, SheetsReadIsApproved, SheetsItemsFit, SheetsFits, SheetsAskedForEach, SheetsAppendsOnce,
        SheetsAsked, SheetsCalmIsCurrent,
     SheetsCalm, SheetsSettled, Sheets!Shows
<1> QED BY <1>1, <1>2, <1>3, <1>4, <1>5 DEF Sheets!Next

\* Init => IInv, IInv /\ [Next]_vars => IInv'.
LEMMA SheetsInvariance ==
    ASSUME SheetsBounds
    PROVE Sheets!Spec => []SheetsIInv
<1>1. Sheets!Init => SheetsIInv
  BY SheetsInitially
<1>2. SheetsIInv /\ [Sheets!Next]_Sheets!vars => SheetsIInv'
  BY SheetsSteps
<1> QED BY <1>1, <1>2, PTL DEF Sheets!Spec

\* The order, the export, the polls and the rows have their types.
THEOREM SheetsTypeCorrect ==
    ASSUME SheetsBounds
    PROVE Sheets!Spec => []Sheets!TypeOK
<1>1. SheetsIInv => Sheets!TypeOK
  BY DEF SheetsIInv
<1> QED BY <1>1, SheetsInvariance, PTL

\* "An approved order creates or updates exactly one row", and at most one more for
\* each export that was asked for while one was under way.
THEOREM OneRowForAnOrder ==
    ASSUME SheetsBounds
    PROVE Sheets!Spec => []Sheets!OneRowUnlessRenewed
<1>1. ASSUME SheetsIInv PROVE Sheets!OneRowUnlessRenewed
  <2>1. Cardinality(SheetsAppending) \in Nat /\ Len(table) \in Nat /\ renewed \in Nat
    BY <1>1, SheetsCountsAreNat DEF SheetsIInv, Sheets!TypeOK
  <2> QED BY <1>1, <2>1 DEF SheetsIInv, SheetsAppendsOnce, Sheets!OneRowUnlessRenewed
<1> QED BY <1>1, SheetsInvariance, PTL

\* What the rows say of the order was approved, and what they say of its items is of
\* the same correction, unless the order was corrected between the two reads; and an
\* export that has succeeded shows the latest approved correction, unless one was asked for while one was under way, something
\* failed, or the tenant was frozen.
THEOREM ExportsAreCurrent ==
    ASSUME SheetsBounds
    PROVE Sheets!Spec => []Sheets!ExportIsCurrent
<1>1. ASSUME SheetsIInv PROVE Sheets!ExportIsCurrent
  <2>1. renewed \in Nat /\ faults \in Nat /\ freezes \in Nat
    BY <1>1 DEF SheetsIInv, Sheets!TypeOK
  <2>2. ~SheetsCalm => renewed > 0 \/ faults > 0 \/ freezes > 0
    BY <2>1 DEF SheetsCalm
  <2> QED BY <1>1, <2>2 DEF SheetsIInv, SheetsReadIsApproved, SheetsItemsFit, SheetsFits,
     SheetsCalmIsCurrent, SheetsSettled, Sheets!ExportIsCurrent
<1> QED BY <1>1, SheetsInvariance, PTL
=============================================================================
