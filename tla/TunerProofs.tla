---------------------------- MODULE TunerProofs ----------------------------
(***************************************************************************)
(* What module Tuner promises, for any number of pages and of clicks. The *)
(* engine is exclusive because the lock names its user; a page plays what *)
(* was asked last because it waits only with its button disabled.          *)
(***************************************************************************)
EXTENDS Tuner, TLAPS

\* The engine has been loaded when there is a request for it.
EngineLoaded ==
  /\ ready => loader = "done"
  /\ \A c \in Clicks : request[c] \in {"wait", "synth"} => ready

\* The request that uses the engine holds the lock.
LockHeld == \A c \in Clicks : request[c] = "synth" => lock = c

\* A request whose answer a page still waits for.
Pending(c) == request[c] \notin {"none", "over"} /\ asker[c] # Nobody

\* The page that waits asked for nothing since, for its button is disabled.
ButtonDown == \A c \in Clicks : Pending(c) => disabled[asker[c]]
AnswersTheLast == \A c \in Clicks : Pending(c) => last[asker[c]] = c

\* The types are inductive on their own.
LEMMA TypesStart == Init => TypeOK
<1> SUFFICES ASSUME Init PROVE TypeOK
  OBVIOUS
<1>1. Flags
  BY DEF Init, Flags
<1>2. Counts
  BY BoundsAssumption DEF Init, Counts
<1>3. Places
  BY DEF Init, Places
<1>4. QED
  BY <1>1, <1>2, <1>3 DEF TypeOK

\* One step per action; the flags apart from the numbers.
LEMMA TypesStep == TypeOK /\ [Next]_vars => TypeOK'
<1> SUFFICES ASSUME TypeOK, [Next]_vars PROVE TypeOK'
  OBVIOUS
<1> USE DEF TypeOK, engine, requests, button, bounds
<1>1. CASE LoadStep \/ LoadFails
  <2>1. Flags'
    BY <1>1 DEF LoadStep, LoadFails, Loader, Flags
  <2>2. Counts' /\ Places'
    BY <1>1 DEF LoadStep, LoadFails, Loader, Counts, Places
  <2>3. QED
    BY <2>1, <2>2
<1>2. ASSUME NEW c \in Clicks, HandlerStep(c) PROVE TypeOK'
  <2>1. Places'
    BY <1>2 DEF HandlerStep, Arrive, Enter, Synth, Answer, Request, Places
  <2>2. lock' \in {0, c, lock} /\ UNCHANGED <<engine, bounds, button, player>>
    BY <1>2 DEF HandlerStep, Arrive, Enter, Synth, Answer, Request
  <2>3. Counts'
    BY <2>2, BoundsAssumption DEF Clicks, Counts
  <2>4. QED
    BY <2>1, <2>2, <2>3 DEF Flags
<1>3. ASSUME NEW c \in Clicks, Hear(c) PROVE TypeOK'
  <2>1. Flags'
    BY <1>3 DEF Hear, Flags
  <2>2. Counts'
    <3>1. player' = player \/ player' = [player EXCEPT ![asker[c]] = c]
      BY <1>3 DEF Hear
    <3>2. UNCHANGED <<lock, clicks, reloads, last>>
      BY <1>3 DEF Hear
    <3>3. QED
      BY <3>1, <3>2, BoundsAssumption DEF Counts, Clicks
  <2>3. Places'
    BY <1>3 DEF Hear, Places
  <2>4. QED
    BY <2>1, <2>2, <2>3
<1>4. ASSUME NEW c \in Clicks, Break(c) PROVE TypeOK'
  <2>1. asker[c] \in Pages
    BY <1>4 DEF Break, Places
  <2>2. Flags' /\ Counts'
    BY <1>4 DEF Break, Flags, Counts
  <2>3. Places'
    BY <1>4, <2>1 DEF Break, Places
  <2>4. QED
    BY <2>2, <2>3
<1>5. ASSUME NEW p \in Pages, Go(p) PROVE TypeOK'
  <2>1. Flags'
    BY <1>5 DEF Go, Click, Flags
  <2>2. Counts'
    BY <1>5, BoundsAssumption DEF Go, Click, Counts
  <2>3. Places'
    BY <1>5 DEF Go, Click, Places
  <2>4. QED
    BY <2>1, <2>2, <2>3
<1>6. ASSUME NEW p \in Pages, Reload(p) PROVE TypeOK'
  <2>1. Flags'
    BY <1>6 DEF Reload, Flags
  <2>2. Counts'
    BY <1>6, BoundsAssumption DEF Reload, Counts
  <2>3. Places'
    BY <1>6 DEF Reload, Places
  <2>4. QED
    BY <2>1, <2>2, <2>3
<1>7. ASSUME NEW p \in Pages, PollAnswered(p) \/ PollLost(p) \/ PollShown(p) PROVE TypeOK'
  <2>1. Places'
    BY <1>7 DEF PollAnswered, PollLost, PollShown, Polls, Places
  <2>2. Flags' /\ Counts'
    BY <1>7 DEF PollAnswered, PollLost, PollShown, Polls, Flags, Counts
  <2>3. QED
    BY <2>1, <2>2
<1>8. CASE UNCHANGED vars
  BY <1>8 DEF vars, Flags, Counts, Places
<1>9. QED
  BY <1>1, <1>2, <1>3, <1>5, <1>6, <1>7, <1>8, <1>4 DEF Next

\* Every variable keeps its type, with any number of pages and clicks.
THEOREM TypeCorrect == Spec => []TypeOK
BY TypesStart, TypesStep, PTL DEF Spec

(***************************************************************************)
(* The engine.                                                             *)
(***************************************************************************)
\* Clicks are counted from one, so that 0 is a free lock.
LEMMA ClickIsNotZero == \A c \in Clicks : c # 0
BY BoundsAssumption DEF Clicks

\* Readiness is kept, and nobody passes the 503 before it.
LEMMA LoadedStep == TypeOK /\ EngineLoaded /\ [Next]_vars => EngineLoaded'
<1> SUFFICES ASSUME TypeOK, EngineLoaded, [Next]_vars PROVE EngineLoaded'
  OBVIOUS
<1> USE DEF TypeOK, Flags, Places, EngineLoaded, engine, requests, button, bounds
<1>1. CASE LoadStep \/ LoadFails
  <2>1. UNCHANGED request
    BY <1>1 DEF LoadStep, LoadFails, Loader
  <2>2. ready' => loader' = "done"
    BY <1>1 DEF LoadStep, LoadFails, Loader
  <2>3. ready => ready'
    BY <1>1 DEF LoadStep, LoadFails, Loader
  <2>4. QED
    BY <2>1, <2>2, <2>3
<1>2. ASSUME NEW c \in Clicks, HandlerStep(c) PROVE EngineLoaded'
  <2>1. UNCHANGED <<loader, ready>>
    BY <1>2 DEF HandlerStep, Arrive, Enter, Synth, Answer, Request
  <2>2. \A d \in Clicks : request'[d] \in {"wait", "synth"} => ready
    BY <1>2 DEF HandlerStep, Arrive, Enter, Synth, Answer, Request
  <2>3. QED
    BY <2>1, <2>2
<1>3. ASSUME NEW c \in Clicks, Hear(c) PROVE EngineLoaded'
  BY <1>3 DEF Hear
<1>4. ASSUME NEW c \in Clicks, Break(c) PROVE EngineLoaded'
  <2>1. UNCHANGED <<loader, ready>>
    BY <1>4 DEF Break
  <2>2. \A d \in Clicks : request'[d] = request[d] \/ request'[d] = "over"
    BY <1>4 DEF Break
  <2>3. QED
    BY <2>1, <2>2
<1>5. ASSUME NEW p \in Pages, Go(p) PROVE EngineLoaded'
  <2>1. UNCHANGED <<loader, ready>>
    BY <1>5 DEF Go, Click
  <2>2. \A c \in Clicks : request'[c] = request[c] \/ request'[c] = "sent"
    BY <1>5 DEF Go, Click
  <2>3. QED
    BY <2>1, <2>2
<1>6. ASSUME NEW p \in Pages, Reload(p) PROVE EngineLoaded'
  BY <1>6 DEF Reload
<1>7. ASSUME NEW p \in Pages, PollAnswered(p) \/ PollLost(p) \/ PollShown(p)
      PROVE  EngineLoaded'
  <2>1. UNCHANGED <<loader, ready, request>>
    BY <1>7 DEF PollAnswered, PollLost, PollShown, Polls
  <2>2. QED
    BY <2>1
<1>8. CASE UNCHANGED vars
  BY <1>8 DEF vars
<1>9. QED
  BY <1>1, <1>2, <1>3, <1>5, <1>6, <1>7, <1>8, <1>4 DEF Next

\* The lock is taken and released by the request that is in the engine.
LEMMA LockStep == TypeOK /\ LockHeld /\ [Next]_vars => LockHeld'
<1> SUFFICES ASSUME TypeOK, LockHeld, [Next]_vars PROVE LockHeld'
  OBVIOUS
<1> USE DEF TypeOK, Places, LockHeld, engine, requests, button, bounds
<1>1. CASE LoadStep \/ LoadFails
  BY <1>1 DEF LoadStep, LoadFails, Loader
<1>2. ASSUME NEW c \in Clicks, HandlerStep(c) PROVE LockHeld'
  <2>1. CASE Arrive(c) \/ Answer(c)
    BY <2>1 DEF Arrive, Answer, Request
  <2>2. CASE Enter(c)
    \* The lock is free, so nobody is in the engine.
    <3>1. \A d \in Clicks : request[d] # "synth"
      BY <2>2, ClickIsNotZero DEF Enter
    <3>2. QED
      BY <2>2, <3>1 DEF Enter, Request
  <2>3. CASE Synth(c)
    \* Only c was in the engine.
    <3>1. \A d \in Clicks \ {c} : request[d] # "synth"
      BY <2>3 DEF Synth, Request
    <3>2. QED
      BY <2>3, <3>1 DEF Synth, Request
  <2>4. QED
    BY <1>2, <2>1, <2>2, <2>3 DEF HandlerStep
<1>3. ASSUME NEW c \in Clicks, Hear(c) PROVE LockHeld'
  BY <1>3 DEF Hear
<1>4. ASSUME NEW c \in Clicks, Break(c) PROVE LockHeld'
  BY <1>4 DEF Break
<1>5. ASSUME NEW p \in Pages, Go(p) PROVE LockHeld'
  BY <1>5 DEF Go, Click
<1>6. ASSUME NEW p \in Pages, Reload(p) PROVE LockHeld'
  BY <1>6 DEF Reload
<1>7. ASSUME NEW p \in Pages, PollAnswered(p) \/ PollLost(p) \/ PollShown(p) PROVE LockHeld'
  BY <1>7 DEF PollAnswered, PollLost, PollShown, Polls
<1>8. CASE UNCHANGED vars
  BY <1>8 DEF vars
<1>9. QED
  BY <1>1, <1>2, <1>3, <1>5, <1>6, <1>7, <1>8, <1>4 DEF Next

\* The engine is never used before it is loaded nor by two requests at once,
\* with any number of pages and clicks.
THEOREM EngineAlwaysExclusive == Spec => []EngineExclusive
<1>1. Init => EngineLoaded /\ LockHeld
  BY DEF Init, EngineLoaded, LockHeld
<1>2. EngineLoaded /\ LockHeld => EngineExclusive
  BY DEF EngineLoaded, LockHeld, EngineExclusive
<1>3. QED
  BY <1>1, <1>2, TypeCorrect, LoadedStep, LockStep, PTL DEF Spec

(***************************************************************************)
(* The page.                                                               *)
(***************************************************************************)
\* A step of the server leaves the pages that wait as they are.
LEMMA ServerStepKeepsPages ==
  ASSUME TypeOK, LoadStep \/ LoadFails \/ \E c \in Clicks : HandlerStep(c)
  PROVE  /\ UNCHANGED <<asker, button, player, status>>
         /\ \A d \in Clicks : Pending(d)' => Pending(d)
BY DEF TypeOK, Places, LoadStep, LoadFails, Loader, HandlerStep, Arrive, Enter, Synth,
  Answer, Request, Pending, requests, button

\* Neither does a poll, whatever it shows: it never shows that it plays.
LEMMA PollKeepsPages ==
  ASSUME TypeOK, NEW p \in Pages, PollAnswered(p) \/ PollLost(p) \/ PollShown(p)
  PROVE  /\ UNCHANGED <<requests, button, player>>
         /\ \A q \in Pages : status'[q] = "played" => status[q] = "played"
BY DEF TypeOK, Places, PollAnswered, PollLost, PollShown, Polls, requests, button

\* The button comes back only when the page has its answer, or waits no
\* more, or is a new page.
LEMMA ButtonStep == TypeOK /\ ButtonDown /\ AnswersTheLast /\ [Next]_vars => ButtonDown'
<1> SUFFICES ASSUME TypeOK, ButtonDown, AnswersTheLast, [Next]_vars,
                    NEW c \in Clicks, Pending(c)'
             PROVE  disabled'[asker'[c]]
  BY DEF ButtonDown
<1> USE PagesAssumption DEF TypeOK, Flags, Places
<1>1. CASE LoadStep \/ LoadFails \/ \E d \in Clicks : HandlerStep(d)
  BY <1>1, ServerStepKeepsPages DEF ButtonDown, button
<1>2. ASSUME NEW d \in Clicks, Hear(d) PROVE disabled'[asker'[c]]
  <2>1. c # d /\ Pending(c) /\ Pending(d) /\ UNCHANGED asker
    BY <1>2 DEF Hear, Pending
  <2>2. asker[c] # asker[d]
    BY <2>1 DEF AnswersTheLast
  <2>3. disabled' = [disabled EXCEPT ![asker[d]] = FALSE]
    BY <1>2 DEF Hear
  <2>4. QED
    BY <2>1, <2>2, <2>3 DEF ButtonDown, Pending
<1>3. ASSUME NEW d \in Clicks, Break(d) PROVE disabled'[asker'[c]]
  <2>1. c # d /\ Pending(c) /\ Pending(d) /\ asker'[c] = asker[c]
    BY <1>3 DEF Break, Pending
  <2>2. asker[c] # asker[d]
    BY <2>1 DEF AnswersTheLast
  <2>3. disabled' = [disabled EXCEPT ![asker[d]] = FALSE]
    BY <1>3 DEF Break
  <2>4. QED
    BY <2>1, <2>2, <2>3 DEF ButtonDown, Pending
<1>4. ASSUME NEW p \in Pages, Go(p) PROVE disabled'[asker'[c]]
  <2>1. CASE asker'[c] = p
    BY <1>4, <2>1 DEF Go
  <2>2. CASE asker'[c] # p
    <3>1. Pending(c) /\ asker'[c] = asker[c]
      BY <1>4, <2>2 DEF Go, Click, Pending
    <3>2. QED
      BY <1>4, <2>2, <3>1 DEF Go, ButtonDown, Pending
  <2>3. QED
    BY <2>1, <2>2
<1>5. ASSUME NEW p \in Pages, Reload(p) PROVE disabled'[asker'[c]]
  <2>1. Pending(c) /\ asker'[c] = asker[c] /\ asker[c] # p
    BY <1>5 DEF Reload, Pending
  <2>2. disabled' = [disabled EXCEPT ![p] = FALSE]
    BY <1>5 DEF Reload
  <2>3. QED
    BY <2>1, <2>2 DEF ButtonDown, Pending
<1>6. ASSUME NEW p \in Pages, PollAnswered(p) \/ PollLost(p) \/ PollShown(p)
      PROVE  disabled'[asker'[c]]
  BY <1>6, PollKeepsPages DEF ButtonDown, Pending, requests, button
<1>7. CASE UNCHANGED vars
  BY <1>7 DEF vars, ButtonDown, Pending, requests, button
<1>8. QED
  BY <1>1, <1>2, <1>4, <1>5, <1>6, <1>7, <1>3 DEF Next

\* A page with a request in flight cannot ask again.
LEMMA LastStep == TypeOK /\ ButtonDown /\ AnswersTheLast /\ [Next]_vars => AnswersTheLast'
<1> SUFFICES ASSUME TypeOK, ButtonDown, AnswersTheLast, [Next]_vars,
                    NEW c \in Clicks, Pending(c)'
             PROVE  last'[asker'[c]] = c
  BY DEF AnswersTheLast
<1> USE PagesAssumption DEF TypeOK, Counts, Places
<1>1. CASE LoadStep \/ LoadFails \/ \E d \in Clicks : HandlerStep(d)
  BY <1>1, ServerStepKeepsPages DEF AnswersTheLast, button
<1>2. ASSUME NEW d \in Clicks, Hear(d) PROVE last'[asker'[c]] = c
  BY <1>2 DEF Hear, Pending, AnswersTheLast
<1>3. ASSUME NEW d \in Clicks, Break(d) PROVE last'[asker'[c]] = c
  BY <1>3 DEF Break, Pending, AnswersTheLast
<1>4. ASSUME NEW p \in Pages, Go(p) PROVE last'[asker'[c]] = c
  <2>1. last' = [last EXCEPT ![p] = clicks']
    BY <1>4 DEF Go, Click
  <2>2. CASE c = clicks'
    <3>1. asker'[c] = p
      BY <1>4, <2>2 DEF Go, Click
    <3>2. QED
      BY <2>1, <2>2, <3>1
  <2>3. CASE c # clicks'
    <3>1. Pending(c) /\ asker'[c] = asker[c]
      BY <1>4, <2>3 DEF Go, Click, Pending
    \* The button of p was not disabled, so p waits for nothing.
    <3>2. asker[c] # p
      BY <1>4, <3>1 DEF Go, ButtonDown
    <3>3. QED
      BY <2>1, <3>1, <3>2 DEF AnswersTheLast, Pending
  <2>4. QED
    BY <2>2, <2>3
<1>5. ASSUME NEW p \in Pages, Reload(p) PROVE last'[asker'[c]] = c
  <2>1. Pending(c) /\ asker'[c] = asker[c] /\ asker[c] # p
    BY <1>5 DEF Reload, Pending
  <2>2. last' = [last EXCEPT ![p] = 0]
    BY <1>5 DEF Reload
  <2>3. QED
    BY <2>1, <2>2 DEF AnswersTheLast, Pending
<1>6. ASSUME NEW p \in Pages, PollAnswered(p) \/ PollLost(p) \/ PollShown(p)
      PROVE  last'[asker'[c]] = c
  BY <1>6, PollKeepsPages DEF AnswersTheLast, Pending, requests, button
<1>7. CASE UNCHANGED vars
  BY <1>7 DEF vars, AnswersTheLast, Pending, requests, button
<1>8. QED
  BY <1>1, <1>2, <1>4, <1>5, <1>6, <1>7, <1>3 DEF Next

\* What is played is the answer to the last click.
LEMMA PlayerStep ==
  TypeOK /\ AnswersTheLast /\ PlaysWhatWasAsked /\ [Next]_vars => PlaysWhatWasAsked'
<1> SUFFICES ASSUME TypeOK, AnswersTheLast, PlaysWhatWasAsked, [Next]_vars,
                    NEW q \in Pages, status'[q] = "played"
             PROVE  player'[q] = last'[q]
  BY DEF PlaysWhatWasAsked
<1> USE PagesAssumption DEF TypeOK, Counts, Places
<1>1. CASE LoadStep \/ LoadFails \/ \E d \in Clicks : HandlerStep(d)
  BY <1>1, ServerStepKeepsPages DEF PlaysWhatWasAsked, button
<1>2. ASSUME NEW d \in Clicks, Hear(d) PROVE player'[q] = last'[q]
  <2>1. CASE q = asker[d]
    <3>1. Pending(d) /\ UNCHANGED last
      BY <1>2 DEF Hear, Pending
    <3>2. player'[q] = d
      BY <1>2, <2>1 DEF Hear
    <3>3. QED
      BY <2>1, <3>1, <3>2 DEF AnswersTheLast
  <2>2. CASE q # asker[d]
    <3>1. player'[q] = player[q] /\ status'[q] = status[q] /\ UNCHANGED last
      BY <1>2, <2>2 DEF Hear
    <3>2. QED
      BY <3>1 DEF PlaysWhatWasAsked
  <2>3. QED
    BY <2>1, <2>2
<1>3. ASSUME NEW d \in Clicks, Break(d) PROVE player'[q] = last'[q]
  <2>1. q # asker[d] /\ status'[q] = status[q] /\ UNCHANGED <<player, last>>
    BY <1>3 DEF Break
  <2>2. QED
    BY <2>1 DEF PlaysWhatWasAsked
<1>4. ASSUME NEW p \in Pages, Go(p) PROVE player'[q] = last'[q]
  <2>1. q # p
    BY <1>4 DEF Go, Click
  <2>2. QED
    BY <1>4, <2>1 DEF Go, Click, PlaysWhatWasAsked
<1>5. ASSUME NEW p \in Pages, Reload(p) PROVE player'[q] = last'[q]
  <2>1. q # p
    BY <1>5 DEF Reload
  <2>2. QED
    BY <1>5, <2>1 DEF Reload, PlaysWhatWasAsked
<1>6. ASSUME NEW p \in Pages, PollAnswered(p) \/ PollLost(p) \/ PollShown(p)
      PROVE  player'[q] = last'[q]
  BY <1>6, PollKeepsPages DEF PlaysWhatWasAsked, button
<1>7. CASE UNCHANGED vars
  BY <1>7 DEF vars, PlaysWhatWasAsked, button
<1>8. QED
  BY <1>1, <1>2, <1>4, <1>5, <1>6, <1>7, <1>3 DEF Next

\* A page that says it plays, plays the answer to its last click, with any
\* number of pages, clicks and reloads.
THEOREM AlwaysPlaysWhatWasAsked == Spec => []PlaysWhatWasAsked
<1>1. Init => ButtonDown /\ AnswersTheLast /\ PlaysWhatWasAsked
  BY DEF Init, ButtonDown, AnswersTheLast, PlaysWhatWasAsked, Pending
<1>2. QED
  BY <1>1, TypeCorrect, ButtonStep, LastStep, PlayerStep, PTL DEF Spec
=============================================================================
