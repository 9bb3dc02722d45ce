--------------------------- MODULE PipelineProofs ---------------------------
(***************************************************************************)
(* Proofs about the voice pipeline for any number of callers, any queue   *)
(* limit and any window lengths: its types, the bound on what waits behind *)
(* a turn, the wake-word gate, the display, and that it implements the    *)
(* safety part of TurnService.                                             *)
(***************************************************************************)
EXTENDS Pipeline, TLAPS

\* busy_ and the utterance in hand say the same: process() is running.
TurnInHand ==
  /\ busy <=> worker \in InTurn
  /\ turn # None <=> worker \in InTurn

\* A caller on its way into the queue carries an utterance.
OffersCarried ==
  \A c \in Callers : caller[c] = "push" => offer[c] # None

\* The flag is only ever raised, and found raised, after a deadline has been
\* stored.
ArmedOpened ==
  (armed \/ worker = "rearm" \/ \E c \in Callers : caller[c] \in {"arm", "asked"}) => opened

\* The inductive invariant.
IInv ==
  /\ TypeOK
  /\ TurnInHand
  /\ OffersCarried
  /\ ArmedOpened
  /\ BacklogBounded
  /\ GateHolds
  /\ FaceMatchesTurn

USE NoneAssumption, QueueLimitAssumption, WindowAssumption, GatedAssumption

\* The pipeline starts in a state of the inductive invariant.
LEMMA InitIInv ==
  ASSUME Init
  PROVE  IInv
<1>1. TypeOK
  <2>1. caller \in [Callers -> CallerPlaces] /\ offer \in [Callers -> Utterances \cup {None}]
    BY DEF Init, CallerPlaces
  <2>2. left \in 0..Longest /\ queue \in Seq(Utterances)
    BY DEF Init, Longest
  <2>3. gated \in BOOLEAN /\ running \in BOOLEAN /\ busy \in BOOLEAN
    BY DEF Init
  <2>4. armed \in BOOLEAN /\ opened \in BOOLEAN
    BY DEF Init
  <2>5. turn \in Utterances \cup {None} /\ shown \in States
    BY DEF Init, States
  <2>6. worker \in WorkerPlaces /\ dog \in DogPlaces /\ stopper \in StopperPlaces
    BY DEF Init, WorkerPlaces, DogPlaces, StopperPlaces
  <2>7. QED
    BY <2>1, <2>2, <2>3, <2>4, <2>5, <2>6 DEF TypeOK
<1>2. TurnInHand /\ FaceMatchesTurn
  BY DEF Init, TurnInHand, FaceMatchesTurn, InTurn
<1>3. OffersCarried /\ ArmedOpened
  BY DEF Init, OffersCarried, ArmedOpened
<1>4. BacklogBounded /\ GateHolds
  BY DEF Init, BacklogBounded, GateHolds
<1>5. QED
  BY <1>1, <1>2, <1>3, <1>4 DEF IInv

\* Every action of every thread keeps the type of every variable.
LEMMA NextTypeOK ==
  ASSUME TypeOK, OffersCarried, [Next]_vars
  PROVE  TypeOK'
<1> USE DEF TypeOK, WorkerPlaces, DogPlaces, CallerPlaces, StopperPlaces, InTurn, States, Longest,
      OffersCarried, Worker, Dog, Caller, Stopper, Acquire, SetDeadline, SetArmed,
      Notified, AfterShow, threads, window
<1>1. CASE Tick
  BY <1>1 DEF Tick
<1>2. CASE LoopTest
  BY <1>2 DEF LoopTest
<1>3. CASE WaitStopped
  BY <1>3 DEF WaitStopped
<1>4. CASE TakeUtterance
  BY <1>4 DEF TakeUtterance
<1>5. CASE FindNothing
  BY <1>5 DEF FindNothing
<1>6. CASE Park
  BY <1>6 DEF Park
<1>7. CASE ShowListening
  BY <1>7 DEF ShowListening
<1>8. CASE AcquireStt
  BY <1>8 DEF AcquireStt
<1>9. CASE HearJunk
  BY <1>9 DEF HearJunk
<1>10. CASE HearText
  BY <1>10 DEF HearText
<1>11. CASE AcquireLlm
  BY <1>11 DEF AcquireLlm
<1>12. CASE Generate
  BY <1>12 DEF Generate
<1>13. CASE AcquireTts
  BY <1>13 DEF AcquireTts
<1>14. CASE SpeechDone
  BY <1>14 DEF SpeechDone
<1>15. CASE Finish
  BY <1>15 DEF Finish
<1>16. CASE AfterUngated
  BY <1>16 DEF AfterUngated
<1>17. CASE FollowUpDeadline
  BY <1>17 DEF FollowUpDeadline
<1>18. CASE FollowUpArmed
  BY <1>18 DEF FollowUpArmed
<1>19. CASE FollowUpShown
  BY <1>19 DEF FollowUpShown
<1>20. CASE WakeSpuriously
  BY <1>20 DEF WakeSpuriously
<1>21. CASE DogTop
  BY <1>21 DEF DogTop
<1>22. CASE DogArmed \/ DogIdle \/ DogExpired
  BY <1>22 DEF DogArmed, DogIdle, DogExpired
<1>23. CASE Relock
  <2>1. armed' \in BOOLEAN
    BY <1>23 DEF Relock
  <2>2. QED
    BY <1>23, <2>1, SMTT(30) DEF Relock
<1>24. CASE ShowRelocked
  BY <1>24 DEF ShowRelocked
<1>25. ASSUME NEW c \in Callers, Arm(c) PROVE TypeOK'
  BY <1>25 DEF Arm
<1>26. ASSUME NEW c \in Callers, ArmFlag(c) PROVE TypeOK'
  BY <1>26 DEF ArmFlag
<1>27. ASSUME NEW c \in Callers, ArmTest(c) PROVE TypeOK'
  BY <1>27 DEF ArmTest
<1>28. ASSUME NEW c \in Callers, CallerShow(c) PROVE TypeOK'
  BY <1>28 DEF CallerShow
<1>29. ASSUME NEW c \in Callers, OnSpeechStart(c) PROVE TypeOK'
  BY <1>29 DEF OnSpeechStart
<1>30. ASSUME NEW c \in Callers, OnUtterance(c) PROVE TypeOK'
  BY <1>30 DEF OnUtterance
<1>31. ASSUME NEW c \in Callers, AskArmed(c) PROVE TypeOK'
  BY <1>31 DEF AskArmed, Admit, Refuse
<1>32. ASSUME NEW c \in Callers, AskDeadline(c) PROVE TypeOK'
  BY <1>32 DEF AskDeadline, Admit, Refuse
<1>33. ASSUME NEW c \in Callers, Push(c) PROVE TypeOK'
  BY <1>33 DEF Push
<1>34. ASSUME NEW c \in Callers, Drop(c) PROVE TypeOK'
  BY <1>34 DEF Drop
<1>35. ASSUME NEW c \in Callers, Notify(c) PROVE TypeOK'
  BY <1>35 DEF Notify
<1>36. ASSUME NEW c \in Callers, SetIdle(c) PROVE TypeOK'
  BY <1>36 DEF SetIdle
<1>37. CASE StopFlag
  <2>1. running' \in BOOLEAN
    BY <1>37 DEF StopFlag
  <2>2. QED
    BY <1>37, <2>1, SMTT(30) DEF StopFlag
<1>38. CASE StopNotify
  BY <1>38 DEF StopNotify
<1>39. CASE StopJoin
  BY <1>39 DEF StopJoin
<1>40. CASE UNCHANGED vars
  BY <1>40 DEF vars
<1>41. QED
  BY <1>1, <1>2, <1>3, <1>4, <1>5, <1>6, <1>7, <1>8, <1>9, <1>10, <1>11, <1>12, <1>13, <1>14, <1>15, <1>16, <1>17, <1>18, <1>19, <1>20, <1>21, <1>22, <1>23, <1>24, <1>25, <1>26, <1>27, <1>28, <1>29, <1>30, <1>31, <1>32, <1>33, <1>34, <1>35, <1>36, <1>37, <1>38, <1>39, <1>40
  DEF Next, WorkerStep, DogStep, CallerStep, CallerProceeds, StopProceeds

\* A step of any thread but the worker, or no step at all.
OtherStep ==
  \/ Tick \/ DogStep \/ StopFlag \/ StopProceeds
  \/ \E c \in Callers : CallerStep(c)
  \/ UNCHANGED vars

\* The other threads can move the worker only by waking it, never touch the
\* turn, and show nothing but "idle" and "listening".
LEMMA OthersOnlyWake ==
  ASSUME OtherStep
  PROVE  /\ worker' = worker \/ (worker = "asleep" /\ worker' = "test")
         /\ UNCHANGED <<gated, busy, turn>>
         /\ shown' = shown \/ shown' \in {"idle", "listening"}
<1>1. CASE Tick \/ DogStep
  BY <1>1 DEF Tick, DogStep, DogTop, DogArmed, DogIdle, DogExpired, Relock, ShowRelocked, Dog, threads
<1>2. CASE StopFlag \/ StopProceeds
  BY <1>2 DEF StopFlag, StopProceeds, StopNotify, StopJoin, Stopper, Notified
<1>3. ASSUME NEW c \in Callers, CallerStep(c)
      PROVE  /\ worker' = worker \/ (worker = "asleep" /\ worker' = "test")
             /\ UNCHANGED <<gated, busy, turn>>
             /\ shown' = shown \/ shown' \in {"idle", "listening"}
  BY <1>3 DEF CallerStep, CallerProceeds, Arm, ArmFlag, ArmTest, CallerShow,
     OnSpeechStart, OnUtterance, AskArmed, AskDeadline, Admit, Refuse, Push, Drop, Notify, SetIdle,
     Notified, Caller, threads
<1>4. CASE UNCHANGED vars
  BY <1>4 DEF vars, threads
<1>5. QED
  BY <1>1, <1>2, <1>3, <1>4 DEF OtherStep

\* Every step is a step of the worker (its own, or a spurious wake-up) or of
\* another thread.
LEMMA WorkerOrOther ==
  ASSUME [Next]_vars
  PROVE  WorkerStep \/ WakeSpuriously \/ OtherStep
  BY DEF Next, OtherStep

\* The worker raises busy_ with the pop and lowers it after process().
LEMMA NextTurnInHand ==
  ASSUME TurnInHand, TypeOK, [Next]_vars
  PROVE  TurnInHand'
<1> USE DEF TurnInHand, TypeOK, InTurn, Worker, Acquire
<1>1. CASE LoopTest
  BY <1>1 DEF LoopTest
<1>2. CASE WaitStopped
  BY <1>2 DEF WaitStopped
<1>3. CASE TakeUtterance
  BY <1>3 DEF TakeUtterance
<1>4. CASE FindNothing
  BY <1>4 DEF FindNothing
<1>5. CASE Park
  BY <1>5 DEF Park
<1>6. CASE ShowListening
  BY <1>6 DEF ShowListening
<1>7. CASE AcquireStt
  BY <1>7 DEF AcquireStt
<1>8. CASE HearJunk
  BY <1>8 DEF HearJunk
<1>9. CASE HearText
  BY <1>9 DEF HearText
<1>10. CASE AcquireLlm
  BY <1>10 DEF AcquireLlm
<1>11. CASE Generate
  BY <1>11 DEF Generate
<1>12. CASE AcquireTts
  BY <1>12 DEF AcquireTts
<1>13. CASE SpeechDone
  BY <1>13 DEF SpeechDone
<1>14. CASE Finish
  BY <1>14 DEF Finish
<1>15. CASE AfterUngated
  BY <1>15 DEF AfterUngated
<1>16. CASE FollowUpDeadline
  BY <1>16 DEF FollowUpDeadline
<1>17. CASE FollowUpArmed
  BY <1>17 DEF FollowUpArmed
<1>18. CASE FollowUpShown
  BY <1>18 DEF FollowUpShown
<1>19. CASE WakeSpuriously
  BY <1>19 DEF WakeSpuriously
<1>20. CASE OtherStep
  BY <1>20, OthersOnlyWake
<1>21. QED
  BY WorkerOrOther, <1>1, <1>2, <1>3, <1>4, <1>5, <1>6, <1>7, <1>8, <1>9, <1>10, <1>11, <1>12, <1>13, <1>14, <1>15, <1>16, <1>17, <1>18, <1>19, <1>20 DEF WorkerStep

\* The worker shows "idle" or "listening" before it leaves a turn behind.
LEMMA NextFaceMatchesTurn ==
  ASSUME FaceMatchesTurn, [Next]_vars
  PROVE  FaceMatchesTurn'
<1> USE DEF FaceMatchesTurn, InTurn, Worker, Acquire
<1>1. CASE LoopTest
  BY <1>1 DEF LoopTest
<1>2. CASE WaitStopped
  BY <1>2 DEF WaitStopped
<1>3. CASE TakeUtterance
  BY <1>3 DEF TakeUtterance
<1>4. CASE FindNothing
  BY <1>4 DEF FindNothing
<1>5. CASE Park
  BY <1>5 DEF Park
<1>6. CASE ShowListening
  BY <1>6 DEF ShowListening
<1>7. CASE AcquireStt
  BY <1>7 DEF AcquireStt
<1>8. CASE HearJunk
  BY <1>8 DEF HearJunk
<1>9. CASE HearText
  BY <1>9 DEF HearText
<1>10. CASE AcquireLlm
  BY <1>10 DEF AcquireLlm
<1>11. CASE Generate
  BY <1>11 DEF Generate
<1>12. CASE AcquireTts
  BY <1>12 DEF AcquireTts
<1>13. CASE SpeechDone
  BY <1>13 DEF SpeechDone
<1>14. CASE Finish
  BY <1>14 DEF Finish
<1>15. CASE AfterUngated
  BY <1>15 DEF AfterUngated
<1>16. CASE FollowUpDeadline
  BY <1>16 DEF FollowUpDeadline
<1>17. CASE FollowUpArmed
  BY <1>17 DEF FollowUpArmed
<1>18. CASE FollowUpShown
  BY <1>18 DEF FollowUpShown
<1>19. CASE WakeSpuriously
  BY <1>19 DEF WakeSpuriously
<1>20. CASE OtherStep
  BY <1>20, OthersOnlyWake
<1>21. QED
  BY WorkerOrOther, <1>1, <1>2, <1>3, <1>4, <1>5, <1>6, <1>7, <1>8, <1>9, <1>10, <1>11, <1>12, <1>13, <1>14, <1>15, <1>16, <1>17, <1>18, <1>19, <1>20 DEF WorkerStep

\* The worker's steps leave the callers where they are, and store into the
\* window only between two turns.
LEMMA WorkerLeavesCallers ==
  ASSUME WorkerStep \/ WakeSpuriously
  PROVE  /\ UNCHANGED <<gated, caller, offer>>
         /\ armed' => armed \/ worker = "rearm"
         /\ opened => opened'
         /\ worker' = "rearm" => opened'
  BY DEF WorkerStep, WakeSpuriously, LoopTest, WaitStopped, TakeUtterance, FindNothing,
     Park, ShowListening, AcquireStt, HearJunk, HearText, AcquireLlm, Generate,
     AcquireTts, SpeechDone, Finish, AfterUngated, FollowUpDeadline, FollowUpArmed,
     FollowUpShown, Acquire, Worker, SetDeadline, SetArmed, window

\* onUtterance gives its buffer away only at the push.
LEMMA NextOffersCarried ==
  ASSUME OffersCarried, TypeOK, [Next]_vars
  PROVE  OffersCarried'
<1> USE DEF OffersCarried, TypeOK, Caller, AfterShow, threads
<1>1. CASE WorkerStep \/ WakeSpuriously
  BY <1>1, WorkerLeavesCallers
<1>2. ASSUME NEW c \in Callers, CallerStep(c) PROVE OffersCarried'
  <2>1. CASE Arm(c)
    BY <1>2, <2>1 DEF Arm
  <2>2. CASE ArmFlag(c)
    BY <1>2, <2>2 DEF ArmFlag
  <2>3. CASE ArmTest(c)
    BY <1>2, <2>3 DEF ArmTest
  <2>4. CASE CallerShow(c)
    BY <1>2, <2>4 DEF CallerShow
  <2>5. CASE OnSpeechStart(c)
    BY <1>2, <2>5 DEF OnSpeechStart
  <2>6. CASE OnUtterance(c)
    BY <1>2, <2>6 DEF OnUtterance
  <2>7. CASE AskArmed(c)
    BY <1>2, <2>7 DEF AskArmed, Admit, Refuse
  <2>8. CASE AskDeadline(c)
    BY <1>2, <2>8 DEF AskDeadline, Admit, Refuse
  <2>9. CASE Push(c)
    BY <1>2, <2>9 DEF Push
  <2>10. CASE Drop(c)
    BY <1>2, <2>10 DEF Drop
  <2>11. CASE Notify(c)
    BY <1>2, <2>11 DEF Notify
  <2>12. CASE SetIdle(c)
    BY <1>2, <2>12 DEF SetIdle
  <2>13. QED
    BY <1>2, <2>1, <2>2, <2>3, <2>4, <2>5, <2>6, <2>7, <2>8, <2>9, <2>10, <2>11, <2>12 DEF CallerStep, CallerProceeds
<1>3. CASE Tick \/ DogStep
  BY <1>3 DEF Tick, DogStep, DogTop, DogArmed, DogIdle, DogExpired, Relock, ShowRelocked, Dog, threads, window
<1>4. CASE StopFlag \/ StopProceeds
  BY <1>4 DEF StopFlag, StopProceeds, StopNotify, StopJoin, Stopper, Notified, window
<1>5. CASE UNCHANGED vars
  BY <1>5 DEF vars, threads, window
<1>6. QED
  BY <1>1, <1>2, <1>3, <1>4, <1>5 DEF Next

\* armWindow stores the deadline before the flag, whoever calls it.
LEMMA NextArmedOpened ==
  ASSUME ArmedOpened, TypeOK, [Next]_vars
  PROVE  ArmedOpened'
<1> USE DEF ArmedOpened, TypeOK, Caller, AfterShow, SetDeadline, SetArmed, threads, window, Notified
<1>1. CASE WorkerStep \/ WakeSpuriously
  BY <1>1, WorkerLeavesCallers
<1>2. ASSUME NEW c \in Callers, CallerStep(c) PROVE ArmedOpened'
  <2>1. CASE Arm(c)
    BY <1>2, <2>1 DEF Arm
  <2>2. CASE ArmFlag(c)
    BY <1>2, <2>2 DEF ArmFlag
  <2>3. CASE ArmTest(c)
    BY <1>2, <2>3 DEF ArmTest
  <2>4. CASE CallerShow(c)
    BY <1>2, <2>4 DEF CallerShow
  <2>5. CASE OnSpeechStart(c)
    BY <1>2, <2>5 DEF OnSpeechStart
  <2>6. CASE OnUtterance(c)
    BY <1>2, <2>6 DEF OnUtterance
  <2>7. CASE AskArmed(c)
    BY <1>2, <2>7 DEF AskArmed, Admit, Refuse
  <2>8. CASE AskDeadline(c)
    BY <1>2, <2>8 DEF AskDeadline, Admit, Refuse
  <2>9. CASE Push(c)
    BY <1>2, <2>9 DEF Push
  <2>10. CASE Drop(c)
    BY <1>2, <2>10 DEF Drop
  <2>11. CASE Notify(c)
    BY <1>2, <2>11 DEF Notify
  <2>12. CASE SetIdle(c)
    BY <1>2, <2>12 DEF SetIdle
  <2>13. QED
    BY <1>2, <2>1, <2>2, <2>3, <2>4, <2>5, <2>6, <2>7, <2>8, <2>9, <2>10, <2>11, <2>12 DEF CallerStep, CallerProceeds
<1>3. CASE Tick \/ DogStep
  BY <1>3 DEF Tick, DogStep, DogTop, DogArmed, DogIdle, DogExpired, Relock, ShowRelocked, Dog, threads, window
<1>4. CASE StopFlag \/ StopProceeds
  BY <1>4 DEF StopFlag, StopProceeds, StopNotify, StopJoin, Stopper, Notified, window
<1>5. CASE UNCHANGED vars
  BY <1>5 DEF vars, threads, window
<1>6. QED
  BY <1>1, <1>2, <1>3, <1>4, <1>5 DEF Next

\* Only the pop and the push change the queue, and only the pop gives the
\* worker an utterance; no step forgets that a window was opened.
LEMMA QueueSteps ==
  ASSUME [Next]_vars
  PROVE  \/ TakeUtterance
         \/ \E c \in Callers : Push(c)
         \/ queue' = queue /\ turn' \in {turn, None}
<1>1. CASE WorkerStep \/ WakeSpuriously
  BY <1>1 DEF WorkerStep, WakeSpuriously, LoopTest, WaitStopped, FindNothing, Park,
     ShowListening, AcquireStt, HearJunk, HearText, AcquireLlm, Generate, AcquireTts,
     SpeechDone, Finish, AfterUngated, FollowUpDeadline, FollowUpArmed, FollowUpShown,
     Acquire
<1>2. ASSUME NEW c \in Callers, CallerStep(c), ~Push(c)
      PROVE  queue' = queue /\ turn' = turn
  BY <1>2 DEF CallerStep, CallerProceeds, Arm, ArmFlag, ArmTest, CallerShow,
     OnSpeechStart, OnUtterance, AskArmed, AskDeadline, Admit, Refuse, Drop, Notify, SetIdle
<1>3. CASE Tick \/ DogStep
  BY <1>3 DEF Tick, DogStep, DogTop, DogArmed, DogIdle, DogExpired, Relock, ShowRelocked
<1>4. CASE StopFlag \/ StopProceeds
  BY <1>4 DEF StopFlag, StopProceeds, StopNotify, StopJoin
<1>5. CASE UNCHANGED vars
  BY <1>5 DEF vars
<1>6. QED
  BY <1>1, <1>2, <1>3, <1>4, <1>5 DEF Next

\* Behind a turn wait at most QueueLimit utterances: the pop shortens the
\* queue and the push is refused during a turn.
LEMMA NextBacklogBounded ==
  ASSUME BacklogBounded, TurnInHand, TypeOK, [Next]_vars
  PROVE  BacklogBounded'
<1> USE DEF BacklogBounded, TypeOK
<1>1. CASE TakeUtterance
  <2>1. queue # <<>> /\ queue' = Tail(queue)
    BY <1>1 DEF TakeUtterance
  <2>2. Len(queue') = Len(queue) - 1
    BY <2>1
  <2>3. QED
    BY <2>2
<1>2. ASSUME NEW c \in Callers, Push(c)
      PROVE  BacklogBounded'
  <2>1. turn = None /\ turn' = turn /\ Len(queue) <= QueueLimit
    BY <1>2 DEF Push, Full, TurnInHand
  <2>2. Len(queue') = Len(queue) + 1
    BY <1>2 DEF Push
  <2>3. QED
    BY <2>1, <2>2
<1>3. CASE queue' = queue /\ turn' \in {turn, None}
  BY <1>3
<1>4. QED
  BY <1>1, <1>2, <1>3, QueueSteps

\* History is kept: once a window has been opened it stays on record.
LEMMA OpenedStays ==
  ASSUME TypeOK, [Next]_vars
  PROVE  gated' = gated /\ (opened => opened')
<1> USE DEF Caller, SetDeadline, SetArmed, threads, window
<1>1. CASE WorkerStep \/ WakeSpuriously
  BY <1>1, WorkerLeavesCallers
<1>2. ASSUME NEW c \in Callers, CallerStep(c) PROVE gated' = gated /\ (opened => opened')
  <2>1. CASE Arm(c)
    BY <1>2, <2>1 DEF Arm
  <2>2. CASE ArmFlag(c)
    BY <1>2, <2>2 DEF ArmFlag
  <2>3. CASE ArmTest(c)
    BY <1>2, <2>3 DEF ArmTest
  <2>4. CASE CallerShow(c)
    BY <1>2, <2>4 DEF CallerShow
  <2>5. CASE OnSpeechStart(c)
    BY <1>2, <2>5 DEF OnSpeechStart
  <2>6. CASE OnUtterance(c)
    BY <1>2, <2>6 DEF OnUtterance
  <2>7. CASE AskArmed(c)
    BY <1>2, <2>7 DEF AskArmed, Admit, Refuse
  <2>8. CASE AskDeadline(c)
    BY <1>2, <2>8 DEF AskDeadline, Admit, Refuse
  <2>9. CASE Push(c)
    BY <1>2, <2>9 DEF Push
  <2>10. CASE Drop(c)
    BY <1>2, <2>10 DEF Drop
  <2>11. CASE Notify(c)
    BY <1>2, <2>11 DEF Notify
  <2>12. CASE SetIdle(c)
    BY <1>2, <2>12 DEF SetIdle
  <2>13. QED
    BY <1>2, <2>1, <2>2, <2>3, <2>4, <2>5, <2>6, <2>7, <2>8, <2>9, <2>10, <2>11, <2>12 DEF CallerStep, CallerProceeds
<1>3. CASE Tick \/ DogStep
  BY <1>3 DEF Tick, DogStep, DogTop, DogArmed, DogIdle, DogExpired, Relock, ShowRelocked, Dog, threads, window
<1>4. CASE StopFlag \/ StopProceeds
  BY <1>4 DEF StopFlag, StopProceeds, StopNotify, StopJoin, Stopper, Notified, window
<1>5. CASE UNCHANGED vars
  BY <1>5 DEF vars, threads, window
<1>6. QED
  BY <1>1, <1>2, <1>3, <1>4, <1>5 DEF Next

\* Before the first window nothing passes armedNow(), so nothing is pushed,
\* so nothing is popped, so no turn ends and no follow-up window is opened.
LEMMA NextGateHolds ==
  ASSUME GateHolds, ArmedOpened, TypeOK, [Next]_vars
  PROVE  GateHolds'
<1>1. SUFFICES ASSUME gated', ~opened'
               PROVE  queue' = <<>> /\ turn' = None /\ \A c \in Callers : caller'[c] # "push"
  BY DEF GateHolds
<1>2. gated /\ ~opened
  BY <1>1, OpenedStays
<1>3. queue = <<>> /\ turn = None /\ \A c \in Callers : caller[c] # "push"
  BY <1>2 DEF GateHolds
<1>4. ~armed /\ \A c \in Callers : caller[c] # "asked"
  BY <1>2 DEF ArmedOpened
<1>5. queue' = <<>> /\ turn' = None
  BY <1>3, QueueSteps DEF TakeUtterance, Push, Caller
<1>6. ASSUME NEW c \in Callers PROVE caller'[c] # "push"
  <2>1. CASE UNCHANGED caller
    BY <1>3, <2>1
  <2>2. ASSUME NEW d \in Callers, CallerStep(d) PROVE caller'[c] # "push"
    <3>1. ASSUME AskArmed(d) \/ AskDeadline(d) PROVE caller' = [caller EXCEPT ![d] = "rest"]
      BY <1>2, <1>4, <3>1 DEF AskArmed, AskDeadline, Admit, Refuse, Caller
    <3>2. ASSUME ~AskArmed(d), ~AskDeadline(d)
          PROVE  \E place \in CallerPlaces \ {"push"} : caller' = [caller EXCEPT ![d] = place]
                 \/ UNCHANGED caller
      BY <2>2, <3>2 DEF CallerStep, CallerProceeds, Arm, ArmFlag, ArmTest, CallerShow,
         OnSpeechStart, OnUtterance, Push, Drop, Notify, SetIdle, Caller, AfterShow,
         CallerPlaces, threads
    <3>3. QED
      BY <1>3, <3>1, <3>2 DEF TypeOK
  <2>3. CASE Tick \/ DogStep \/ StopFlag \/ StopProceeds \/ UNCHANGED vars
    BY <1>3, <2>3 DEF Tick, DogStep, DogTop, DogArmed, DogIdle, DogExpired, Relock, ShowRelocked, Dog, StopFlag,
       StopProceeds, StopNotify, StopJoin, Stopper, vars, threads
  <2>4. QED
    BY <2>1, <2>2, <2>3, WorkerOrOther, WorkerLeavesCallers DEF OtherStep
<1>7. QED
  BY <1>5, <1>6

\* Every step keeps the inductive invariant.
LEMMA NextIInv ==
  ASSUME IInv, [Next]_vars
  PROVE  IInv'
  BY NextTypeOK, NextTurnInHand, NextFaceMatchesTurn, NextOffersCarried, NextArmedOpened,
     NextBacklogBounded, NextGateHolds DEF IInv

\* The inductive invariant holds in every reachable state.
LEMMA Invariance == SafeSpec => []IInv
<1>1. Init => IInv
  BY InitIInv
<1>2. IInv /\ [Next]_vars => IInv'
  BY NextIInv
<1>3. QED
  BY <1>1, <1>2, PTL DEF SafeSpec

\* Every variable keeps its type, whatever the threads interleave.
THEOREM TypeCorrect == SafeSpec => []TypeOK
<1>1. IInv => TypeOK
  BY DEF IInv
<1>2. QED
  BY <1>1, Invariance, PTL

\* onUtterance and loop() keep the backlog bounded: at most QueueLimit
\* utterances wait behind a turn, one more while there is no turn.
THEOREM BacklogAlwaysBounded == SafeSpec => []BacklogBounded
<1>1. IInv => BacklogBounded
  BY DEF IInv
<1>2. QED
  BY <1>1, Invariance, PTL

\* A gated pipeline that was never woken neither queues nor answers speech.
THEOREM GateAlwaysHolds == SafeSpec => []GateHolds
<1>1. IInv => GateHolds
  BY DEF IInv
<1>2. QED
  BY <1>1, Invariance, PTL

\* The display is "thinking" or "speaking" only until the turn is wound up.
THEOREM FaceAlwaysMatchesTurn == SafeSpec => []FaceMatchesTurn
<1>1. IInv => FaceMatchesTurn
  BY DEF IInv
<1>2. QED
  BY <1>1, Invariance, PTL

\* Only the main thread's flag changes running_.
LEMMA RunningSteps ==
  ASSUME [Next]_vars
  PROVE  StopFlag \/ running' = running
  BY DEF Next, Tick, WorkerStep, WakeSpuriously, LoopTest, WaitStopped, TakeUtterance,
     FindNothing, Park, ShowListening, AcquireStt, HearJunk, HearText, AcquireLlm,
     Generate, AcquireTts, SpeechDone, Finish, AfterUngated, FollowUpDeadline,
     FollowUpArmed, FollowUpShown, Acquire, DogStep, DogTop, DogArmed, DogIdle, DogExpired, Relock,
     ShowRelocked, CallerStep, CallerProceeds, Arm, ArmFlag, ArmTest, CallerShow,
     OnSpeechStart, OnUtterance, AskArmed, AskDeadline, Admit, Refuse, Push, Drop, Notify, SetIdle,
     StopProceeds, StopNotify, StopJoin, vars

\* A step of the pipeline is a step of the service or leaves it unchanged.
LEMMA StepImplements ==
  ASSUME IInv, [Next]_vars
  PROVE  [Service!Next]_(Service!serviceVars)
<1> USE DEF Service!serviceVars
<1>1. CASE TakeUtterance
  <2>1. turn = None
    BY <1>1 DEF IInv, TurnInHand, TakeUtterance, Worker, InTurn
  <2>2. Service!Begin
    BY <1>1, <2>1 DEF TakeUtterance, Service!Begin
  <2>3. QED
    BY <2>2 DEF Service!Next
<1>2. ASSUME NEW c \in Callers, Push(c)
      PROVE  Service!Next
  <2>1. turn = None /\ UNCHANGED <<turn, running>>
    BY <1>2 DEF IInv, TurnInHand, Push, Full
  <2>2. Len(queue) < QueueLimit + 1 /\ queue' = Append(queue, offer[c])
    BY <1>2 DEF IInv, TypeOK, Push, Full
  <2>3. offer[c] \in Utterances
    BY <1>2 DEF IInv, TypeOK, OffersCarried, Push, Caller
  <2>4. Service!Accept(offer[c])
    BY <2>1, <2>2 DEF Service!Accept
  <2>5. QED
    BY <2>3, <2>4 DEF Service!Next
<1>3. CASE StopFlag /\ UNCHANGED <<queue, turn>>
  BY <1>3 DEF StopFlag, Service!Next, Service!Close, IInv, TypeOK
<1>4. CASE running' = running /\ queue' = queue /\ turn' \in {turn, None}
  <2>1. CASE turn' = turn
    BY <1>4, <2>1
  <2>2. CASE turn' = None /\ turn # None
    BY <1>4, <2>2 DEF Service!End, Service!Next
  <2>3. QED
    BY <1>4, <2>1, <2>2
<1>5. StopFlag => UNCHANGED <<queue, turn>>
  BY DEF StopFlag
<1>6. QED
  BY <1>1, <1>2, <1>3, <1>4, <1>5, QueueSteps, RunningSteps

\* The pipeline implements the safety part of TurnService: utterances are
\* answered one at a time, in the order they were taken, each of them once.
THEOREM ImplementsService == SafeSpec => ServiceSafeSpec
<1>1. Init => Service!Init
  BY DEF Init, Service!Init
<1>2. IInv /\ [Next]_vars => [Service!Next]_(Service!serviceVars)
  BY StepImplements
<1>3. QED
  BY <1>1, <1>2, Invariance, PTL DEF SafeSpec, ServiceSafeSpec, Service!SafeSpec
=============================================================================
