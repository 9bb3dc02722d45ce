------------------------------ MODULE Pipeline ------------------------------
(***************************************************************************)
(* The voice pipeline of the orchestrator (include/pipeline.h): a worker  *)
(* thread that takes utterances from a queue and answers them, a watchdog *)
(* thread that closes an expired listening window, the caller threads     *)
(* (hotword reader, capture thread, socket clients) that open windows and *)
(* offer utterances, and the main thread that stops it all.               *)
(*                                                                         *)
(* A step is one access to shared state: an atomic load or store, one     *)
(* critical section of m_, or one broadcast of the displayed state.       *)
(* gated_ is set before the threads start, so reading it is no step.      *)
(* Deadlines are kept as the time that remains: nowMs() < armedUntil_ is  *)
(* left > 0, and the passage of time is the action Tick.                  *)
(***************************************************************************)
EXTENDS Naturals, Sequences

CONSTANTS Callers,      \* threads that call arm, onWake, onSpeechStart, ...
          Utterances,   \* PCM buffers, told apart only by identity
          None,         \* no utterance
          QueueLimit,   \* "q_.size() > 2": 2 in the code
          WakeWindow,   \* wakeWindowMs_ in ticks
          FollowUp,     \* followupMs_ in ticks
          GatedModes    \* values setGated may have left in gated_

ASSUME QueueLimitAssumption == QueueLimit \in Nat
ASSUME WindowAssumption == WakeWindow \in Nat \ {0} /\ FollowUp \in Nat \ {0}
ASSUME NoneAssumption == None \notin Utterances
ASSUME GatedAssumption == GatedModes \subseteq BOOLEAN

VARIABLES gated,        \* gated_: speech needs an open window
          running,      \* running_
          stopper,      \* where the main thread is in stop()
          queue,        \* q_
          busy,         \* busy_
          turn,         \* the utterance process() works on, or None
          armed,        \* armed_
          left,         \* ticks until armedUntil_
          opened,       \* history: armWindow has run since the start
          shown,        \* the last "state" line handed to the clients
          worker,       \* program counter of loop() and process()
          dog,          \* program counter of watchdog()
          caller,       \* program counter of each caller thread
          offer         \* the utterance each caller carries, or None

window == <<armed, left, opened>>
threads == <<worker, dog, caller, offer, stopper>>
vars == <<gated, running, queue, busy, turn, window, shown, threads>>

States == {"idle", "listening", "thinking", "speaking"}
InTurn == {"begin", "stt", "transcribe", "llm", "generate", "tts", "speak", "finish"}
Longest == IF WakeWindow > FollowUp THEN WakeWindow ELSE FollowUp

\* m_ is held across steps only by a worker that found nothing to do and
\* has not yet gone to sleep on cv_.
LockFree == worker # "parking"

Init ==
  /\ gated \in GatedModes
  /\ running = TRUE
  /\ stopper = "up"
  /\ queue = <<>>
  /\ busy = FALSE
  /\ turn = None
  /\ armed = FALSE
  /\ left = 0
  /\ opened = FALSE
  /\ shown = "idle"
  /\ worker = "top"
  /\ dog = "top"
  /\ caller = [c \in Callers |-> "rest"]
  /\ offer = [c \in Callers |-> None]

(***************************************************************************)
(* Time.                                                                   *)
(***************************************************************************)
Tick ==
  /\ left > 0
  /\ left' = left - 1
  /\ UNCHANGED <<gated, running, queue, busy, turn, armed, opened, shown, threads>>

\* armWindow stores the deadline first and the flag second.
SetDeadline(ticks) ==
  /\ left' = ticks
  /\ opened' = TRUE
  /\ UNCHANGED armed

SetArmed ==
  /\ armed' = TRUE
  /\ UNCHANGED <<left, opened>>

(***************************************************************************)
(* The worker thread: loop() and process().                                *)
(***************************************************************************)
Worker(from, to) == worker = from /\ worker' = to /\ UNCHANGED <<dog, caller, offer, stopper>>

LoopTest ==
  /\ Worker("top", IF running THEN "test" ELSE "done")
  /\ UNCHANGED <<gated, running, queue, busy, turn, window, shown>>

\* Under m_: the predicate of cv_.wait, then the pop.
WaitStopped ==
  /\ ~running
  /\ Worker("test", "done")
  /\ UNCHANGED <<gated, running, queue, busy, turn, window, shown>>

\* Mutant: q_.back() instead of q_.front().
TakeNewest ==
  /\ running
  /\ queue # <<>>
  /\ Worker("test", "begin")
  /\ turn' = queue[Len(queue)]
  /\ queue' = SubSeq(queue, 1, Len(queue) - 1)
  /\ busy' = TRUE
  /\ UNCHANGED <<gated, running, window, shown>>

TakeUtterance ==
  /\ running
  /\ queue # <<>>
  /\ Worker("test", "begin")
  /\ turn' = Head(queue)
  /\ queue' = Tail(queue)
  /\ busy' = TRUE
  /\ UNCHANGED <<gated, running, window, shown>>

FindNothing ==
  /\ running
  /\ queue = <<>>
  /\ Worker("test", "parking")
  /\ UNCHANGED <<gated, running, queue, busy, turn, window, shown>>

Park ==
  /\ Worker("parking", "asleep")
  /\ UNCHANGED <<gated, running, queue, busy, turn, window, shown>>

\* A condition variable may wake without a notification.
WakeSpuriously ==
  /\ Worker("asleep", "test")
  /\ UNCHANGED <<gated, running, queue, busy, turn, window, shown>>

ShowListening ==
  /\ Worker("begin", "stt")
  /\ shown' = "listening"
  /\ UNCHANGED <<gated, running, queue, busy, turn, window>>

\* mm_.acquire(model): on failure process() returns where it is.
Acquire(from, to) ==
  /\ \E next \in {to, "finish"} : Worker(from, next)
  /\ UNCHANGED <<gated, running, queue, busy, turn, window, shown>>

AcquireStt == Acquire("stt", "transcribe")
AcquireLlm == Acquire("llm", "generate")

\* The answer of the STT worker: noise (isJunk, and the empty line of a
\* worker that died) or text.
HearJunk ==
  /\ Worker("transcribe", "finish")
  /\ shown' = "idle"
  /\ UNCHANGED <<gated, running, queue, busy, turn, window>>

HearText ==
  /\ Worker("transcribe", "llm")
  /\ shown' = "thinking"
  /\ UNCHANGED <<gated, running, queue, busy, turn, window>>

Generate ==
  /\ Worker("generate", "tts")
  /\ shown' = "speaking"
  /\ UNCHANGED <<gated, running, queue, busy, turn, window>>

\* Speech needs the model and a reply that is not empty.
AcquireTts == Acquire("tts", "speak")

\* readLine returns: "RPL done", or end of file from a worker that died.
SpeechDone ==
  /\ Worker("speak", "finish")
  /\ UNCHANGED <<gated, running, queue, busy, turn, window, shown>>

Finish ==
  /\ Worker("finish", "after")
  /\ busy' = FALSE
  /\ turn' = None
  /\ UNCHANGED <<gated, running, queue, window, shown>>

\* Mutant: the else branch after a turn is missing.
AfterUngatedSilent ==
  /\ ~gated
  /\ Worker("after", "top")
  /\ UNCHANGED <<gated, running, queue, busy, turn, window, shown>>

AfterUngated ==
  /\ ~gated
  /\ Worker("after", "top")
  /\ shown' = "idle"
  /\ UNCHANGED <<gated, running, queue, busy, turn, window>>

FollowUpDeadline ==
  /\ gated
  /\ Worker("after", "rearm")
  /\ SetDeadline(FollowUp)
  /\ UNCHANGED <<gated, running, queue, busy, turn, shown>>

FollowUpArmed ==
  /\ Worker("rearm", "reshow")
  /\ SetArmed
  /\ UNCHANGED <<gated, running, queue, busy, turn, shown>>

FollowUpShown ==
  /\ Worker("reshow", "top")
  /\ shown' = "listening"
  /\ UNCHANGED <<gated, running, queue, busy, turn, window>>

WorkerStep ==
  \/ LoopTest \/ WaitStopped \/ TakeUtterance \/ FindNothing \/ Park
  \/ ShowListening \/ AcquireStt \/ HearJunk \/ HearText \/ AcquireLlm
  \/ Generate \/ AcquireTts \/ SpeechDone \/ Finish
  \/ AfterUngated \/ FollowUpDeadline \/ FollowUpArmed \/ FollowUpShown

(***************************************************************************)
(* The watchdog thread.                                                    *)
(***************************************************************************)
Dog(from, to) == dog = from /\ dog' = to /\ UNCHANGED <<worker, caller, offer, stopper>>

DogTop ==
  /\ Dog("top", IF running THEN "sleep" ELSE "done")
  /\ UNCHANGED <<gated, running, queue, busy, turn, window, shown>>

\* The test of the loop reads armed_, busy_ and the deadline, in that order.
DogArmed ==
  /\ Dog("sleep", IF gated /\ armed THEN "armed" ELSE "top")
  /\ UNCHANGED <<gated, running, queue, busy, turn, window, shown>>

DogIdle ==
  /\ Dog("armed", IF busy THEN "top" ELSE "idle")
  /\ UNCHANGED <<gated, running, queue, busy, turn, window, shown>>

\* Mutant: the deadline is compared the other way round.
DogRunsStill ==
  /\ Dog("idle", IF left > 0 THEN "relock" ELSE "top")
  /\ UNCHANGED <<gated, running, queue, busy, turn, window, shown>>

DogExpired ==
  /\ Dog("idle", IF left = 0 THEN "relock" ELSE "top")
  /\ UNCHANGED <<gated, running, queue, busy, turn, window, shown>>

\* The store is a step of its own: nothing holds the condition just tested.
Relock ==
  /\ Dog("relock", "relocked")
  /\ armed' = FALSE
  /\ UNCHANGED <<gated, running, queue, busy, turn, left, opened, shown>>

ShowRelocked ==
  /\ Dog("relocked", "top")
  /\ shown' = "idle"
  /\ UNCHANGED <<gated, running, queue, busy, turn, window>>

DogStep == DogTop \/ DogArmed \/ DogIdle \/ DogExpired \/ Relock \/ ShowRelocked

(***************************************************************************)
(* The callers. offer[c] = None while a caller only opens a window or      *)
(* reports speech; ptt_stop opens a window and then offers its clip.       *)
(***************************************************************************)
Caller(c, from, to) ==
  /\ caller[c] = from
  /\ caller' = [caller EXCEPT ![c] = to]
  /\ UNCHANGED <<worker, dog, stopper>>

\* arm(), and arm() followed by onUtterance(u) as in ptt_stop.
Arm(c) ==
  /\ Caller(c, "rest", "arm")
  /\ \E u \in Utterances \cup {None} : offer' = [offer EXCEPT ![c] = u]
  /\ SetDeadline(WakeWindow)
  /\ UNCHANGED <<gated, running, queue, busy, turn, shown>>

ArmFlag(c) ==
  /\ Caller(c, "arm", "armed")
  /\ SetArmed
  /\ UNCHANGED <<gated, running, queue, busy, turn, shown, offer>>

\* What a caller does after arm() or onSpeechStart(): its utterance, if any.
AfterShow(c) == IF offer[c] = None THEN "rest" ELSE "ask"

ArmTest(c) ==
  /\ Caller(c, "armed", IF busy THEN AfterShow(c) ELSE "show")
  /\ UNCHANGED <<gated, running, queue, busy, turn, window, shown, offer>>

CallerShow(c) ==
  /\ Caller(c, "show", AfterShow(c))
  /\ shown' = "listening"
  /\ UNCHANGED <<gated, running, queue, busy, turn, window, offer>>

OnSpeechStart(c) ==
  /\ ~busy
  /\ Caller(c, "rest", "ask")
  /\ UNCHANGED <<gated, running, queue, busy, turn, window, shown, offer>>

\* The VAD hands over a finished utterance.
OnUtterance(c) ==
  /\ Caller(c, "rest", "ask")
  /\ \E u \in Utterances : offer' = [offer EXCEPT ![c] = u]
  /\ UNCHANGED <<gated, running, queue, busy, turn, window, shown>>

\* What armedNow() decides for onSpeechStart and onUtterance.
Refuse(c, from) ==
  /\ Caller(c, from, "rest")
  /\ offer' = [offer EXCEPT ![c] = None]

\* Mutant: the buffer is moved out before it is pushed.
AdmitMovedOut(c, from) ==
  /\ Caller(c, from, IF offer[c] = None THEN "show" ELSE "push")
  /\ offer' = [offer EXCEPT ![c] = None]

Admit(c, from) ==
  /\ Caller(c, from, IF offer[c] = None THEN "show" ELSE "push")
  /\ UNCHANGED offer

\* Mutant: a window that was never opened counts as one without a deadline.
AskArmedUnarmed(c) ==
  /\ IF gated /\ armed
     THEN Caller(c, "ask", "asked") /\ UNCHANGED offer
     ELSE Admit(c, "ask")
  /\ UNCHANGED <<gated, running, queue, busy, turn, window, shown>>

\* armedNow() reads armed_ and then the deadline; without gating every moment
\* is inside the window.
AskArmed(c) ==
  /\ \/ ~gated /\ Admit(c, "ask")
     \/ gated /\ armed /\ Caller(c, "ask", "asked") /\ UNCHANGED offer
     \/ gated /\ ~armed /\ Refuse(c, "ask")
  /\ UNCHANGED <<gated, running, queue, busy, turn, window, shown>>

AskDeadline(c) ==
  /\ \/ left > 0 /\ Admit(c, "asked")
     \/ left = 0 /\ Refuse(c, "asked")
  /\ UNCHANGED <<gated, running, queue, busy, turn, window, shown>>

\* Mutant: only the queue's size is tested under the mutex.
FullIgnoresTurn == Len(queue) > QueueLimit

Full == busy \/ Len(queue) > QueueLimit

\* Mutant: the push is not followed by notify_one.
PushSilently(c) ==
  /\ LockFree
  /\ ~Full
  /\ Caller(c, "push", "rest")
  /\ queue' = Append(queue, offer[c])
  /\ offer' = [offer EXCEPT ![c] = None]
  /\ UNCHANGED <<gated, running, busy, turn, window, shown>>

Push(c) ==
  /\ LockFree
  /\ ~Full
  /\ Caller(c, "push", "notify")
  /\ queue' = Append(queue, offer[c])
  /\ offer' = [offer EXCEPT ![c] = None]
  /\ UNCHANGED <<gated, running, busy, turn, window, shown>>

Drop(c) ==
  /\ LockFree
  /\ Full
  /\ Caller(c, "push", "rest")
  /\ offer' = [offer EXCEPT ![c] = None]
  /\ UNCHANGED <<gated, running, queue, busy, turn, window, shown>>

\* A notification reaches the worker only while it sleeps.
Notified == IF worker = "asleep" THEN "test" ELSE worker

Notify(c) ==
  /\ caller[c] = "notify"
  /\ caller' = [caller EXCEPT ![c] = "rest"]
  /\ worker' = Notified
  /\ UNCHANGED <<gated, running, queue, busy, turn, window, shown, dog, offer, stopper>>

\* ptt_stop with too short a clip: setState("idle"), whatever happens.
SetIdle(c) ==
  /\ caller[c] = "rest"
  /\ shown' = "idle"
  /\ UNCHANGED <<gated, running, queue, busy, turn, window, threads>>

CallerProceeds(c) ==
  \/ ArmFlag(c) \/ ArmTest(c) \/ CallerShow(c)
  \/ AskArmed(c) \/ AskDeadline(c) \/ Push(c) \/ Drop(c) \/ Notify(c)

CallerStep(c) ==
  \/ Arm(c) \/ OnSpeechStart(c) \/ OnUtterance(c) \/ SetIdle(c)
  \/ CallerProceeds(c)

(***************************************************************************)
(* stop(): the flag, the notification, the joins. None of it takes m_.     *)
(***************************************************************************)
Stopper(from, to) == stopper = from /\ stopper' = to /\ UNCHANGED <<dog, caller, offer>>

StopFlag ==
  /\ Stopper("up", "flagged")
  /\ running' = FALSE
  /\ UNCHANGED <<gated, queue, busy, turn, window, shown, worker>>

\* Mutant: stop() lowers the flag and joins without a notification.
StopSilently ==
  /\ Stopper("flagged", "joining")
  /\ UNCHANGED <<gated, running, queue, busy, turn, window, shown, worker>>

StopNotify ==
  /\ Stopper("flagged", "joining")
  /\ worker' = Notified
  /\ UNCHANGED <<gated, running, queue, busy, turn, window, shown>>

StopJoin ==
  /\ worker = "done"
  /\ dog = "done"
  /\ Stopper("joining", "stopped")
  /\ UNCHANGED <<gated, running, queue, busy, turn, window, shown, worker>>

StopProceeds == StopNotify \/ StopJoin

Next ==
  \/ Tick
  \/ WorkerStep
  \/ WakeSpuriously
  \/ DogStep
  \/ \E c \in Callers : CallerStep(c)
  \/ StopFlag
  \/ StopProceeds

SafeSpec == Init /\ [][Next]_vars

\* Time passes; the threads are scheduled; the model workers answer (or die,
\* which ends readLine). Nobody has to call, nobody has to stop, and nothing
\* promises a spurious wake-up.
Fairness ==
  /\ WF_vars(Tick)
  /\ WF_vars(WorkerStep)
  /\ WF_vars(DogStep)
  /\ \A c \in Callers : WF_vars(CallerProceeds(c))
  /\ WF_vars(StopProceeds)

Spec == SafeSpec /\ Fairness

(***************************************************************************)
(* Properties.                                                             *)
(***************************************************************************)
WorkerPlaces ==
  {"top", "test", "parking", "asleep", "after", "rearm", "reshow", "done"} \cup InTurn
DogPlaces == {"top", "sleep", "armed", "idle", "relock", "relocked", "done"}
CallerPlaces == {"rest", "arm", "armed", "show", "ask", "asked", "push", "notify"}
StopperPlaces == {"up", "flagged", "joining", "stopped"}

\* The type of every variable.
TypeOK ==
  /\ gated \in BOOLEAN
  /\ running \in BOOLEAN
  /\ stopper \in StopperPlaces
  /\ queue \in Seq(Utterances)
  /\ busy \in BOOLEAN
  /\ turn \in Utterances \cup {None}
  /\ armed \in BOOLEAN
  /\ left \in 0..Longest
  /\ opened \in BOOLEAN
  /\ shown \in States
  /\ worker \in WorkerPlaces
  /\ dog \in DogPlaces
  /\ caller \in [Callers -> CallerPlaces]
  /\ offer \in [Callers -> Utterances \cup {None}]

\* onUtterance tests busy_ and the queue's size under the mutex under which
\* loop() pops and sets busy_. So a turn has at most QueueLimit utterances
\* behind it, although the queue itself may hold one more.
BacklogBounded ==
  /\ Len(queue) <= QueueLimit + 1
  /\ turn # None => Len(queue) <= QueueLimit

\* pipeline.h:39: when gated, speech is ignored until a window has been
\* opened; the follow-up window of loop() cannot be what opens the first.
GateHolds ==
  gated /\ ~opened =>
    /\ queue = <<>>
    /\ turn = None
    /\ \A c \in Callers : caller[c] # "push"

\* However arm, onSpeechStart, ptt_stop and the watchdog race the turn for
\* the display, no early return of process() leaves the kiosk "thinking" or
\* "speaking" once the turn has been wound up.
FaceMatchesTurn ==
  shown \in {"thinking", "speaking"} => worker \in InTurn \cup {"after", "rearm", "reshow"}

\* The pipeline answers utterances in the order it took them, each of them
\* once, none while another is being answered, and every one it took unless
\* it is stopped.
Service == INSTANCE TurnService WITH
             Nothing <- None, Backlog <- QueueLimit + 1,
             waiting <- queue, serving <- turn, open <- running
ServiceSpec == Service!Spec

\* The same without the promise of progress, for the proof.
ServiceSafeSpec == Service!SafeSpec

\* An expired window does not stay open: the watchdog closes it unless a
\* turn begins, the window is opened anew or the pipeline stops.
WindowCloses ==
  (gated /\ armed /\ left = 0) ~> (~armed \/ left > 0 \/ busy \/ ~running)

\* stop() returns with both threads gone, provided the flag was not lowered
\* in the instant between the worker's test of it and its going to sleep:
\* stop() does not take m_, so in that instant the notification is lost.
StopReturns ==
  (stopper = "flagged" /\ worker # "parking") ~> (stopper = "stopped")

\* Some thread is between the two stores of armWindow.
Opening == worker = "rearm" \/ \E c \in Callers : caller[c] = "arm"

\* pipeline.h:82: the watchdog relocks when a listening window expires. It
\* may not take back a window that armWindow has opened and that still runs.
RelockOnlyExpired ==
  [][armed /\ ~armed' => left = 0 \/ Opening]_vars
=============================================================================
