------------------------------ MODULE Hotword ------------------------------
(***************************************************************************)
(* The wake word: the capture thread feeds the microphone into the pipe   *)
(* of hotword_worker.py, the worker prints what it detects, a reader      *)
(* thread of the orchestrator filters it by the active avatar, and the    *)
(* main thread stops them all (src/main.cpp, include/subprocess.h).        *)
(*                                                                         *)
(* Audio is counted in units of a fixed length. The units meant for the   *)
(* worker are numbered. A read of the card is smaller than what a pipe    *)
(* takes in one piece, so write() takes all of it or waits. A broadcast   *)
(* ends (IpcServer), so it is part of the step that makes it.              *)
(***************************************************************************)
EXTENDS Integers, Sequences, FiniteSets, SequencesExt

CONSTANTS Keys,         \* the wake words that are loaded
          Names,        \* the names set_avatar may store
          Anyone,       \* activeWake = "": every wake word counts
          Chunk,        \* units in the 1280 samples of a prediction
          Sizes,        \* units a read may bring
          InRoom,       \* units the pipe to the worker holds
          OutRoom,      \* lines the pipe from the worker holds
          Refractory,   \* HOTWORD_REFRACTORY, in ticks
          ScoreEvery,   \* ticks between two SCORE lines
          MaxUnits,     \* bound: units meant for the worker
          MaxTicks,     \* bound: ticks of the clock
          MaxChanges    \* bound: changes of the avatar and of the button

ASSUME KeysAssumption == Anyone \notin Keys \cup Names /\ IsFiniteSet(Keys)
\* As long as no chunk is together, a frame fits.
ASSUME AudioAssumption ==
  /\ Chunk \in Nat \ {0}
  /\ InRoom \in Nat /\ InRoom >= Chunk
  /\ Sizes \subseteq 1..(InRoom - Chunk + 1)
  /\ OutRoom \in Nat \ {0}
ASSUME TimeAssumption ==
  {Refractory, ScoreEvery, MaxUnits, MaxTicks, MaxChanges} \subseteq Nat

VARIABLES main,         \* what the main thread does
          run,          \* g_run
          gated,        \* the worker was READY
          capture,      \* where the capture thread is
          frame,        \* the units in its hand
          fed,          \* units meant for the worker so far
          held,         \* pttActive
          inp,          \* the pipe to the worker
          worker,       \* where the worker is
          chunk,        \* pcm, the chunk in its hand
          heard,        \* history: the last unit predict() was given
          lines,        \* the lines it is about to print
          lastFire,     \* last_fire
          lastScore,    \* last_score
          fired,        \* history: the times at which each key fired
          out,          \* the pipe from the worker
          reader,       \* where the reader thread is
          line,         \* the line in its hand
          active,       \* activeWake
          clock,        \* time.monotonic()
          changes       \* changes so far

audio == <<capture, frame, fed>>
detector == <<lastFire, lastScore, heard, fired>>
listener == <<worker, chunk, lines, detector>>
reading == <<reader, line>>
control == <<main, run, gated>>
world == <<active, held, clock, changes>>
vars == <<control, audio, inp, listener, out, reading, world>>

\* A line remembers the values activeWake has had since it was printed.
LineOf(tag, key) == [tag |-> tag, key |-> key, since |-> {}]
Ready == LineOf("READY", Anyone)
Score == LineOf("SCORE", Anyone)
Wake(k) == LineOf("WAKE", k)

Init ==
  /\ main = "start" /\ run = TRUE /\ gated = FALSE
  /\ capture = "off" /\ frame = <<>> /\ fed = 0 /\ inp = <<>>
  /\ worker = "load" /\ chunk = <<>> /\ lines = <<>> /\ heard = 0
  /\ lastFire = [k \in Keys |-> 0] /\ lastScore = 0 /\ fired = [k \in Keys |-> <<>>]
  /\ out = <<>> /\ reader = "off" /\ line = Score
  /\ active = Anyone /\ held = FALSE /\ changes = 0
  /\ clock = 0                     \* of a machine that has just started

(***************************************************************************)
(* hotword_worker.py                                                       *)
(***************************************************************************)
WorkerLoads ==
  /\ worker = "load"
  /\ worker' = "print"
  /\ lines' = <<Ready>>
  /\ UNCHANGED <<inp, chunk, detector, out>>

\* Mutant: the last unit of a chunk stays in buf and is used again.
ReadChunkAgain ==
  /\ worker = "read" /\ Len(inp) >= Chunk
  /\ worker' = "predict"
  /\ chunk' = SubSeq(inp, 1, Chunk)
  /\ inp' = SubSeq(inp, Chunk, Len(inp))
  /\ UNCHANGED <<lines, detector, out>>

\* read(BYTES - len(buf)) returns when it has a chunk together.
ReadChunk ==
  /\ worker = "read" /\ Len(inp) >= Chunk
  /\ worker' = "predict"
  /\ chunk' = SubSeq(inp, 1, Chunk)
  /\ inp' = SubSeq(inp, Chunk + 1, Len(inp))
  /\ UNCHANGED <<lines, detector, out>>

\* The keys that fire, of those that score above the threshold.
Due(above) == {k \in above : clock - lastFire[k] >= Refractory}
ScoreDue == clock - lastScore >= ScoreEvery

\* The chunk is used up; a score now and then, and a line for every key
\* that fires.
Report(keys) ==
  /\ worker = "predict"
  /\ heard' = Last(chunk)
  /\ chunk' = <<>>
  /\ lines' = (IF ScoreDue THEN <<Score>> ELSE <<>>)
              \o SetToSeq({Wake(k) : k \in keys})
  /\ lastScore' = IF ScoreDue THEN clock ELSE lastScore
  /\ fired' = [k \in Keys |-> IF k \in keys THEN Append(fired[k], clock) ELSE fired[k]]
  /\ worker' = IF lines' = <<>> THEN "read" ELSE "print"
  /\ UNCHANGED <<inp, out>>

\* Mutant: the time is noted only when a single key fires.
PredictForgets ==
  \E above \in SUBSET Keys :
    /\ Report(Due(above))
    /\ lastFire' = [k \in Keys |-> IF Due(above) = {k} THEN clock ELSE lastFire[k]]

Predict ==
  \E above \in SUBSET Keys :
    /\ Report(Due(above))
    /\ lastFire' = [k \in Keys |-> IF k \in Due(above) THEN clock ELSE lastFire[k]]

\* An exception of the model is logged, the chunk is skipped.
PredictFails ==
  /\ worker = "predict"
  /\ worker' = "read"
  /\ heard' = Last(chunk)
  /\ chunk' = <<>>
  /\ UNCHANGED <<inp, lines, lastFire, lastScore, fired, out>>

PrintLine ==
  /\ worker = "print" /\ main # "crashed"
  /\ Len(out) < OutRoom
  /\ out' = Append(out, [Head(lines) EXCEPT !.since = {active}])
  /\ lines' = Tail(lines)
  /\ worker' = IF lines' = <<>> THEN "read" ELSE "print"
  /\ UNCHANGED <<inp, chunk, detector>>

Exits ==
  /\ worker' = "exited"
  /\ inp' = <<>> /\ chunk' = <<>> /\ lines' = <<>>
  /\ UNCHANGED detector

\* The orchestrator is gone: end of file, or nobody to print for.
SeeEnd ==
  /\ main = "crashed"
  /\ worker = "print" \/ (worker = "read" /\ Len(inp) < Chunk)
  /\ Exits
  /\ UNCHANGED out

WorkerDies ==
  /\ worker # "exited"
  /\ Exits
  /\ UNCHANGED <<control, audio, out, reading, world>>

WorkerStep ==
  /\ WorkerLoads \/ ReadChunk \/ Predict \/ PredictFails \/ PrintLine \/ SeeEnd
  /\ UNCHANGED <<control, audio, reading, world>>

(***************************************************************************)
(* The capture thread.                                                     *)
(***************************************************************************)
CaptureTest ==
  /\ capture = "test"
  /\ capture' = IF run THEN "read" ELSE "ended"
  /\ UNCHANGED <<frame, fed, inp>>

\* The card has nothing or an error, or the frame is only for the clip of a
\* press or, without a hotword worker, for the VAD.
ReadAside ==
  /\ capture = "read"
  /\ capture' = "test"
  /\ UNCHANGED <<frame, fed, inp>>

ReadFree ==
  /\ capture = "read" /\ ~held /\ gated
  /\ capture' = "feed"
  /\ \E n \in Sizes :
       /\ fed + n <= MaxUnits
       /\ fed' = fed + n
       /\ frame' = [i \in 1..n |-> fed + i]
  /\ UNCHANGED inp

Fits == Len(inp) + Len(frame) <= InRoom
Fed == capture = "feed" /\ capture' = "test" /\ frame' = <<>> /\ UNCHANGED fed

\* Mutant: writeRaw tries again when the worker is gone.
FeedStubborn == Fed /\ worker # "exited" /\ Fits /\ inp' = inp \o frame

\* Mutant: the pipe takes everything at once.
FeedEndless == Fed /\ inp' = IF worker = "exited" THEN inp ELSE inp \o frame

\* writeRaw waits for room, and gives up when the worker is gone.
Feed ==
  /\ Fed
  /\ IF worker = "exited" THEN UNCHANGED inp ELSE Fits /\ inp' = inp \o frame

CaptureStep ==
  /\ CaptureTest \/ ReadAside \/ ReadFree \/ Feed
  /\ UNCHANGED <<control, listener, out, reading, world>>

(***************************************************************************)
(* The reader thread.                                                      *)
(***************************************************************************)
\* while (g_run && hwProc.alive())
ReaderTest ==
  /\ reader = "test"
  /\ reader' = IF run /\ worker # "exited" THEN "read" ELSE "ended"
  /\ UNCHANGED <<out, line>>

\* A score is passed on to the socket clients.
ReaderTakes ==
  /\ reader = "read" /\ out # <<>>
  /\ IF Head(out).tag = "WAKE"
     THEN reader' = "match" /\ line' = Head(out)
     ELSE reader' = "test" /\ UNCHANGED line
  /\ out' = Tail(out)

\* An empty line, which only the end of the file is.
ReaderSeesEnd ==
  /\ reader = "read" /\ out = <<>> /\ worker = "exited"
  /\ reader' = "ended"
  /\ UNCHANGED <<out, line>>

\* Mutant: the wake word of any loaded avatar opens the window.
MatchAny ==
  /\ reader = "match"
  /\ reader' = "onwake"
  /\ UNCHANGED <<out, line>>

\* The filter by the active avatar.
Match ==
  /\ reader = "match"
  /\ reader' = IF active \in {Anyone, line.key} THEN "onwake" ELSE "test"
  /\ line' = IF reader' = "test" THEN Score ELSE line
  /\ UNCHANGED out

\* The window is opened: Pipeline.
OnWake ==
  /\ reader = "onwake"
  /\ reader' = "test"
  /\ line' = Score
  /\ UNCHANGED out

ReaderStep ==
  /\ ReaderTest \/ ReaderTakes \/ ReaderSeesEnd \/ Match \/ OnWake
  /\ UNCHANGED <<control, audio, inp, listener, world>>

(***************************************************************************)
(* The main thread.                                                        *)
(***************************************************************************)
\* Whether the sound card can be opened.
CaptureStarts == capture' \in {"test", "off"} /\ UNCHANGED <<frame, fed>>

StartGated ==
  /\ main = "start" /\ out # <<>>
  /\ main' = "run"
  /\ gated' = TRUE
  /\ out' = Tail(out)
  /\ reader' = "test"
  /\ CaptureStarts
  /\ UNCHANGED <<run, inp, listener, line>>

\* Without the worker the VAD is always on.
StartUngated ==
  /\ main = "start" /\ out = <<>> /\ worker = "exited"
  /\ main' = "run"
  /\ CaptureStarts
  /\ UNCHANGED <<run, gated, inp, listener, out, reading>>

JoinCapture ==
  /\ main = "run" /\ ~run
  /\ capture \in {"ended", "off"}
  /\ main' = "kill"
  /\ UNCHANGED <<run, gated, audio, inp, listener, out, reading>>

Kill ==
  /\ main = "kill"
  /\ main' = "close"
  /\ Exits
  /\ UNCHANGED <<run, gated, audio, out, reading>>

\* fclose waits for a getline in progress.
CloseFile ==
  /\ main = "close" /\ reader # "read"
  /\ main' = "join"
  /\ out' = <<>>
  /\ UNCHANGED <<run, gated, audio, inp, listener, reading>>

JoinReader ==
  /\ main = "join"
  /\ reader \in {"ended", "off"}
  /\ main' = "stopped"
  /\ UNCHANGED <<run, gated, audio, inp, listener, out, reading>>

MainStep ==
  /\ StartGated \/ StartUngated \/ JoinCapture \/ Kill \/ CloseFile \/ JoinReader
  /\ UNCHANGED world

Signal ==
  /\ run
  /\ run' = FALSE
  /\ UNCHANGED <<main, gated, audio, inp, listener, out, reading, world>>

\* The whole orchestrator dies, all its threads with it.
Crash ==
  /\ main \notin {"stopped", "crashed"}
  /\ main' = "crashed"
  /\ run' = FALSE
  /\ capture' = "ended" /\ reader' = "ended"
  /\ frame' = <<>> /\ out' = <<>> /\ line' = Score
  /\ UNCHANGED <<gated, fed, inp, listener, world>>

(***************************************************************************)
(* The world: time, the active avatar, the button.                         *)
(***************************************************************************)
Change ==
  /\ main = "run"
  /\ changes < MaxChanges
  /\ changes' = changes + 1
  /\ UNCHANGED <<control, audio, inp, listener, reader, clock>>

Since(l, n) == [l EXCEPT !.since = @ \cup {n}]

\* No name, or an empty one, is for any avatar.
SetAvatar(n) ==
  /\ Change
  /\ active' = n
  /\ out' = [i \in DOMAIN out |-> Since(out[i], n)]
  /\ line' = IF reader = "match" THEN Since(line, n) ELSE line
  /\ UNCHANGED held

PressOrRelease ==
  /\ Change
  /\ held' = ~held
  /\ UNCHANGED <<out, line, active>>

Tick ==
  /\ clock < MaxTicks
  /\ clock' = clock + 1
  /\ UNCHANGED <<control, audio, inp, listener, out, reading, active, held, changes>>

Next ==
  \/ WorkerStep \/ WorkerDies
  \/ CaptureStep
  \/ ReaderStep
  \/ MainStep \/ Signal \/ Crash
  \/ \E n \in (Names \cup {Anyone}) \ {active} : SetAvatar(n)
  \/ PressOrRelease \/ Tick

\* Threads and processes are scheduled.
Spec ==
  /\ Init
  /\ [][Next]_vars
  /\ WF_vars(WorkerStep)
  /\ WF_vars(CaptureStep)
  /\ WF_vars(ReaderStep)
  /\ WF_vars(MainStep)

(***************************************************************************)
(* Properties.                                                             *)
(***************************************************************************)
LineType ==
  [tag : {"READY", "SCORE", "WAKE"}, key : Keys \cup {Anyone}, since : SUBSET (Names \cup {Anyone})]

Flags == run \in BOOLEAN /\ gated \in BOOLEAN /\ held \in BOOLEAN

Places ==
  /\ main \in {"start", "run", "kill", "close", "join", "stopped", "crashed"}
  /\ capture \in {"off", "test", "read", "feed", "ended"}
  /\ worker \in {"load", "print", "read", "predict", "exited"}
  /\ reader \in {"off", "test", "read", "match", "onwake", "ended"}

Units ==
  /\ frame \in Seq(1..MaxUnits) /\ inp \in Seq(1..MaxUnits) /\ chunk \in Seq(1..MaxUnits)
  /\ fed \in 0..MaxUnits /\ heard \in 0..MaxUnits
  /\ Len(inp) <= InRoom

Times ==
  /\ clock \in 0..MaxTicks
  /\ lastFire \in [Keys -> Nat] /\ lastScore \in Nat
  /\ fired \in [Keys -> Seq(Nat)]
  /\ changes \in 0..MaxChanges

Printed ==
  /\ lines \in Seq(LineType) /\ out \in Seq(LineType) /\ line \in LineType
  /\ Len(out) <= OutRoom
  /\ active \in Names \cup {Anyone}

\* The type of every variable; no pipe holds more than it can.
TypeOK == Flags /\ Places /\ Units /\ Times /\ Printed

\* While the worker lives, what its model is given to hear is what the
\* microphone brought outside of presses, without a gap and without a
\* repetition, in whatever pieces the card, the pipe and the worker hand it
\* on, and however far they lag.
HeardInOrder ==
  worker # "exited" =>
    LET ahead == chunk \o inp \o frame IN
    /\ \A i \in DOMAIN ahead : ahead[i] = heard + i
    /\ main # "crashed" => heard + Len(ahead) = fed

\* The same wake word does not fire twice within the refractory time, not
\* even in one tick; the other one may at any moment.
WakesSpaced ==
  \A k \in Keys : \A i, j \in DOMAIN fired[k] :
    i < j => fired[k][j] - fired[k][i] >= Refractory

\* "The orchestrator filters by the active avatar" (hotword_worker.py:12): a
\* wake word opens the window only for an avatar that has been active since
\* it was detected, although detections wait in a pipe while avatars change.
WokenByActive ==
  reader = "onwake" => line.since \cap {Anyone, line.key} # {}

\* The reader has left, nobody reads the worker's lines, so the worker does
\* not read the audio, so the capture thread does not get rid of its frame.
Jammed ==
  /\ reader = "ended"
  /\ worker = "print" /\ Len(out) = OutRoom
  /\ capture = "feed" /\ ~Fits

\* A shutdown comes to its end and leaves no worker behind, and so does a
\* crash of the orchestrator, unless the two pipes are full: main() joins the
\* capture thread before it kills the worker the capture thread waits for.
EndsClean ==
  ~run ~> \/ main \in {"stopped", "crashed"} /\ worker = "exited"
          \/ Jammed
=============================================================================
