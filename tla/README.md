# The voice orchestrator in TLA+

This directory is a verification development of the on-device voice avatar: the
daemon `avatar-voice` (C++), its model workers, the web bridge for
push-to-talk, and the server on which a voice is tuned. It holds TLA+ modules translated from the source, TLC
configurations that check them on small instances, and TLAPS proofs of the
properties that matter most for instances of any size.

Everything is run inside this directory:

    tlc -workers 2 -config Pipeline.cfg MCPipeline
    tlapm PipelineProofs.tla

Paths below are relative to `src/avatar-voice/` unless they say otherwise.

## 1. The system

### Components, their state and their operations

| Component | State it keeps | Operations | What makes it correct |
|---|---|---|---|
| Voice pipeline, `include/pipeline.h` | `q_` and `busy_` (under `m_`, `busy_` also without), the window `armed_`/`armedUntil_`, `gated_`, `running_`, the displayed state | `arm`, `onWake`, `onSpeechStart`, `onUtterance`, `setState`, `start`, `stop`; the threads `loop`/`process` and `watchdog` | one turn at a time and in order, a bounded backlog, no speech taken before a window was opened, windows that close, a display that follows the turn, a `stop` that returns |
| Model manager, `include/model_manager.h` | state and `lastUsed` of each model, under `mtx_` | `acquire` (evict, load), `touch`, the reaper, `stop` | pinned models stay, eviction by age, the budget, one load at a time, idle models leave |
| Subprocess and workers, `include/subprocess.h`, `src/stt_worker.cpp`, `src/llm_worker.cpp`, `neutts_worker.py` | `pid_`, `wfd_`, `rf_`; lines in two pipes; the file `/tmp/avatar_utt.f32` | `start`, `writeLine`, `readLine`, `kill`; a request, an answer | answers belong to the requests they are taken for, no process is lost sight of, a turn ends |
| IPC server, `include/ipc_server.h` | `clients_` and `snapshot_` under `mtx_`, descriptor numbers in the kernel and in each client's thread | accept and replay, receive, `broadcast`, `stop` | a client sees the current captions and then every line, a broadcast ends |
| Command handler and capture thread, `src/main.cpp` | `pttActive`, `pttBuf`, `activeWake`, `g_run` | `ptt_start`, `ptt_stop`, `set_avatar`, `ping`; one frame of audio to the clip or to the VAD | a clip is the audio of one press |
| Push-to-talk bridge, `ptt_bridge.py` | its socket, the status mirror; `down` in each page | `/ptt/start`, `/ptt/stop`, the reader thread | a press is followed by its release |
| Voice activity detector, `include/vad.h` | `inSpeech_`, `silentMs_`, `buf_` | `push` | utterances are the right pieces of the stream |
| Hotword worker and its reader, `hotword_worker.py`, `src/main.cpp:120-163, 229-257` | `last_fire` per key; two pipes; `activeWake`, `g_run` | `predict`, print, `writeRaw` from the capture thread, the filter by avatar, `set_avatar`, the shutdown | the detector hears the stream without gaps, wake words are spaced and for the active avatar, a shutdown ends |
| Speech workers, `neutts_worker.py`, `f5_worker.py` | the engine, a reply in chunks, a player process, the sound card | load, warm up, `READY`, the loop of commands, `speak`, `synth`, `write_play`, `convert_char_to_pinyin` | an answer when the reply has been heard, one per request and in order, a text spelled out |
| Reader and status of the bridge, `ptt_bridge.py:17-46` | `state`, `_sock`, a buffer of bytes | `reader`, `status`, the page's `poll` | a page never goes back to an older caption, and catches up |
| Tuning server, `neutts_server.py` | `state["ready"]`, `_lock`; a page's button, status line and player | `load`, `do_synth`, `health`, the page's `go` and `poll` | one inference at a time, a page plays what was asked last, its button comes back |
| Kiosk, `src/avatar-cpp/avatar_ui.cpp` | captions `g_subs` | the socket thread | as for the bridge's reader |

`PROJECT.json` lists every component, those left aside too (section 7).

### How they interact

The capture thread calls the VAD, and the VAD calls the pipeline
(`onSpeechStart`, `onUtterance`) from the capture thread. The reader of the
hotword worker calls `onWake`. A thread per socket client runs the command
handler, which calls `arm`, `onUtterance` and `setState`. The pipeline's worker
calls `acquire`, talks to worker processes through pipes, and reports every
change of state, which is a broadcast to all clients made by the calling
thread. A detached thread warms the three models up at the start and competes
with the first turns for the model manager's mutex, held for loads of up to
90 s. The main thread sleeps until a signal and then stops everything, one
thread or process after the other. Outside of the daemon, a worker that speaks
shares the sound card with the chime, and the bridge and the kiosk keep a copy
of the captions that they build again whenever the orchestrator restarts.

### What is hard

* Eight or more threads, four mutexes, and flags that are read outside of them:
  `pipeline.h:46,55,58,86`, `main.cpp:225`.
* Two stores that belong together: the deadline and the flag of `armWindow`.
* A condition variable whose `stop()` does not take the mutex.
* Blocking sends with the server's mutex held; descriptor numbers that outlive
  the connection they named.
* Processes that crash behind a state that says Ready; pipes in which nothing
  numbers the lines.
* Requests over HTTP on separate threads, with neither order nor retry.
* A ring of two bounded pipes between three threads: microphone, worker, reader.
* Lines cut at any byte, and a connection that ends in the middle of one.
* A page that is reloaded while its request goes on.

The full list, each item at its line and with the properties that cover it, is
`hazards` in `PROJECT.json`.

## 2. Modules

| Module | Models | State and actions |
|---|---|---|
| `TurnService` | what the pipeline promises: a FIFO service of one server and a bounded backlog | `waiting`, `serving`, `open`; `Accept`, `Begin`, `End`, `Close` |
| `Pipeline` | `pipeline.h` and the calls made into it | a step is one access to shared state. `worker`, `dog`, `caller`, `stopper` are program counters; `queue`, `busy`, `armed`, `left` (time to `armedUntil_`), `shown` are the members. `armWindow` is two actions (`SetDeadline`, then `SetArmed`); `armedNow()` is two (`AskArmed`, then `AskDeadline`), for `onSpeechStart` and `onUtterance` alike; `onUtterance` goes on with push and notify; the watchdog's test is three (`DogArmed`, `DogIdle`, `DogExpired`), then it stores and displays. `worker = "parking"` is the instant between the predicate of `cv_.wait` and the sleep, the only one in which `m_` is held across steps |
| `MCPipeline` | symmetry for the safety run | |
| `PipelineProofs` | proofs about `Pipeline` | |
| `ModelManager` | `model_manager.h` with the life of the processes behind the models | `acquire` is `AcquireReady`, or `AcquireUnloaded`, any number of `Evict`, `StartLoad`, then `LoadOk` or `LoadFailed`, all but the first with `holder` set, because the code holds the mutex throughout. `Reap` is one sweep. `WorkerDies` is the outside world |
| `MCModelManager` | four models of three kinds | |
| `ModelManagerProofs` | proofs about `ModelManager` | |
| `Turn` | `process()` and the warm-up against three worker processes | `proc` is the sequence of processes ever started, each with two pipes; `handle` is what a `Subprocess` refers to. Lines carry, as history, the turn that asked and the turn whose samples they go back to |
| `TurnProofs` | proofs about `Turn` | |
| `IpcServer`, `MCIpcServer` | `ipc_server.h` | `Replayed` is the loop over `snapshot_`, in the order of the map (`CachedOrder`); `table` is the kernel's descriptor table, `fd[k]` the number a client's thread remembers, `on[k]` the connection a blocked `recv` reads from. `stolen` remembers, connection by connection, whose number was taken for that of another (`Accept`, `Erase`, `Close`). A broadcast holds the mutex from `Broadcast` to `BroadcastEnd`, one `Send` or `SendFails` per client |
| `IpcServerProofs` | proofs about `IpcServer` | |
| `PushToTalk` | pages, requests, bridge, command handler, capture thread | `requests` and `wire` are what is on its way; a frame is known by the press it was read in. `mishap` remembers whether a request was lost or overtaken |
| `Vad` | `vad.h` | frames are told apart by loudness and length; the buffer holds the numbers of its frames. `Cuts(s)` is the definition the machine is compared with |
| `Hotword` | `hotword_worker.py`, the capture thread's `writeRaw`, the reader thread of `main.cpp`, `main` from start to exit | audio is counted in units that are numbered; `inp` and `out` are the two pipes, with their room; `capture`, `worker`, `reader`, `main` are program counters. A printed line carries, as history, the avatars that have been active since |
| `CaptureProofs` | proofs about `Hotword` and `Vad`, which the capture thread feeds | |
| `WorkerService` | what a speech worker promises: READY, then an answer for each request, in order | `phase`, `written`, `answered`; `Announce`, `Write`, `Answer`, `Leave` |
| `F5Text` | `convert_char_to_pinyin` of `f5_worker.py` | `Tokens(text)`, a fold over segments and characters, beside the definition of what it should be (`Spells`, `SetApart`) |
| `Speech`, `MCSpeech` | one process of either speech worker, its player and the sound card | `at` is where the worker is; `made`, `sent`, `played` follow the chunks of a reply through the pipe; `StartPlayer` to `Wait` are `speak` of NeuTTS, `Synth`, `Save`, `System` are F5's |
| `SpeechProofs` | proofs about `Speech` | |
| `Caption` | what a reader of captions may expect | `current`, `seen` |
| `Mirror`, `MCMirror` | the socket, the bridge's reader thread, `status` and the page's poll | a caption is a kind and a number, a line two pieces; `feed` is what was sent, `buf` the unfinished line, `state` the bridge's mirror, `answers` what is on its way to the page |
| `BridgeProofs` | proofs about `PushToTalk` and `Mirror`, the two directions of the bridge | |
| `Tuner` | `neutts_server.py` with its page | `request` says where each click's request is, `lock` who holds `_lock`, `asker` which page still waits; `Go`, `Hear`, `Break` (a connection that breaks, at any moment), `Reload` and the polls are the page |
| `TunerProofs` | proofs about `Tuner` | |

`PROJECT.json` maps every definition to the lines it translates. `Vad` and `Mirror`
prefix the names of their specifications (`VadSpec`, `MirrorSpec`), since a module
of proofs extends each together with another specification.

## 3. Runs

| Run | Instance | States | What it shows |
|---|---|---|---|
| `pipeline` | 2 callers, 2 utterances, limit 1, wake window 2 ticks, follow-up 1, gated and not; symmetry | 2.6 M | `TypeOK`, `BacklogBounded`, `GateHolds`, `FaceMatchesTurn`, and the safety of `TurnService` |
| `pipeline_live` | 1 caller, 1 utterance, no symmetry | 92 k | `ServiceSpec` (what is accepted is answered), `WindowCloses`, `StopReturns` |
| `pipeline_relock` | as above, gated | violation | the watchdog takes back a window that was just opened |
| `model_manager` | 2 clients; a pinned, a large, a small GPU model and one on the CPU; budget 3 | 121 k | the six properties of the manager |
| `turn` | 3 turns, 4 processes, beyond which fork fails | 233 k | `TypeOK`, `InStep`, `NoOrphans`, `TurnEnds` |
| `ipc` | 2 connections, 2 numbers, 2 cached types and one other, 2 values, 2 broadcasts | 1.46 M | `TypeOK`, `FeedContiguous`, `BroadcastCompletes` |
| `ptt` | 2 pages, 3 presses, requests lost and overtaken, 3 frames | 191 k | `TypeOK`, `ClipIsThePress`, `MicReleased` |
| `vad` | all streams of 6 frames, 3 levels, 2 lengths | 56 k | the cuts are those of a definition over the whole stream; every utterance is announced |
| `hotword` | 2 wake words, an avatar with one of them and any avatar (`""`), chunks of 2 units, pipes of 3 units and 1 line, 6 units, 4 ticks from the boot, 2 changes | 725 k | `TypeOK`, `HeardInOrder`, `WakesSpaced`, `WokenByActive`, `EndsClean` |
| `speech` | both engines, both modes, 2 lines, 2 chunks, room for 1; texts of up to 3 of 11 segments | 115 k | `AnsweredWhenPlayed`, `SpelledOut`, and the liveness and safety of `WorkerService` |
| `mirror` | 3 captions of a kind sent at every start, 1 of a kind that is replayed, 1 that is not; 2 lives of the orchestrator | 275 k | `NeverGoesBack` (it implements `Caption`), `CatchesUp` |
| `tuner` | 2 pages, 2 clicks, 1 reload, connections that break | 207 k | `EngineExclusive`, `PlaysWhatWasAsked`, `PageComesBack` |

**Bounds.** *Pipeline*: with two callers one can be between its test and its
push, or between its test of `busy_` and its display, while the other does
anything; two utterances tell order and repetition apart; limit 1 lets the queue
exceed the limit by one, which is where `>` against `>=` shows; a wake window
longer than the follow-up keeps the two apart, and one tick is enough for a
window to expire at any point. *Model manager*: the pinned and the large model
exceed the budget together, the pinned and the small one fit, so both outcomes
of an eviction happen; with `Ttl = 0`, `MaxAge = 1` a model can be idle for too
long or not. *Turn*: three turns leave room for a turn before, at and after a
crash, and four processes for the restart of any one model. *IPC*: one client
per number, and a number used twice; a client that joins before, between and
after two broadcasts; the third type and the second value tell a stale replay from a
fresh line. That a number mistaken between two connections
leaves every other one alone is proved for any number of them. *Push-to-talk*: three presses allow two to overlap and a
third to follow. *VAD*: six frames hold two complete utterances, one that is
discarded and the hard cap. *Hotword*: the microphone hands over one or two
units, so a chunk is one read, two reads or part of two; an input pipe of three
is not a multiple of a chunk and is full after two reads; one line of output
makes the worker wait for the reader; six units are three chunks, enough to
fill both pipes; the clock starts at the boot, as `last_fire` does, and four
ticks with a refractory time of two put the first detection within it and the
others before, at and after its end; two changes of the avatar, from any and back to any,
overtake a line in the pipe twice. *Speech*: two lines let one wait behind the
other, two chunks with room for one make the worker wait for the player, and
three segments put every kind of segment between every two others. *Mirror*:
three captions of the greeted kind are two lives and one change within a life.
*Tuner*: two clicks meet in the engine, from one page (after a reload, or when a
connection broke) or from two. `CHECK_DEADLOCK FALSE` stands where the system may
come to rest: when the bound on turns, broadcasts, presses or frames is reached.

**Fairness.** `Pipeline!Spec`: weak fairness of the clock, the worker, the
watchdog, of a caller that is in the middle of an operation and of `stop()` once
it has begun; these are threads of the operating system that wait for nothing
but the mutex and the condition variable, which are modelled. Nobody is obliged
to call, and no spurious wake-up is promised. That the worker's step after a
request is fair assumes that model workers answer or die, which is what `Turn`
looks into. `ModelManager!Spec`: a load ends (the worker prints a line or
exits); the reaper gets the mutex sooner or later, strong fairness, because it
tries once a second for ever while other threads come and go.
`Turn!Spec`: the two threads, and workers whose engines come to an end of each
request; crashes are never obliged. `IpcServer!Spec`: the broadcasting thread,
and clients that stay connected read; without the latter `BroadcastCompletes`
does not hold, since `send` blocks with the mutex held. `Hotword!Spec`: weak
fairness of the worker, the capture thread, the reader and the main thread;
nobody is obliged to press, to speak or to send a signal, and the clock may
stand still. `Speech!Spec`: weak fairness of the worker and of the player, which
assumes that an engine comes to an end and that `aplay` plays what it is given.
`Mirror!MirrorSpec`: the reader thread and the page's timer run, and an answer gets
through sooner or later (strong fairness of `Show`: the poll is repeated for
ever). `Tuner!Spec`: the loading thread, the requests and the page run, and a
poll that is asked again and again is answered once (strong fairness);
`LoadFails` is never obliged.

## 4. What the checks show

* `FaceMatchesTurn`: `arm` and `onSpeechStart` test `busy_` and display
  afterwards, so the display may say `listening` during a turn; but no order of
  steps and no early return of `process()` leaves `thinking` or `speaking` behind.
* `BacklogBounded`: `q_.size() > 2` admits three utterances while the worker has
  not popped the first; a turn has at most two behind it.
* `ServiceSpec`: no notification is missed by `loop()`; order and exactly-once hold.
* `StopReturns` excludes one instant on purpose. `stop()` stores `running_` and
  notifies without `m_`; if the worker has just evaluated its predicate and does
  not sleep yet, the notification is lost and `join` waits for ever unless a
  further utterance or a spurious wake-up comes. The property without the
  exclusion fails on the model. Storing the flag under `m_` removes it.
* `OverBudgetOnlyForced`: the budget can be exceeded, when nothing is left to
  evict, and then only by the pinned models and the one model loaded last.
* `TurnEnds` excludes one reply on purpose: one that is not empty but blank.
  `LlamaLlm::generate` trims blanks, tabs and newlines, the worker's loop then
  turns a carriage return into a blank (`llm_worker.cpp`), so such a reply can
  arise; the pipeline sends it, the TTS worker strips the line, finds that it
  does not start with `GEN ` and answers nothing, and `f5_.readLine()` at
  `pipeline.h:123` waits for ever.
* `InStep`: although nothing numbers the lines in the pipes, no crash, failed
  load or restart puts requests and answers out of step. A transcript may
  belong to an earlier utterance, but only when `/tmp/avatar_utt.f32` could not
  be opened, which `process()` ignores (`pipeline.h:104`).
* A model manager that says Ready knows nothing of the process behind it:
  `acquire` succeeds for a worker that has died, which `model_manager.h:51`
  accepts (the state alone is tested). What follows is visible in `Turn`: the
  turn gets an empty answer, and as pinned models are never unloaded, nothing
  starts that worker again: every later turn ends with an empty answer.
* `FeedContiguous` speaks of every connection whose own number was not mistaken
  for that of another. A connection gets into `stolen` in three ways, all of them
  consequences of a number that a broadcast has closed (`ipc_server.h:60`) while
  the client's thread still remembers it: it is accepted with a number that `clients_` still has, the
  thread of an earlier client erases its number (`ipc_server.h:102`), or closes it
  (`:103`). What happens to one of them leaves the others' lines in order, complete
  and up to date. It itself may be cut off: with its number erased and closed by
  the first client's thread a client stays connected and is sent nothing more.
* `ClipIsThePress`: the test of `pttActive` outside `pttMtx` costs at most one
  frame at either end of a clip.
* `MicReleased` excludes a `mishap` on purpose: the bridge serves each request
  on a thread of its own and repeats none (`ptt_bridge.py:60-67`), and the page
  does not wait for the answer to a press before it posts the release
  (`ptt_bridge.py:112-114`). A release that overtakes its press, or is lost,
  leaves the microphone with the button that nobody holds.
* `HeardInOrder`: reads of any size, chunks, two pipes and a worker that lags
  neither lose nor repeat audio, up to its death.
* `WokenByActive`: a detection waits in a pipe while the avatar changes; the
  filter at the reader's end takes it or not by the avatar of the moment, which
  is one that has been active since the detection.
* `EndsClean` excludes one state on purpose, `Jammed`. `main()` joins the
  capture thread (`main.cpp:247`) before it kills the hotword worker (`:248`).
  The reader leaves as soon as `g_run` is false; if the worker then fills its
  pipe of lines, it stops reading audio, and the capture thread never returns
  from `write`. It takes pipes that are full, so it is rare; killing the worker
  first removes it.
* `ServiceSpec` of `Speech`: whatever the player does, there is one answer per
  request, and a worker that is dead is seen to be dead, though only when
  `aplay`, which inherits its stdout, has gone too.
* `AnsweredWhenPlayed` excludes a player that was refused or died (`spoilt`): if
  the chime holds the card, the reply is not heard and the answer is
  `RPL done` all the same.
* `SpelledOut`: the fold of `convert_char_to_pinyin` keeps every character, once
  and in order, and a separator goes before every syllable.
* `NeverGoesBack`: neither a line cut by a crash, nor the replay after a
  reconnection, nor an answer on its way makes a page show an older caption.
* `CatchesUp` excludes captions that make no JSON: `esc` (`json_min.h:9-18`)
  leaves control characters other than the newline as they are, `json.loads`
  refuses them, and the reader drops the line.
* `PageComesBack`: errors and lost connections enable the button again. A
  request that is left behind by a reload holds the engine until it is done.

The violation is explained, with the lines it contradicts, under `findings` in
`PROJECT.json`. The exclusions above are each a boundary of the property, not of
the model: the model has the behaviour, and without the exclusion TLC shows it.

Each property of a passing run comes with a mutant, a definition of the same
module (marked `Mutant:`) that puts a plausible mistake in place of the code's
behaviour and makes TLC refute the property.

## 5. What is proved

`PipelineProofs` (any set of callers and utterances, any limit, any windows,
gated or not):

* `TypeCorrect`, `BacklogAlwaysBounded`, `GateAlwaysHolds`, `FaceAlwaysMatchesTurn`;
* `ImplementsService`: every behaviour of `SafeSpec` is one of `TurnService`'s,
  under the mapping `waiting <- q_`, `serving <- ` the utterance in hand, `open <- running_`.

None of the four invariants is inductive alone. `IInv` adds three facts.
`TurnInHand`: `busy_`, the utterance in hand and the worker's place say the same;
so `Full` really sees a turn in progress. `OffersCarried`: a caller on its way
into the queue still has its utterance. `ArmedOpened`: the flag is up, or about
to be raised, only after a deadline was stored; so before the first window
`armedNow()` is false, nothing enters the queue, hence nothing is popped, hence
no turn ends, hence the follow-up window of `loop()` cannot be the first one.
That circle is why `GateHolds` needs the queue and the turn in its statement.

`ModelManagerProofs` (any models, sizes, budget, clients):

* `TypeCorrect`, `LoadsAlwaysUnserved`, and the action properties
  `PinnedAlwaysStay` and `AlwaysEvictsOldestFirst`.

`IInv` there adds `HolderWorks` (the mutex is held exactly by the thread that
evicts or loads) and `WorkOnUnserved` (what it works on is registered and not
Ready). The lemma `WhoUnloads` says that a step which takes a model out of
Ready is an eviction of one of the oldest evictable models or a sweep of the reaper.

* `OverBudgetAlwaysForced` (the budget), for any finite set of models.

Its invariant needs `LoadRoom`: when a load of a GPU model is in progress, the
model fits beside what is resident or nothing can be evicted; the mutex keeps that
true until the load ends. What is resident is a sum over a set, which
`MapThenSumSet` computes by a recursion that takes an arbitrary element at a
time. `TotalStep` shows that the equation has a solution, and only one;
`TotalOf` that any model may be taken first, and `TotalGrows` that fewer models
need no more. All three are inductions over the subsets of a finite set, from
the library's fact that they are well-founded (`SetsReached`).

`IpcServerProofs` (any connections, descriptor numbers, types and broadcasts):

* `TypeCorrect`, `AlwaysFeedContiguous`.

`Snap` says what the snapshot holds and `Shows` what the replay makes of it: each
cached type that was ever broadcast once, in the map's order, an induction on the
number of types. `Known` is about numbers: the kernel's table knows a number by
the connection it was given to; `Accepting` says the same of the one that is
about to be registered. `Owned(k)` is the heart, said of each connection by
itself: as long as nobody took its number for another's, it waits for its
registration with an open number that is in no broadcast, and afterwards is
registered under that number, and its thread reads from it, while both ends stay.
It holds for `k` whatever becomes of the others, since every step that could break
it puts `k` into `stolen`. `Feeding` then says how far each such client is: what it
was sent is the replay of the instant at which it was registered and a
contiguous part of the log, up to the broadcast in progress or, when that has
not come to it, the one before (`Pace`). The type invariant rests on `Snap`, as
the room in a socket depends on the length of the replay.

`CaptureProofs`, for `Hotword` (any wake words and avatars, chunks, pipes and
refractory time):

* `TypeCorrect`, `AlwaysHeardInOrder`, `AlwaysSpaced`, `AlwaysWokenByActive`.

`IInv` there has, for each of the three, what ties it to the moment before.
`Hands` says which place of a thread goes with a hand that is full or empty, so
that a frame is counted once, in the hand, in the pipe or in the chunk;
`InTransit` and `CaptureOff` keep those counts while the worker loads or the
capture thread does not run. `FiredBefore` bounds every recorded firing by
`lastFire`, from which a new one is at the refractory distance. `Remembered`
says that each line on its way has seen the present avatar, and `Talking`
that the reader's line is a wake word when it matches.

`CaptureProofs`, for `Vad` (streams and reads of any length, any thresholds):

* `VadTypeCorrect`, `AlwaysAnnounced`, `AlwaysHandsOverTheCuts`.

The last compares `push()`, which sees a frame at a time, with `Cuts`, a recursive
function that sees the whole stream. `Settled` is the heart of it: what has been
handed over is the beginning of the cuts of every stream that goes on from here,
and what is still to come is cut from frame `from` on. The machine either waits,
and no frame since `from` was loud (`Waits`), or is in an utterance that starts at
the first loud frame since and has not ended (`Speaks`); then its buffer and its
count of silence are those of the definition. That the recursive function exists
and is the only one is an induction on what is left of the stream, and that a
frame more adds its length to a sum, one on the set of frames.

`SpeechProofs` (any texts, chunks, room in the pipe, both engines):

* `TypeCorrect`, `AlwaysAnsweredWhenPlayed`, and `ImplementsService`: every
  behaviour is one of `WorkerService`'s, under the mapping `written <- lines`,
  `phase <- Phase`;
* `AlwaysSpelledOut`, for texts of any length.

The invariant follows the reply through the places of `speak`: which of them a
player can exist at, that chunks are neither made nor sent elsewhere, that a
player which has left by itself has played what was sent, and that a chunk which
was made and not sent is either in the hand or was refused by a player that
failed. For the refinement, `AtRequest` says that no request lies between the
last answered line and the one in hand, and `Announced` and `Serving` say at
which places of the worker that holds.

For the text, `TextInHand` says that until the file is written the worker has the
tokens `Tokens(text)`, and `TextSpelt` that these are right for every text. `Good`
is what a beginning of the tokens keeps: it spells the characters so far, with
separators before some of them, and pinyin comes after a separator. A character
more keeps it (`CharacterAdded`), hence a segment (`SegmentAdded`), hence a text.
That a word is set off is seen when it is added, and what was added stays
(`GoesOn`). Each of these is an induction on a length (`NumbersReached`, from the
library's fact that the natural numbers are well-founded), about the results a fold
has on its way (`Folds`); that `FoldLeft` and `FlattenSeq`, which are recursive
functions, have values at all is `Computable` and `JoinedExists`. A text is taken to
have no empty segment: after one a word would not know what goes before it.

`TunerProofs` (any pages, clicks and reloads):

* `TypeCorrect`, `EngineAlwaysExclusive`, `AlwaysPlaysWhatWasAsked`.

A broken connection takes its request from the page (`Break`), so it changes
nothing of that. The engine is exclusive since the lock is held by exactly the click whose
request is in `synth`, and nobody waits for it before `load()` is done. A page
plays what was asked last because a button that is enabled means that no
request of the page is on its way, and at most one is while it is disabled.

`BridgeProofs`, for `PushToTalk` (any pages and presses, clips of any length):

* `TypeCorrect`, `AlwaysClipIsThePress` and `AlwaysMicReleased`.

For the clip, frames are counted in the buffer together with the one in the hand
of the capture thread. `OneStale`: of the frames of before the press at most one
is in either place, the one that was in the hand when `ptt_start` cleared the
buffer. `NearlyAll`: what was heard of the press is in the buffer or
in the hand, and once the buffer is taken at most the one in the hand is
missing. `Lowered` adds that nothing is heard while the clip is taken. For the
microphone, `EndsInStop` looks at everything on the way: while every button is
up and nothing was lost or overtaken, the last command on its way is a
`ptt_stop`, and when none is, the handler has lowered the flag or is about to. The
type invariant bounds `pttBuf` and the number of presses, hence counts what is on
the way too (`Booked`, `Room`).

`BridgeProofs`, for `Mirror` (any kinds of captions and any number of them):

* `AlwaysForward`: the chain from the orchestrator to a page implements `Caption`,
  under the mapping `current <- said`, `seen <- page.state`.

`MirrorInv` orders everything on the way. `Snapped`: the snapshot has the latest
caption of a kind or, after a restart, none. `Sent`: what is on the socket is in
order and not older than what the bridge has, whatever a crash cut off, because a
new connection begins with captions that are the latest of their kinds
(`ReplayCurrent`). `Shown`: one answer at most is on its way, not older than the
page. What the reader makes of broken lines is not needed: a piece carries its
caption whether the line is whole or not.

`TurnProofs` (any number of turns and of processes started):

* `TypeCorrect`, `AlwaysNoOrphans`, `AlwaysInStep`.

`Known` says that a process which runs is the one its `Subprocess` refers to, and
that its model is Ready or being loaded. It rests on `Lock` (whoever loads holds
the mutex) and on `Fresh` (what a process can have written before its first line
was read), so that a load which fails leaves a process that has exited.
`Dialogue` is the reason why the pipes stay in step: a Ready worker owes nothing
(`Quiet`), except the one the turn waits for, which has one request or one answer
of this turn, in a pipe or in hand (`Owes`). `Heard` and `At` say what the turn
has heard at each of its places, which is what the next request is about.

The assumptions are those of the modules: natural numbers for limits, sizes and
times, pinned and GPU models among the registered ones, `None` and `Nobody`
outside the sets they stand apart from, segments that are not empty. TLC evaluates them in the runs.

Only model-checked: all liveness (`ServiceSpec`, `WindowCloses`, `StopReturns`,
`IdleLeaves`, `TurnEnds`, `BroadcastCompletes`, `EndsClean`, `CatchesUp`,
`PageComesBack`), as it rests on fairness; of the two `ServiceSpec`, the safety
part is proved. Every invariant and every other action property is proved.

## 6. Abstractions to know about

* Texts, replies and audio are identities or one of a few kinds. `state_`
  (`pipeline.h:63`) is assigned by several threads without a mutex, a data race
  on a string that nothing reads; only the broadcast of its value is modelled.
* Threads are interleaved at accesses to shared state; the atomics of the code
  are sequentially consistent, so nothing is lost by that.
* `Pipeline` treats `acquire` and the exchange with a worker as single steps
  with every outcome; `ModelManager` and `Turn` open them up.
* `ModelManager` lets a load that failed leave a live process (a library that
  prints before READY); `Turn` has workers that print nothing before READY.
* `Turn` has no unloading, as all three models are pinned in `main.cpp`, and
  takes `fdopen` to succeed.
* A step of `Hotword` that broadcasts includes the broadcast, as `IpcServer`
  shows that it ends. `fclose` waits for the `getline` in progress (the lock of
  the FILE); the worker's pipe closes when the worker is killed, so it gets
  there. `SIGPIPE` is ignored (`main.cpp:54`), and the hotword worker is never
  started a second time.
* `alive()` reaps the child and leaves `pid_`; that the kernel may then give the
  number to another process before `kill()` is left out.
* `Speech` has the chunks of a reply in place of samples; an engine says how
  many there are and may raise in between. Of the exceptions of `speak`, those
  of writing to a player that is gone are caught by the code, the others end
  the worker after its `finally`.
* `F5Text` takes the segmentation by `jieba` and the table of pinyin for given:
  a segment of three-byte characters is Chinese throughout or one character, and
  no segment is empty (`jieba` cuts between characters). The translation before
  the cut is modelled for both kinds of characters it has, curly quotes and the
  semicolon.
* `Mirror` counts the captions of each kind across restarts. The bridge does not
  restart; one that does begins with an empty mirror.
* `Tuner` has the parameters of a request only as what may be wrong with them.
* `PushToTalk` serves the bridge by one handler thread at a time, across
  reconnections too; a restart of the orchestrator is not modelled.
* `IpcServer` has a socket buffer that holds at least one replay, and clients
  that connect once.

## 7. Not modelled

The drawing and telemetry of the kiosk, whose socket thread is the loop of
`Mirror` (the same buffer, the same pause of 2 s); the HTML and the styles of
the two pages; ALSA and GStreamer calls, the engines behind `llama_llm.h`,
`whisper_stt.h`, NeuTTS, F5 and openWakeWord; scripts, units and images; and the
command-line tools `gen_ting.py`, `voice_listen.py`, `wav2f32.py` and
`test_client`: they hold no protocol state, or are calls into code that is not
in the repository. Of `main.cpp`, the levels of the microphone, the gain, `ping`
and the stopping of the other workers are left out, and of `subprocess.h` the
descriptors that a child inherits when two threads fork at the same time.

## 8. Plan

The pipeline and its abstract specification came first, because they carry what
a user sees; then the model manager, the IPC server, push-to-talk, the VAD and
the protocol of the workers; then the hotword worker and the shutdown, the
speech workers with their abstract service, the mirror of captions with its
abstract reader, and the tuning server. What is left, in order of weight:

1. `Capture`: `Vad` and `PushToTalk` composed, for the audio the VAD keeps while
   a button is held (`main.cpp:229`).
2. An abstract arbiter that `ModelManager` implements, and an orchestrator that
   composes `Pipeline` with it.
3. `JsonLines`: `esc`, `obj`, `parseFlat` and `jget` over short strings.
4. Proofs of what the modules above will promise.
5. The rest of the shutdown: the detached client threads, and the order in which
   pipeline, models and server are stopped.
