-------------------------------- MODULE Turn --------------------------------
(***************************************************************************)
(* One turn after another through the model workers: the pipeline thread  *)
(* (process() of include/pipeline.h) and the thread that warms the models *)
(* up at the start (src/main.cpp) acquire models, a load spawns a process *)
(* (include/subprocess.h), and requests and answers are lines in pipes.    *)
(*                                                                         *)
(* The three models are pinned, so the model manager never unloads them.  *)
(* A worker is taken to print nothing before READY (neutts_worker.py      *)
(* diverts its libraries' output for that), and memory for a FILE to be   *)
(* there when fdopen asks for it.                                          *)
(***************************************************************************)
EXTENDS Naturals, Sequences

CONSTANTS MaxTurns,     \* bound: turns considered
          MaxStarts     \* bound: processes started; beyond it fork fails

ASSUME BoundsAssumption == MaxTurns \in Nat /\ MaxStarts \in Nat

Models == {"stt", "llm", "tts"}
Threads == {"turn", "warm"}

VARIABLES place,        \* what each thread does next, and with which model
          holder,       \* the thread that holds the model manager's mutex
          ready,        \* the models whose state is Ready
          handle,       \* the process each Subprocess refers to, 0 for none
          proc,         \* the processes started so far
          turn,         \* how many turns have begun
          file,         \* the turn whose samples /tmp/avatar_utt.f32 holds
          saved,        \* history: the samples of this turn got there
          text,         \* the transcript of this turn
          reply         \* the reply of this turn

speech == <<turn, file, saved, text, reply>>
manager == <<holder, ready, handle>>
vars == <<place, manager, proc, speech>>

(***************************************************************************)
(* Lines. Every line remembers the turn that asked for it and the turn    *)
(* whose samples it goes back to; of its text it matters whether there is  *)
(* any, and whether there is more than blanks.                             *)
(***************************************************************************)
Texts == {"words", "blank", ""}
Line(tag, asked, about, words) == [tag |-> tag, asked |-> asked, about |-> about, text |-> words]
Word(tag) == Line(tag, 0, 0, "")
Nothing == Line("", 0, 0, "")      \* what readLine returns at end of file

Process(m) == [model |-> m, at |-> "loading", inp |-> <<>>, out |-> <<>>, job |-> Nothing]
Alive(p) == proc[p].at # "exited"

Init ==
  /\ place = [turn |-> <<"rest", "stt">>, warm |-> <<"acquire", "stt">>]
  /\ holder = "none"
  /\ ready = {}
  /\ handle = [m \in Models |-> 0]
  /\ proc = <<>>
  /\ turn = 0
  /\ file = 0
  /\ saved = FALSE
  /\ text = Nothing
  /\ reply = Nothing

Goes(t, from, to) == place[t] = from /\ place' = [place EXCEPT ![t] = to]
Rest == <<"rest", "stt">>

(***************************************************************************)
(* acquire(m) by thread t, and what t does when it returns ok.             *)
(***************************************************************************)
AfterAcquire(t, m, ok) ==
  CASE t = "warm" /\ m = "stt" -> <<"acquire", "llm">>
    [] t = "warm" /\ m = "llm" -> <<"acquire", "tts">>
    [] t = "warm" /\ m = "tts" -> Rest
    [] t = "turn" /\ ok /\ m = "stt" -> <<"save", m>>
    [] t = "turn" /\ ok /\ m = "llm" -> <<"ask", m>>
    [] t = "turn" /\ ok /\ m = "tts" /\ reply.text # "" -> <<"ask", m>>
    [] OTHER -> Rest

AcquireReady(t, m) ==
  /\ holder = "none"
  /\ m \in ready
  /\ Goes(t, <<"acquire", m>>, AfterAcquire(t, m, TRUE))
  /\ UNCHANGED <<manager, proc, speech>>

\* Mutant: a model that is Ready is loaded again.
StartAnyway(t, m) ==
  /\ holder = "none"
  /\ Len(proc) < MaxStarts
  /\ Goes(t, <<"acquire", m>>, <<"load", m>>)
  /\ holder' = t
  /\ proc' = Append(proc, Process(m))
  /\ handle' = [handle EXCEPT ![m] = Len(proc')]
  /\ UNCHANGED <<ready, speech>>

\* start(): pipes, fork, exec. What the Subprocess held before is forgotten.
Start(t, m) ==
  /\ holder = "none"
  /\ m \notin ready
  /\ Len(proc) < MaxStarts
  /\ Goes(t, <<"acquire", m>>, <<"load", m>>)
  /\ holder' = t
  /\ proc' = Append(proc, Process(m))
  /\ handle' = [handle EXCEPT ![m] = Len(proc')]
  /\ UNCHANGED <<ready, speech>>

\* Mutant: doLoad does not look at what start() returned.
StartFailsUnseen(t, m) ==
  /\ holder = "none"
  /\ m \notin ready
  /\ Goes(t, <<"acquire", m>>, AfterAcquire(t, m, TRUE))
  /\ \E p \in {0, handle[m]} : handle' = [handle EXCEPT ![m] = p]
  /\ ready' = ready \cup {m}
  /\ UNCHANGED <<holder, proc, speech>>

\* pipe() failed, which leaves pid_ as it was, or fork() did, which clears it.
StartFails(t, m) ==
  /\ holder = "none"
  /\ m \notin ready
  /\ Goes(t, <<"acquire", m>>, AfterAcquire(t, m, FALSE))
  /\ \E p \in {0, handle[m]} : handle' = [handle EXCEPT ![m] = p]
  /\ UNCHANGED <<holder, ready, proc, speech>>

\* readLine of the worker of m: the next line, or Nothing once it is gone.
Out(m) == proc[handle[m]].out
NextLine(m) == IF Out(m) = <<>> THEN Nothing ELSE Head(Out(m))
\* Mutant: the end of file is taken for a line that is not there yet.
ReadLineForever(m) ==
  /\ Out(m) # <<>>
  /\ proc' = [proc EXCEPT ![handle[m]].out = Tail(@)]

ReadLine(m) ==
  IF Out(m) = <<>>
  THEN ~Alive(handle[m]) /\ UNCHANGED proc
  ELSE proc' = [proc EXCEPT ![handle[m]].out = Tail(@)]

\* doLoad returns readLine() == "READY".
Loaded(t, m) ==
  LET ok == NextLine(m).tag = "READY"
  IN /\ place[t] = <<"load", m>>
     /\ ReadLine(m)
     /\ Goes(t, <<"load", m>>, AfterAcquire(t, m, ok))
     /\ ready' = IF ok THEN ready \cup {m} ELSE ready
     /\ holder' = "none"
     /\ UNCHANGED <<handle, speech>>

(***************************************************************************)
(* process(pcm)                                                            *)
(***************************************************************************)
Begin ==
  /\ turn < MaxTurns
  /\ Goes("turn", Rest, <<"acquire", "stt">>)
  /\ turn' = turn + 1
  /\ saved' = FALSE
  /\ text' = Nothing
  /\ reply' = Nothing
  /\ UNCHANGED <<manager, proc, file>>

\* fopen may fail, and the request is made all the same.
Save ==
  /\ Goes("turn", <<"save", "stt">>, <<"ask", "stt">>)
  /\ file' \in {turn, file}
  /\ saved' = (file' = turn)
  /\ UNCHANGED <<manager, proc, turn, text, reply>>

Request(m) ==
  CASE m = "stt" -> Line("STT", turn, 0, "words")
    [] m = "llm" -> Line("GEN", turn, text.about, text.text)
    [] m = "tts" -> Line("GEN", turn, reply.about, reply.text)

\* writeLine to a worker that is gone fails, and nobody looks.
Ask(m) ==
  /\ Goes("turn", <<"ask", m>>, <<"read", m>>)
  /\ proc' = IF Alive(handle[m])
             THEN [proc EXCEPT ![handle[m]].inp = Append(@, Request(m))]
             ELSE proc
  /\ UNCHANGED <<manager, speech>>

\* The transcript: words, or what isJunk rejects.
HearText ==
  /\ place["turn"] = <<"read", "stt">>
  /\ ReadLine("stt")
  /\ text' = IF NextLine("stt").tag = "TXT" THEN NextLine("stt") ELSE Nothing
  /\ Goes("turn", <<"read", "stt">>, IF text'.text = "words" THEN <<"acquire", "llm">> ELSE Rest)
  /\ UNCHANGED <<manager, turn, file, saved, reply>>

HearReply ==
  /\ place["turn"] = <<"read", "llm">>
  /\ ReadLine("llm")
  /\ reply' = IF NextLine("llm").tag = "RPL" THEN NextLine("llm") ELSE Nothing
  /\ Goes("turn", <<"read", "llm">>, <<"acquire", "tts">>)
  /\ UNCHANGED <<manager, turn, file, saved, text>>

\* Mutant: the pipeline does not wait for the end of the speech.
SpokenAtOnce ==
  /\ Goes("turn", <<"read", "tts">>, Rest)
  /\ UNCHANGED <<manager, proc, speech>>

Spoken ==
  /\ Goes("turn", <<"read", "tts">>, Rest)
  /\ ReadLine("tts")
  /\ UNCHANGED <<manager, speech>>

(***************************************************************************)
(* The workers.                                                            *)
(***************************************************************************)
Becomes(p, from, to) ==
  /\ proc[p].at = from
  /\ proc' = [proc EXCEPT ![p] = to]
  /\ UNCHANGED <<place, manager, speech>>

WorkerLoads(p) ==
  Becomes(p, "loading", [proc[p] EXCEPT !.at = "ready", !.out = Append(@, Word("READY"))])

\* stt-worker and llm-worker say that they could not load, the other exits.
WorkerFails(p) ==
  Becomes(p, "loading",
          [proc[p] EXCEPT !.at = "exited",
                          !.out = IF proc[p].model = "tts" THEN @ ELSE Append(@, Word("ERR"))])

\* The line as the worker understands it: the two Python workers strip it,
\* and what is left of "GEN " and blanks is no request.
Understood(p, line) == proc[p].model = "tts" => line.text # "blank"

WorkerTakes(p) ==
  /\ proc[p].inp # <<>>
  /\ LET line == Head(proc[p].inp)
         about == IF proc[p].model = "stt" THEN file ELSE line.about
         rest == [proc[p] EXCEPT !.inp = Tail(@)]
     IN Becomes(p, "ready",
                IF Understood(p, line)
                THEN [rest EXCEPT !.at = "busy", !.job = [line EXCEPT !.about = about]]
                ELSE rest)

Answered(p, tag, words) ==
  [proc[p] EXCEPT !.at = "ready", !.job = Nothing,
                  !.out = Append(@, Line(tag, proc[p].job.asked, proc[p].job.about, words))]

\* A transcript may be junk, a reply may be empty, or blank where the model
\* ends in a character that only the worker's own loop turns into a blank.
WorkerAnswers(p) ==
  /\ proc[p].model # "tts"
  /\ \E words \in Texts :
       Becomes(p, "busy", Answered(p, IF proc[p].model = "stt" THEN "TXT" ELSE "RPL", words))

\* "RPL done", when the last sample has been played.
WorkerSpeaks(p) ==
  /\ proc[p].model = "tts"
  /\ Becomes(p, "busy", Answered(p, "RPL", "words"))

\* A crash, or the kernel's want of memory. What was written stays readable.
WorkerDies(p) ==
  /\ Alive(p)
  /\ proc' = [proc EXCEPT ![p] = [@ EXCEPT !.at = "exited", !.inp = <<>>, !.job = Nothing]]
  /\ UNCHANGED <<place, manager, speech>>

WorkerProceeds(p) ==
  \/ WorkerLoads(p) \/ WorkerFails(p) \/ WorkerTakes(p)
  \/ WorkerAnswers(p) \/ WorkerSpeaks(p)

AcquireStep(t) ==
  \E m \in Models : AcquireReady(t, m) \/ Start(t, m) \/ StartFails(t, m) \/ Loaded(t, m)

TurnProceeds ==
  \/ AcquireStep("turn")
  \/ Save
  \/ \E m \in Models : Ask(m)
  \/ HearText \/ HearReply \/ Spoken

Next ==
  \/ Begin
  \/ TurnProceeds
  \/ AcquireStep("warm")
  \/ \E p \in DOMAIN proc : WorkerProceeds(p) \/ WorkerDies(p)

\* The threads are scheduled, and the engines come to an end of what they do.
Spec ==
  /\ Init
  /\ [][Next]_vars
  /\ WF_vars(TurnProceeds)
  /\ WF_vars(AcquireStep("warm"))
  /\ \A p \in 1..MaxStarts : WF_vars(p \in DOMAIN proc /\ WorkerProceeds(p))

(***************************************************************************)
(* Properties.                                                             *)
(***************************************************************************)
LineType ==
  [tag : {"", "READY", "ERR", "STT", "GEN", "TXT", "RPL"},
   asked : 0..MaxTurns, about : 0..MaxTurns, text : Texts]

\* The type of every variable.
TypeOK ==
  /\ place \in [Threads -> {"rest", "acquire", "load", "save", "ask", "read"} \X Models]
  /\ holder \in Threads \cup {"none"}
  /\ ready \subseteq {m \in Models : handle[m] # 0}
  /\ handle \in [Models -> 0..Len(proc)]
  /\ Len(proc) <= MaxStarts
  /\ proc \in Seq([model : Models, at : {"loading", "ready", "busy", "exited"},
                   inp : Seq(LineType), out : Seq(LineType), job : LineType])
  /\ {turn, file} \subseteq 0..MaxTurns
  /\ saved \in BOOLEAN
  /\ {text, reply} \subseteq LineType

\* Nothing numbers the lines, so the dialogue must stay in step by itself:
\* whatever is read was asked for in this turn, and a reply goes back to the
\* samples of this turn unless they could not be saved. No crash, no failed
\* load and no restart leaves an old answer in a pipe.
InStep ==
  /\ \A line \in {text, reply} : line.tag # "" =>
       /\ line.asked = turn
       /\ saved => line.about = turn
  /\ place["turn"] = Rest =>
       \A m \in ready : Alive(handle[m]) =>
         proc[handle[m]].inp = <<>> /\ proc[handle[m]].out = <<>> /\ proc[handle[m]].at = "ready"

\* Every worker process that runs is the one its Subprocess refers to, so
\* kill() reaches it and no second one sits in the GPU's memory: neither the
\* warm-up crossing the first turns nor a load that failed leaves another.
NoOrphans ==
  \A p \in DOMAIN proc : Alive(p) => handle[proc[p].model] = p

\* A turn ends, with whatever workers that load, fail, crash or stay dead,
\* unless its reply is blank: such a reply is not empty for the pipeline,
\* and for the worker that should speak it there is nothing to answer.
TurnEnds ==
  (place["turn"] # Rest) ~> (place["turn"] = Rest \/ reply.text = "blank")
=============================================================================
