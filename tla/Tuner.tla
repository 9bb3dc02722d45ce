------------------------------- MODULE Tuner -------------------------------
(***************************************************************************)
(* neutts_server.py: a web page on which a voice is tuned. One thread     *)
(* loads the engine; each request to synthesize is a thread of its own;    *)
(* the engine serves one at a time. In the browser, poll() waits for the   *)
(* engine and go() asks for speech. A page may be reloaded, and leaves its *)
(* request behind. What is asked of the engine is known by the click.      *)
(***************************************************************************)
EXTENDS Naturals, FiniteSets

CONSTANTS Pages,        \* open in browsers
          Nobody,       \* no page
          MaxClicks,    \* bound: clicks on Generate
          MaxReloads    \* bound: reloads of pages

ASSUME PagesAssumption == Nobody \notin Pages
ASSUME BoundsAssumption == MaxClicks \in Nat /\ MaxReloads \in Nat

VARIABLES loader,       \* where load() is
          ready,        \* state["ready"]
          lock,         \* the click whose request holds _lock, 0 for none
          request,      \* where the request of each click is
          asker,        \* the page that waits for its answer
          clicks,       \* clicks so far: the number of the last
          reloads,      \* reloads so far
          last,         \* the last click on each page since it was loaded
          disabled,     \* b.disabled
          status,       \* what the status line is about
          player,       \* the click whose audio is in the player
          poll          \* where poll() is

engine == <<loader, ready>>
requests == <<request, asker>>
button == <<last, disabled>>
bounds == <<clicks, reloads>>
vars == <<engine, lock, requests, bounds, button, status, player, poll>>

Clicks == 1..MaxClicks

Init ==
  /\ loader = "load" /\ ready = FALSE /\ lock = 0
  /\ request = [c \in Clicks |-> "none"]
  /\ asker = [c \in Clicks |-> Nobody]
  /\ clicks = 0 /\ reloads = 0
  /\ last = [p \in Pages |-> 0]
  /\ disabled = [p \in Pages |-> FALSE]
  /\ status = [p \in Pages |-> "empty"]
  /\ player = [p \in Pages |-> 0]
  /\ poll = [p \in Pages |-> "ask"]

(***************************************************************************)
(* load(): the engine, the reference, a first inference.                   *)
(***************************************************************************)
Loader(from, to) ==
  /\ loader = from /\ loader' = to
  /\ UNCHANGED <<lock, requests, bounds, button, status, player, poll>>

\* Mutant: the server is ready before the first inference.
LoadStepEarly ==
  \/ Loader("load", "encode") /\ UNCHANGED ready
  \/ Loader("encode", "warm") /\ ready' = TRUE
  \/ Loader("warm", "done") /\ UNCHANGED ready

LoadStep ==
  \/ Loader("load", "encode") /\ UNCHANGED ready
  \/ Loader("encode", "warm") /\ UNCHANGED ready
  \/ Loader("warm", "done") /\ ready' = TRUE

\* No reference audio, no memory: the thread ends and nobody is told.
LoadFails ==
  /\ loader \notin {"done", "dead"}
  /\ Loader(loader, "dead")
  /\ UNCHANGED ready

(***************************************************************************)
(* do_synth() for click c.                                                 *)
(***************************************************************************)
Request(c, from, to) ==
  /\ request[c] = from
  /\ request' = [request EXCEPT ![c] = to]
  /\ UNCHANGED <<engine, asker, bounds, button, status, player, poll>>

\* 503 while loading, 400 for a text of blanks, or on to the engine.
Arrive(c) ==
  /\ \E to \in {"error", "wait"} : Request(c, "sent", to) /\ (to = "wait" => ready)
  /\ UNCHANGED lock

Enter(c) ==
  /\ lock = 0
  /\ Request(c, "wait", "synth")
  /\ lock' = c

\* Mutant: an exception keeps the lock.
SynthKeepsLock(c) ==
  \E to \in {"spoken", "error"} :
    /\ Request(c, "synth", to)
    /\ lock' = IF to = "spoken" THEN 0 ELSE lock

\* Parameters that are no numbers, a voice that is not known, an engine that
\* raises: 500. The lock is released either way.
Synth(c) ==
  /\ \E to \in {"spoken", "error"} : Request(c, "synth", to)
  /\ lock' = 0

\* The audio is made a WAV, which may fail as well.
Answer(c) ==
  /\ \E to \in {"wav", "error"} : Request(c, "spoken", to)
  /\ UNCHANGED lock

HandlerStep(c) == Arrive(c) \/ Enter(c) \/ Synth(c) \/ Answer(c)

(***************************************************************************)
(* go() on page p.                                                         *)
(***************************************************************************)
Click(p) ==
  /\ clicks < MaxClicks
  /\ clicks' = clicks + 1
  /\ last' = [last EXCEPT ![p] = clicks']
  /\ request' = [request EXCEPT ![clicks'] = "sent"]
  /\ asker' = [asker EXCEPT ![clicks'] = p]
  /\ status' = [status EXCEPT ![p] = "synthesizing"]
  /\ UNCHANGED <<engine, lock, reloads, player, poll>>

\* Mutant: the button is not disabled.
GoAgain(p) == Click(p) /\ UNCHANGED disabled

Go(p) ==
  /\ ~disabled[p]
  /\ Click(p)
  /\ disabled' = [disabled EXCEPT ![p] = TRUE]

\* The answer, to a page that still waits, is played or is an error.
Hear(c) ==
  /\ request[c] \in {"wav", "error"}
  /\ asker[c] # Nobody
  /\ request' = [request EXCEPT ![c] = "over"]
  /\ LET p == asker[c]
         heard == request[c] = "wav"
     IN /\ disabled' = [disabled EXCEPT ![p] = FALSE]
        /\ player' = IF heard THEN [player EXCEPT ![p] = c] ELSE player
        /\ status' = [status EXCEPT ![p] = IF heard THEN "played" ELSE "error"]
  /\ UNCHANGED <<engine, lock, asker, bounds, last, poll>>

\* A connection that breaks is an exception of fetch, at once. The request
\* goes on without the page, unless it never arrived.
Break(c) ==
  /\ request[c] \notin {"none", "over"}
  /\ asker[c] # Nobody
  /\ request' \in {request, [request EXCEPT ![c] = IF @ = "sent" THEN "over" ELSE @]}
  /\ asker' = [asker EXCEPT ![c] = Nobody]
  /\ disabled' = [disabled EXCEPT ![asker[c]] = FALSE]
  /\ status' = [status EXCEPT ![asker[c]] = "error"]
  /\ UNCHANGED <<engine, lock, bounds, last, player, poll>>

\* The request goes on without the page.
Reload(p) ==
  /\ reloads < MaxReloads
  /\ reloads' = reloads + 1
  /\ asker' = [c \in Clicks |-> IF asker[c] = p THEN Nobody ELSE asker[c]]
  /\ last' = [last EXCEPT ![p] = 0]
  /\ disabled' = [disabled EXCEPT ![p] = FALSE]
  /\ status' = [status EXCEPT ![p] = "empty"]
  /\ player' = [player EXCEPT ![p] = 0]
  /\ poll' = [poll EXCEPT ![p] = "ask"]
  /\ UNCHANGED <<engine, lock, request, clicks>>

(***************************************************************************)
(* poll() on page p.                                                       *)
(***************************************************************************)
Polls(p, from, to) ==
  /\ poll[p] = from /\ poll' = [poll EXCEPT ![p] = to]
  /\ UNCHANGED <<engine, lock, requests, bounds, button, player>>

\* health()
PollAnswered(p) ==
  /\ Polls(p, "ask", IF ready THEN "told ready" ELSE "told loading")
  /\ UNCHANGED status

PollLost(p) ==
  /\ Polls(p, "ask", "later")
  /\ UNCHANGED status

PollShown(p) ==
  \/ Polls(p, "told ready", "done") /\ status' = [status EXCEPT ![p] = "ready"]
  \/ Polls(p, "told loading", "later") /\ status' = [status EXCEPT ![p] = "loading"]
  \/ Polls(p, "later", "ask") /\ UNCHANGED status

Next ==
  \/ LoadStep \/ LoadFails
  \/ \E c \in Clicks : HandlerStep(c) \/ Hear(c) \/ Break(c)
  \/ \E p \in Pages :
       Go(p) \/ Reload(p) \/ PollAnswered(p) \/ PollLost(p) \/ PollShown(p)

\* Threads are scheduled, inference ends, not every poll is lost.
Spec ==
  /\ Init
  /\ [][Next]_vars
  /\ WF_vars(LoadStep)
  /\ \A c \in Clicks : WF_vars(HandlerStep(c)) /\ WF_vars(Hear(c))
  /\ \A p \in Pages : SF_vars(PollAnswered(p)) /\ WF_vars(PollShown(p))

(***************************************************************************)
(* Properties.                                                             *)
(***************************************************************************)
Flags ==
  /\ ready \in BOOLEAN
  /\ disabled \in [Pages -> BOOLEAN]

Counts ==
  /\ lock \in 0..MaxClicks
  /\ clicks \in 0..MaxClicks /\ reloads \in 0..MaxReloads
  /\ last \in [Pages -> 0..MaxClicks] /\ player \in [Pages -> 0..MaxClicks]

Places ==
  /\ loader \in {"load", "encode", "warm", "done", "dead"}
  /\ request \in [Clicks -> {"none", "sent", "wait", "synth", "spoken", "wav", "error", "over"}]
  /\ asker \in [Clicks -> Pages \cup {Nobody}]
  /\ status \in [Pages -> {"empty", "loading", "ready", "synthesizing", "played", "error"}]
  /\ poll \in [Pages -> {"ask", "told ready", "told loading", "later", "done"}]

\* The type of every variable.
TypeOK == Flags /\ Counts /\ Places

\* The engine, which is no thread's own, is used by one at a time: by the
\* thread that loads it or by one request, whatever pages ask at once and
\* whichever of them leave.
EngineExclusive ==
  \A c \in Clicks : request[c] = "synth" =>
    /\ loader = "done"
    /\ \A d \in Clicks \ {c} : request[d] # "synth"

\* When a page says that it plays, it plays what was asked of it last, not
\* the slower answer to an earlier click or to a page that is gone.
PlaysWhatWasAsked ==
  \A p \in Pages : status[p] = "played" => player[p] = last[p]

\* The button comes back after every click, with whatever answers, errors
\* and lost connections, and a page learns that the model is ready.
PageComesBack ==
  \A p \in Pages :
    /\ disabled[p] ~> ~disabled[p]
    /\ ready ~> poll[p] = "done"
=============================================================================
