------------------------------- MODULE Speech -------------------------------
(***************************************************************************)
(* One process of the worker that speaks, in either of its two forms:     *)
(* neutts_worker.py, which streams chunks to a player while it generates   *)
(* them, and f5_worker.py, which writes a file and plays it. Both load,   *)
(* warm up, say READY and then serve lines from the orchestrator, or speak *)
(* one text and leave. The sound card is one for the player and for the   *)
(* chime of the orchestrator, and plays for one at a time.                 *)
(***************************************************************************)
EXTENDS F5Text

CONSTANTS Texts,        \* texts to speak
          MaxLines,     \* bound: lines written to the worker
          MaxChunks,    \* bound: chunks of one reply
          PipeRoom      \* chunks the pipe to the player holds

\* jieba gives no segment without a character.
ASSUME TextsAssumption == Texts \subseteq Seq(Seq(Characters) \ {<<>>})
ASSUME BoundsAssumption ==
  MaxLines \in Nat /\ MaxChunks \in Nat \ {0} /\ PipeRoom \in Nat \ {0}

\* A line of the orchestrator once strip() has been at it: "GEN " and words,
\* "GEN" of a blank reply, "QUIT", or the empty line.
Lines == {"gen", "blank", "quit", "empty"}

VARIABLES engine,       \* "neutts" or "f5"
          mode,         \* "worker", or "once" with a text as arguments
          reference,    \* the voice to clone: what there is of it
          at,           \* where the worker is
          open,         \* the orchestrator holds the other end of stdin
          lines,        \* the lines written to the worker
          next,         \* how many of them the worker has read
          answered,     \* history: the last one answered with "RPL done"
          announced,    \* READY was printed
          failing,      \* an exception goes through the finally clause
          made,         \* chunks generated of this reply
          sent,         \* chunks the player was given
          played,       \* chunks the player has played
          shut,         \* p.stdin is closed
          player,       \* the aplay process
          spoilt,       \* history: it could not play to the end
          card,         \* who plays on the sound card
          text, tokens  \* f5: the text and its tokens

setup == <<engine, mode, reference>>
stream == <<failing, made, sent, played, shut, player, spoilt>>
orchestrator == <<open, lines>>
spelling == <<text, tokens>>
serving == <<next, answered, announced>>
vars == <<setup, at, orchestrator, serving, stream, card, spelling>>

NoReply ==
  /\ failing = FALSE /\ made = 0 /\ sent = 0 /\ played = 0
  /\ shut = FALSE /\ player = "none" /\ spoilt = FALSE

Init ==
  /\ engine \in {"neutts", "f5"}
  /\ mode \in {"worker", "once"}
  /\ reference \in {"good", "no audio", "no text", "blank text"}
  /\ at = "load"
  /\ open = TRUE /\ lines = <<>>
  /\ next = 0 /\ answered = 0 /\ announced = FALSE
  /\ NoReply
  /\ card = "free"
  /\ text = <<>> /\ tokens = <<>>

Goes(from, to) == at = from /\ at' = to

(***************************************************************************)
(* Loading.                                                                *)
(***************************************************************************)
Served == IF mode = "once" THEN "speak" ELSE "announce"

\* No reference, no service: NeuTTS asks for the audio and for a text that is
\* more than blanks, F5 opens the audio.
NeuTTSLoads == reference = "good"
F5Loads == reference # "no audio"

Load ==
  /\ Goes("load", IF (IF engine = "neutts" THEN NeuTTSLoads ELSE F5Loads)
                  THEN "warm" ELSE "exited")
  /\ UNCHANGED <<setup, orchestrator, serving, stream, card, spelling>>

\* F5 divides by the length of the reference text.
WarmUp ==
  /\ Goes("warm", IF engine = "f5" /\ reference = "no text" THEN "exited" ELSE Served)
  /\ UNCHANGED <<setup, orchestrator, serving, stream, card, spelling>>

Announce ==
  /\ Goes("announce", "listen")
  /\ announced' = TRUE
  /\ UNCHANGED <<setup, orchestrator, next, answered, stream, card, spelling>>

(***************************************************************************)
(* The command loop.                                                       *)
(***************************************************************************)
Take ==
  /\ at = "listen" /\ next < Len(lines)
  /\ next' = next + 1
  /\ at' = CASE lines[next'] = "gen" -> "speak"
             [] lines[next'] = "quit" -> "exited"
             [] OTHER -> "listen"
  /\ UNCHANGED <<setup, orchestrator, answered, announced, stream, card, spelling>>

SeeEnd ==
  /\ next = Len(lines) /\ ~open
  /\ Goes("listen", "exited")
  /\ UNCHANGED <<setup, orchestrator, serving, stream, card, spelling>>

\* "RPL done", or "DONE" and the end.
Answer ==
  /\ Goes("answer", IF mode = "once" THEN "exited" ELSE "listen")
  /\ answered' = next
  /\ failing' = FALSE /\ made' = 0 /\ sent' = 0 /\ played' = 0
  /\ shut' = FALSE /\ player' = "none" /\ spoilt' = FALSE
  /\ UNCHANGED <<setup, orchestrator, next, announced, card, spelling>>

(***************************************************************************)
(* speak(text) of neutts_worker.py.                                        *)
(***************************************************************************)
\* Popen, which may fail.
StartPlayer ==
  /\ engine = "neutts"
  /\ \/ Goes("speak", "infer") /\ player' = "opening"
     \/ Goes("speak", "exited") /\ UNCHANGED player
  /\ UNCHANGED <<setup, orchestrator, serving, failing, made, sent, played, shut, spoilt, card, spelling>>

\* The next chunk, the end of the stream, or an exception.
Infer ==
  /\ at = "infer"
  /\ \/ made < MaxChunks /\ at' = "write" /\ made' = made + 1 /\ UNCHANGED failing
     \/ at' = "close" /\ failing' \in BOOLEAN /\ UNCHANGED made
  /\ UNCHANGED <<setup, orchestrator, serving, sent, played, shut, player, spoilt, card, spelling>>

WriteChunk ==
  /\ player # "gone"
  /\ sent - played < PipeRoom
  /\ Goes("write", "infer")
  /\ sent' = sent + 1
  /\ UNCHANGED <<setup, orchestrator, serving, failing, made, played, shut, player, spoilt, card, spelling>>

BrokenPipe ==
  /\ player = "gone"
  /\ Goes("write", "close")
  /\ UNCHANGED <<setup, orchestrator, serving, stream, card, spelling>>

\* Mutant: the player's input stays open while it is waited for.
CloseForgotten ==
  /\ Goes("close", "wait")
  /\ UNCHANGED <<setup, orchestrator, serving, stream, card, spelling>>

Close ==
  /\ Goes("close", "wait")
  /\ shut' = TRUE
  /\ UNCHANGED <<setup, orchestrator, serving, failing, made, sent, played, player, spoilt, card, spelling>>

\* Mutant: p.wait() is left out.
WaitNot ==
  /\ Goes("wait", IF failing THEN "exited"
                  ELSE IF engine = "neutts" /\ made > 0 THEN "save" ELSE "answer")
  /\ UNCHANGED <<setup, orchestrator, serving, stream, card, spelling>>

\* p.wait(), and the return of os.system.
Wait ==
  /\ player = "gone"
  /\ Goes("wait", IF failing THEN "exited"
                  ELSE IF engine = "neutts" /\ made > 0 THEN "save" ELSE "answer")
  /\ UNCHANGED <<setup, orchestrator, serving, stream, card, spelling>>

(***************************************************************************)
(* synth(text) and write_play(sig) of f5_worker.py.                        *)
(***************************************************************************)
Synth ==
  /\ engine = "f5"
  /\ \/ /\ Goes("speak", "save")
        /\ made' = 1
        /\ text' \in Texts
        /\ tokens' = Tokens(text')
     \/ Goes("speak", "exited") /\ UNCHANGED <<made, text, tokens>>
  /\ UNCHANGED <<setup, orchestrator, serving, failing, sent, played, shut, player, spoilt, card>>

\* sf.write, which may raise; NeuTTS keeps a copy when it has spoken.
Save ==
  /\ \E to \in {IF engine = "f5" THEN "system" ELSE "answer", "exited"} : Goes("save", to)
  /\ text' = <<>> /\ tokens' = <<>>
  /\ UNCHANGED <<setup, orchestrator, serving, stream, card>>

\* os.system: a player with the whole file, or no process for it.
System ==
  /\ \/ /\ Goes("system", "wait")
        /\ sent' = made /\ shut' = TRUE /\ player' = "opening"
        /\ UNCHANGED spoilt
     \/ /\ Goes("system", "answer")
        /\ spoilt' = TRUE
        /\ UNCHANGED <<sent, shut, player>>
  /\ UNCHANGED <<setup, orchestrator, serving, failing, made, played, card, spelling>>

WorkerStep ==
  \/ Load \/ WarmUp \/ Announce \/ Take \/ SeeEnd \/ Answer
  \/ StartPlayer \/ Infer \/ WriteChunk \/ BrokenPipe \/ Close \/ Wait
  \/ Synth \/ Save \/ System

\* Killed, or for want of memory; the kernel closes its end of the pipe.
WorkerDies ==
  /\ at # "exited"
  /\ at' = "exited"
  /\ text' = <<>> /\ tokens' = <<>>
  /\ UNCHANGED <<setup, orchestrator, serving, stream, card>>

(***************************************************************************)
(* aplay, and the chime.                                                   *)
(***************************************************************************)
PlayerGone ==
  /\ player' = "gone"
  /\ card' = IF card = "reply" THEN "free" ELSE card

PlayerOpens ==
  /\ player = "opening" /\ card = "free"
  /\ player' = "playing" /\ card' = "reply"
  /\ UNCHANGED <<setup, at, orchestrator, serving, failing, made, sent, played, shut, spoilt, spelling>>

\* "Device busy".
PlayerRefused ==
  /\ player = "opening" /\ card = "chime"
  /\ PlayerGone
  /\ spoilt' = TRUE
  /\ UNCHANGED <<setup, at, orchestrator, serving, failing, made, sent, played, shut, spelling>>

PlayerPlays ==
  /\ player = "playing" /\ played < sent
  /\ played' = played + 1
  /\ UNCHANGED <<setup, at, orchestrator, serving, failing, made, sent, shut, player, spoilt, card, spelling>>

\* End of file, once the worker has closed its end or has exited.
PlayerEnds ==
  /\ player = "playing" /\ played = sent
  /\ shut \/ at = "exited"
  /\ PlayerGone
  /\ UNCHANGED <<setup, at, orchestrator, serving, failing, made, sent, played, shut, spoilt, spelling>>

PlayerDies ==
  /\ player \in {"opening", "playing"}
  /\ PlayerGone
  /\ spoilt' = TRUE
  /\ UNCHANGED <<setup, at, orchestrator, serving, failing, made, sent, played, shut, spelling>>

PlayerStep == PlayerOpens \/ PlayerRefused \/ PlayerPlays \/ PlayerEnds

Chime ==
  /\ card' = CASE card = "free" -> "chime" [] card = "chime" -> "free"
               [] OTHER -> card
  /\ UNCHANGED <<setup, at, orchestrator, serving, stream, spelling>>

(***************************************************************************)
(* The orchestrator.                                                       *)
(***************************************************************************)
Write(l) ==
  /\ mode = "worker" /\ open /\ at # "exited"
  /\ Len(lines) < MaxLines
  /\ lines' = Append(lines, l)
  /\ UNCHANGED <<setup, at, open, serving, stream, card, spelling>>

Hangup ==
  /\ open
  /\ open' = FALSE
  /\ UNCHANGED <<setup, at, lines, serving, stream, card, spelling>>

Next ==
  \/ WorkerStep \/ WorkerDies
  \/ PlayerStep \/ PlayerDies
  \/ Chime
  \/ \E l \in Lines : Write(l)
  \/ Hangup

\* The processes run, and an engine comes to an end of what it says.
Spec ==
  /\ Init
  /\ [][Next]_vars
  /\ WF_vars(WorkerStep)
  /\ WF_vars(PlayerStep)

(***************************************************************************)
(* Properties.                                                             *)
(***************************************************************************)
Flags ==
  /\ open \in BOOLEAN /\ announced \in BOOLEAN
  /\ failing \in BOOLEAN /\ shut \in BOOLEAN /\ spoilt \in BOOLEAN

Counts ==
  /\ lines \in Seq(Lines)
  /\ next \in Nat /\ answered \in Nat /\ answered <= next /\ next <= Len(lines)
  /\ made \in Nat /\ sent \in Nat /\ played \in Nat
  /\ played <= sent /\ sent <= made

Places ==
  /\ engine \in {"neutts", "f5"}
  /\ mode \in {"worker", "once"}
  /\ reference \in {"good", "no audio", "no text", "blank text"}
  /\ at \in {"load", "warm", "announce", "listen", "speak", "infer", "write",
             "close", "wait", "save", "system", "answer", "exited"}
  /\ player \in {"none", "opening", "playing", "gone"}
  /\ card \in {"free", "reply", "chime"}

\* The type of every variable; nobody plays what was not sent.
TypeOK == Flags /\ Counts /\ Places

\* What the pipeline takes "RPL done" for: the reply has been heard. When
\* the worker answers, no player is left, and everything that was generated
\* has been played, unless the sound card was taken or the player failed.
AnsweredWhenPlayed ==
  at = "answer" =>
    /\ player \in {"none", "gone"}
    /\ spoilt \/ played = made

\* F5 is given the text it should speak: every character once and in order,
\* words and syllables set apart.
SpelledOut == at = "save" /\ engine = "f5" => Spells(text, tokens) /\ SetApart(text, tokens)

\* For the orchestrator the worker is gone when the last holder of its stdout
\* is, and aplay inherits that of neutts_worker.py.
Phase ==
  IF at = "exited" /\ (announced /\ engine = "neutts" => player \in {"none", "gone"})
  THEN "gone"
  ELSE IF announced THEN "ready" ELSE "loading"

Service == INSTANCE WorkerService WITH
  Requests <- {"gen"}, written <- lines, phase <- Phase

\* READY first, and then one answer for each request, in order.
ServiceSafeSpec == Service!SafeSpec

\* Besides: the worker loads or gives up, and leaves no request without an
\* answer while it lives, nor the orchestrator waiting when it is dead.
ServiceSpec == Service!Spec
=============================================================================
