-------------------------------- MODULE Vad --------------------------------
(***************************************************************************)
(* The voice activity detector (include/vad.h): push(s, n) takes a frame  *)
(* of n samples and cuts the stream into utterances. What matters of a    *)
(* frame is its loudness against the two thresholds and its length; the   *)
(* reads of the sound card may be shorter than a frame.                    *)
(*                                                                         *)
(* The buffer holds the numbers of the frames it was filled from, and the *)
(* cut is compared with a definition of it over the whole stream.          *)
(***************************************************************************)
EXTENDS Integers, Sequences, FiniteSets, FiniteSetsExt

CONSTANTS FrameMs,      \* cfg_.frameMs
          Rate,         \* samples per millisecond
          ReadSizes,    \* lengths a read may have, in samples
          HangoverMs,   \* cfg_.hangoverMs
          MinSpeechMs,  \* cfg_.minSpeechMs
          MaxMs,        \* cfg_.maxUtteranceMs
          MaxStream     \* bound: frames in the stream

ASSUME SizesAssumption == ReadSizes \subseteq 1..(FrameMs * Rate)
ASSUME TimesAssumption ==
  /\ {FrameMs, Rate, HangoverMs, MinSpeechMs, MaxMs, MaxStream} \subseteq Nat
  /\ Rate > 0 /\ FrameMs > 0 /\ HangoverMs > 0

\* "quiet" is below endRms, "loud" at or above startRms, "soft" between.
Levels == {"quiet", "soft", "loud"}
Frames == [level : Levels, size : ReadSizes]

VARIABLES inSpeech,     \* inSpeech_
          silentMs,     \* silentMs_
          buf,          \* buf_, as the numbers of its frames
          stream,       \* history: the frames pushed
          onsets,       \* history: the frames at which onStart_ was called
          utterances    \* history: what cb_ was called with

vadVars == <<inSpeech, silentMs, buf, stream, onsets, utterances>>

\* (int)(size * 1000 / sampleRate) of the samples of some frames of s.
DurationMs(s, numbers) == MapThenSumSet(LAMBDA i : s[i].size, numbers) \div Rate

Numbers(b) == {b[i] : i \in DOMAIN b}

VadInit ==
  /\ inSpeech = FALSE
  /\ silentMs = 0
  /\ buf = <<>>
  /\ stream = <<>>
  /\ onsets = {}
  /\ utterances = <<>>

Hear(f) ==
  /\ Len(stream) < MaxStream
  /\ stream' = Append(stream, f)

Idle(f) ==
  /\ Hear(f)
  /\ ~inSpeech
  /\ f.level # "loud"
  /\ UNCHANGED <<inSpeech, silentMs, buf, onsets, utterances>>

\* Mutant: onStart_ is called for the first utterance only.
OnsetQuiet(f) ==
  /\ Hear(f)
  /\ ~inSpeech
  /\ f.level = "loud"
  /\ inSpeech' = TRUE
  /\ silentMs' = 0
  /\ buf' = <<Len(stream')>>
  /\ onsets' = IF onsets = {} THEN {Len(stream')} ELSE onsets
  /\ UNCHANGED utterances

\* Mutant: the buffer keeps the frame before the onset, which may not exist.
OnsetWithPrevious(f) ==
  /\ Hear(f)
  /\ ~inSpeech
  /\ f.level = "loud"
  /\ inSpeech' = TRUE
  /\ silentMs' = 0
  /\ buf' = <<Len(stream), Len(stream')>>
  /\ onsets' = onsets \cup {Len(stream')}
  /\ UNCHANGED utterances

Onset(f) ==
  /\ Hear(f)
  /\ ~inSpeech
  /\ f.level = "loud"
  /\ inSpeech' = TRUE
  /\ silentMs' = 0
  /\ buf' = <<Len(stream')>>
  /\ onsets' = onsets \cup {Len(stream')}
  /\ UNCHANGED utterances

\* Mutant: one soft or quiet frame more does not start the silence anew.
SilenceAfterSticky(f) == IF f.level = "quiet" THEN silentMs + FrameMs ELSE silentMs

\* Silence is counted in whole frames, however short the read was.
SilenceAfter(f) == IF f.level = "quiet" THEN silentMs + FrameMs ELSE 0

Ends(silence, duration) == silence >= HangoverMs \/ duration >= MaxMs

Longer(f) == Append(buf, Len(stream) + 1)
DurationWith(f) == DurationMs(Append(stream, f), Numbers(Longer(f)))

Continue(f) ==
  /\ Hear(f)
  /\ inSpeech
  /\ silentMs' = SilenceAfter(f)
  /\ ~Ends(silentMs', DurationWith(f))
  /\ buf' = Longer(f)
  /\ UNCHANGED <<inSpeech, onsets, utterances>>

\* The utterance is over. It is handed over, its silence included, unless
\* what precedes the silence is too short.
Cut(f) ==
  /\ Hear(f)
  /\ inSpeech
  /\ silentMs' = SilenceAfter(f)
  /\ Ends(silentMs', DurationWith(f))
  /\ inSpeech' = FALSE
  /\ buf' = <<>>
  /\ utterances' = IF DurationWith(f) - silentMs' >= MinSpeechMs
                   THEN Append(utterances, Longer(f))
                   ELSE utterances
  /\ UNCHANGED onsets

VadNext == \E f \in Frames : Idle(f) \/ Onset(f) \/ Continue(f) \/ Cut(f)

VadSpec == VadInit /\ [][VadNext]_vadVars

(***************************************************************************)
(* Properties.                                                             *)
(***************************************************************************)
\* The type of every variable.
VadTypeOK ==
  /\ inSpeech \in BOOLEAN
  /\ silentMs \in 0..(FrameMs * MaxStream)
  /\ buf \in Seq(1..MaxStream)
  /\ stream \in Seq(Frames)
  /\ onsets \subseteq 1..MaxStream
  /\ utterances \in Seq(Seq(1..MaxStream))

(***************************************************************************)
(* The cut of a stream s, defined without the machine: an utterance opens *)
(* at the first loud frame after the last one closed, and closes at the   *)
(* first later frame that ends enough silence or makes it long enough.     *)
(***************************************************************************)
Opens(s, from) == {i \in from..Len(s) : s[i].level = "loud"}
SilenceAt(s, i, j) ==
  FrameMs * Cardinality({k \in (i + 1)..j : \A l \in k..j : s[l].level = "quiet"})
Closes(s, i) ==
  {j \in (i + 1)..Len(s) :
     \/ SilenceAt(s, i, j) >= HangoverMs
     \/ DurationMs(s, i..j) >= MaxMs}
LongEnough(s, i, j) == DurationMs(s, i..j) - SilenceAt(s, i, j) >= MinSpeechMs

Cuts(s) ==
  LET cut[from \in 1..(Len(s) + 1)] ==
        IF Opens(s, from) = {} THEN <<>>
        ELSE LET i == Min(Opens(s, from))
             IN IF Closes(s, i) = {} THEN <<>>
                ELSE LET j == Min(Closes(s, i))
                     IN (IF LongEnough(s, i, j) THEN <<[k \in 1..(j - i + 1) |-> i + k - 1]>>
                         ELSE <<>>)
                        \o cut[j + 1]
  IN cut[1]

\* Whatever is pushed, frame by frame and in reads of any length, the
\* utterances handed over are the cuts of the stream: none overlaps another,
\* none has a hole, none is left out and none made up.
HandsOverTheCuts == utterances = Cuts(stream)

\* Every utterance was announced by onStart_ at its first frame and by no
\* other frame, so a speaker who is transcribed has seen "listening" first.
Announced ==
  \A n \in DOMAIN utterances :
    Numbers(utterances[n]) \cap onsets = {Head(utterances[n])}
=============================================================================
