----------------------------- MODULE PushToTalk -----------------------------
(***************************************************************************)
(* Push-to-talk from the button to the clip: the pages that are held and  *)
(* released, their requests, the bridge (ptt_bridge.py), the command      *)
(* handler of the orchestrator and its capture thread (src/main.cpp).     *)
(*                                                                         *)
(* A frame of audio is known by the press it was read in: epoch counts    *)
(* the ptt_start commands, and a frame carries the epoch of its read.     *)
(***************************************************************************)
EXTENDS Naturals, Sequences, FiniteSets, SequencesExt

CONSTANTS Pages,        \* browser pages with the hold-to-talk button
          MinClip,      \* frames in 1600 samples: shorter clips are ignored
          MaxPress,     \* bound: presses considered
          MaxFrames     \* bound: frames in the buffer

ASSUME BoundsAssumption == MinClip \in Nat /\ MaxPress \in Nat /\ MaxFrames \in Nat

VARIABLES down,         \* the page believes its button is held
          presses,      \* presses so far
          requests,     \* HTTP requests on their way to the bridge
          mishap,       \* history: a request or a command was lost, overtaken
                        \* or never made
          connected,    \* the bridge has a socket to the orchestrator
          wire,         \* commands in that socket
          handler,      \* where the thread of the bridge's connection is
          active,       \* pttActive
          buffer,       \* pttBuf
          clip,         \* the handler's local u
          outcome,      \* what the last ptt_stop did
          capture,      \* where the capture thread is
          frame,        \* the epoch of the frame it holds
          epoch,        \* history: ptt_start commands so far
          heard         \* history: frames of this epoch taken for the buffer

web == <<down, presses, requests, mishap>>
bridge == <<connected, wire>>
daemon == <<handler, active, buffer, clip, outcome, capture, frame, epoch, heard>>
vars == <<web, bridge, daemon>>

Init ==
  /\ down = [p \in Pages |-> FALSE]
  /\ presses = 0
  /\ requests = <<>>
  /\ mishap = FALSE
  /\ connected = TRUE
  /\ wire = <<>>
  /\ handler = "recv"
  /\ active = FALSE
  /\ buffer = <<>>
  /\ clip = <<>>
  /\ outcome = "none"
  /\ capture = "read"
  /\ frame = 0
  /\ epoch = 0
  /\ heard = 0

(***************************************************************************)
(* The page: start() and stop() post without waiting for one another.      *)
(***************************************************************************)
Press(p) ==
  /\ ~down[p]
  /\ presses < MaxPress
  /\ presses' = presses + 1
  /\ down' = [down EXCEPT ![p] = TRUE]
  /\ requests' = Append(requests, "ptt_start")
  /\ UNCHANGED <<mishap, bridge, daemon>>

Release(p) ==
  /\ down[p]
  /\ down' = [down EXCEPT ![p] = FALSE]
  /\ requests' = Append(requests, "ptt_stop")
  /\ UNCHANGED <<presses, mishap, bridge, daemon>>

\* A page that is closed, or that loses sight of the pointer, posts nothing.
LeavePage(p) ==
  /\ down[p]
  /\ down' = [down EXCEPT ![p] = FALSE]
  /\ mishap' = TRUE
  /\ UNCHANGED <<presses, requests, bridge, daemon>>

(***************************************************************************)
(* The bridge: a thread per request, one lock around the socket.           *)
(***************************************************************************)
Forward ==
  /\ \E i \in DOMAIN requests :
       /\ requests' = RemoveAt(requests, i)
       /\ wire' = IF connected THEN Append(wire, requests[i]) ELSE wire
       /\ mishap' = (mishap \/ ~connected \/ \E j \in 1..(i - 1) : requests[j] # requests[i])
  /\ UNCHANGED <<down, presses, connected, daemon>>

\* What is in the socket may still be read by the other side, or is lost.
Disconnect ==
  /\ connected
  /\ connected' = FALSE
  /\ wire' \in {wire, <<>>}
  /\ mishap' = (mishap \/ wire' # wire)
  /\ UNCHANGED <<down, presses, requests, daemon>>

Reconnect ==
  /\ ~connected
  /\ connected' = TRUE
  /\ UNCHANGED <<web, wire, daemon>>

(***************************************************************************)
(* The command handler. Its calls into the pipeline keep nothing here.     *)
(***************************************************************************)
Handler(from, to) == handler = from /\ handler' = to

Receive ==
  /\ wire # <<>>
  /\ Handler("recv", Head(wire))
  /\ wire' = Tail(wire)
  /\ UNCHANGED <<web, connected, active, buffer, clip, outcome, capture, frame, epoch, heard>>

\* Mutant: ptt_start does not clear what an earlier press left behind.
StartUnclear ==
  /\ Handler("ptt_start", "raise")
  /\ epoch' = epoch + 1
  /\ heard' = 0
  /\ UNCHANGED <<web, bridge, active, buffer, clip, outcome, capture, frame>>

StartClear ==
  /\ Handler("ptt_start", "raise")
  /\ buffer' = <<>>
  /\ epoch' = epoch + 1
  /\ heard' = 0
  /\ UNCHANGED <<web, bridge, active, clip, outcome, capture, frame>>

StartRaise ==
  /\ Handler("raise", "recv")
  /\ active' = TRUE
  /\ UNCHANGED <<web, bridge, buffer, clip, outcome, capture, frame, epoch, heard>>

\* Mutant: ptt_stop leaves pttActive up until the clip has been used.
StopUnlowered ==
  /\ Handler("ptt_stop", "swap")
  /\ UNCHANGED <<web, bridge, active, buffer, clip, outcome, capture, frame, epoch, heard>>

StopLower ==
  /\ Handler("ptt_stop", "swap")
  /\ active' = FALSE
  /\ UNCHANGED <<web, bridge, buffer, clip, outcome, capture, frame, epoch, heard>>

StopSwap ==
  /\ Handler("swap", "use")
  /\ clip' = buffer
  /\ buffer' = <<>>
  /\ UNCHANGED <<web, bridge, active, outcome, capture, frame, epoch, heard>>

\* A clip of at least 0.1 s arms the pipeline and is offered to it; a
\* shorter one sets the display to idle.
StopUse ==
  /\ Handler("use", "recv")
  /\ outcome' = IF Len(clip) >= MinClip THEN "offered" ELSE "idle"
  /\ clip' = <<>>
  /\ heard' = 0
  /\ UNCHANGED <<web, bridge, active, buffer, capture, frame, epoch>>

HandlerStep == Receive \/ StartClear \/ StartRaise \/ StopLower \/ StopSwap \/ StopUse

(***************************************************************************)
(* The capture thread: read a frame, test pttActive, then lock and push.   *)
(***************************************************************************)
CaptureRead ==
  /\ capture = "read"
  /\ Len(buffer) < MaxFrames
  /\ capture' = "test"
  /\ frame' = epoch
  /\ UNCHANGED <<web, bridge, handler, active, buffer, clip, outcome, epoch, heard>>

TestHeld ==
  /\ capture = "test"
  /\ active
  /\ capture' = "push"
  /\ heard' = IF frame = epoch THEN heard + 1 ELSE heard
  /\ UNCHANGED <<web, bridge, handler, active, buffer, clip, outcome, frame, epoch>>

\* Not held: the frame goes to the VAD and the hotword worker.
TestFree ==
  /\ capture = "test"
  /\ ~active
  /\ capture' = "read"
  /\ UNCHANGED <<web, bridge, handler, active, buffer, clip, outcome, frame, epoch, heard>>

CapturePush ==
  /\ capture = "push"
  /\ buffer' = Append(buffer, frame)
  /\ capture' = "read"
  /\ UNCHANGED <<web, bridge, handler, active, clip, outcome, frame, epoch, heard>>

CaptureStep == CaptureRead \/ TestHeld \/ TestFree \/ CapturePush

Next ==
  \/ \E p \in Pages : Press(p) \/ Release(p) \/ LeavePage(p)
  \/ Forward
  \/ Disconnect
  \/ Reconnect
  \/ HandlerStep
  \/ CaptureStep

SafeSpec == Init /\ [][Next]_vars

(***************************************************************************)
(* Properties.                                                             *)
(***************************************************************************)
Places == {"recv", "ptt_start", "raise", "ptt_stop", "swap", "use"}

\* The type of every variable.
TypeOK ==
  /\ mishap \in BOOLEAN
  /\ down \in [Pages -> BOOLEAN]
  /\ presses \in 0..MaxPress
  /\ requests \in Seq({"ptt_start", "ptt_stop"})
  /\ connected \in BOOLEAN
  /\ wire \in Seq({"ptt_start", "ptt_stop"})
  /\ handler \in Places
  /\ active \in BOOLEAN
  /\ buffer \in Seq(0..MaxPress)
  /\ clip \in Seq(0..MaxPress)
  /\ outcome \in {"none", "offered", "idle"}
  /\ capture \in {"read", "test", "push"}
  /\ frame \in 0..MaxPress
  /\ epoch \in 0..MaxPress
  /\ heard \in 0..MaxFrames + 1

Count(s, frames) == Cardinality({i \in DOMAIN s : s[i] \in frames})
InClip(frames) == Count(clip, frames)

\* main.cpp:114 "mic is buffered only between ptt_start/ptt_stop": the clip
\* holds at most one frame read before the press, the one the capture thread
\* had in hand, although it tests pttActive outside pttMtx; and of the frames
\* taken during the press at most the last is missing.
ClipIsThePress ==
  handler = "use" =>
    /\ InClip(0..MaxPress \ {epoch}) <= 1
    /\ InClip({epoch}) + 1 >= heard

\* Nobody holds a button, and nothing is on its way.
Quiet ==
  /\ \A p \in Pages : ~down[p]
  /\ requests = <<>>
  /\ wire = <<>>
  /\ handler = "recv"

\* ptt_bridge.py:3 "forwards press/release to the orchestrator's Unix socket":
\* when every button is released and every command has been carried out, the
\* microphone is back with the wake word and the VAD, however the presses of
\* several pages overlap. It is not when a release was overtaken by its press
\* or got lost: nothing repeats a request, and nothing times a press out.
MicReleased == Quiet /\ ~mishap => ~active
=============================================================================
