--------------------------- MODULE CaptureProofs ---------------------------
(***************************************************************************)
(* What the two listeners promise that the capture thread feeds: the       *)
(* hotword worker with its reader (module Hotword), for pipes, reads and   *)
(* chunks of any size, any wake words and any refractory time, and the     *)
(* voice activity detector (module Vad), for streams, reads and times of   *)
(* any length.                                                             *)
(*                                                                         *)
(* Hotword: that the worker hears the audio in order rests on where each   *)
(* unit is (InTransit), that wake words are spaced on lastFire being the   *)
(* last firing (FiredBefore), that a window opens only for an active       *)
(* avatar on what each line in a pipe remembers (Remembered).              *)
(*                                                                         *)
(* Vad: what was handed over is the part of the cut that no frame to come  *)
(* can change (Settled), and the buffer and the silence are those of the   *)
(* utterance that the rest of the stream begins with (Speaks).             *)
(***************************************************************************)
EXTENDS Hotword, Vad, FiniteSetTheorems, SequenceTheorems, WellFoundedInduction, TLAPS

(***************************************************************************)
(* The hotword worker.                                                     *)
(***************************************************************************)
\* What fired, fired no later than lastFire says, and that is not to come.
FiredBefore ==
  \A k \in Keys :
    /\ lastFire[k] <= clock
    /\ \A i \in 1..Len(fired[k]) : fired[k][i] <= lastFire[k]

\* A step of the clock or of the detector, of both none.
LEMMA DetectorSteps ==
  ASSUME [Next]_vars
  PROVE  \/ UNCHANGED <<lastFire, fired, clock>>
         \/ UNCHANGED <<lastFire, fired>> /\ Tick
         \/ UNCHANGED clock /\ Predict
BY DEF Next, vars, control, audio, detector, listener, reading, world, WorkerStep, WorkerLoads,
  ReadChunk, PredictFails, PrintLine, SeeEnd, Exits, WorkerDies, CaptureStep, ReaderStep,
  MainStep, StartGated, StartUngated, JoinCapture, Kill, CloseFile, JoinReader, Signal, Crash,
  Change, SetAvatar, PressOrRelease, Tick

\* One key fires at most once per refractory time.
LEMMA SpacedStep ==
  Times /\ FiredBefore /\ WakesSpaced /\ [Next]_vars
    => FiredBefore' /\ WakesSpaced' /\ lastFire' \in [Keys -> Nat] /\ fired' \in [Keys -> Seq(Nat)]
<1> SUFFICES ASSUME Times, FiredBefore, WakesSpaced, [Next]_vars
             PROVE  /\ FiredBefore' /\ WakesSpaced'
                    /\ lastFire' \in [Keys -> Nat] /\ fired' \in [Keys -> Seq(Nat)]
  OBVIOUS
<1>0. Refractory \in Nat /\ clock \in Nat
  BY TimeAssumption DEF Times
<1>1. CASE UNCHANGED <<lastFire, fired, clock>>
  BY <1>1 DEF Times, FiredBefore, WakesSpaced
<1>2. CASE UNCHANGED <<lastFire, fired>> /\ Tick
  <2>1. clock' = clock + 1
    BY <1>2 DEF Tick
  <2>2. QED
    BY <1>0, <1>2, <2>1 DEF Times, FiredBefore, WakesSpaced
<1>3. CASE UNCHANGED clock /\ Predict
  <2>1. PICK above \in SUBSET Keys :
          /\ Report(Due(above))
          /\ lastFire' = [k \in Keys |-> IF k \in Due(above) THEN clock ELSE lastFire[k]]
    BY <1>3 DEF Predict
  <2>2. fired' = [k \in Keys |->
                    IF k \in Due(above) THEN Append(fired[k], clock) ELSE fired[k]]
    BY <2>1 DEF Report
  <2>3. \A k \in Due(above) : clock - lastFire[k] >= Refractory
    BY DEF Due
  <2>4. lastFire' \in [Keys -> Nat] /\ fired' \in [Keys -> Seq(Nat)]
    BY <1>0, <2>1, <2>2, <2>3 DEF Times
  <2>5. ASSUME NEW k \in Keys
        PROVE  /\ lastFire'[k] <= clock'
               /\ \A i \in 1..Len(fired'[k]) : fired'[k][i] <= lastFire'[k]
               /\ \A i, j \in 1..Len(fired'[k]) :
                    i < j => fired'[k][j] - fired'[k][i] >= Refractory
    <3> DEFINE f == fired[k]
               n == Len(f)
               last == lastFire[k]
    <3>1. /\ f \in Seq(Nat) /\ n \in Nat /\ last \in Nat /\ last <= clock
          /\ \A i \in 1..n : f[i] \in Nat /\ f[i] <= last
          /\ \A i, j \in 1..n : i < j => f[j] - f[i] >= Refractory
      <4>1. f \in Seq(Nat) /\ last \in Nat
        BY DEF Times
      <4>2. n \in Nat /\ DOMAIN f = 1..n /\ \A i \in 1..n : f[i] \in Nat
        BY <4>1, LenProperties, ElementOfSeq
      <4>3. QED
        BY <4>1, <4>2 DEF FiredBefore, WakesSpaced
    <3>2. CASE k \notin Due(above)
      <4>1. fired'[k] = f /\ lastFire'[k] = last /\ clock' = clock
        BY <1>3, <2>1, <2>2, <3>2 DEF Times
      <4> HIDE DEF f, n, last
      <4>2. QED
        BY <3>1, <4>1 DEF n
    <3>3. CASE k \in Due(above)
      <4>1. fired'[k] = Append(f, clock) /\ lastFire'[k] = clock /\ clock' = clock
            /\ clock - last >= Refractory
        BY <1>3, <2>1, <2>2, <2>3, <3>3 DEF Times
      <4> HIDE DEF f, last
      <4>2. /\ Len(Append(f, clock)) = n + 1
            /\ \A i \in 1..(n + 1) : Append(f, clock)[i] = IF i = n + 1 THEN clock ELSE f[i]
        BY <1>0, <3>1, AppendProperties
      <4> DEFINE g == Append(f, clock)
      <4> HIDE DEF g, n
      <4>3. \A i \in 1..(n + 1) : g[i] <= clock
        BY <1>0, <3>1, <4>2 DEF g
      <4>4. \A i, j \in 1..(n + 1) : i < j => g[j] - g[i] >= Refractory
        <5> SUFFICES ASSUME NEW i \in 1..(n + 1), NEW j \in 1..(n + 1), i < j
                     PROVE  g[j] - g[i] >= Refractory
          OBVIOUS
        <5>1. i \in 1..n /\ g[i] = f[i] /\ f[i] \in Nat /\ f[i] <= last
          BY <3>1, <4>2 DEF g
        <5>2. CASE j = n + 1
          <6>1. g[j] = clock
            BY <4>2, <5>2 DEF g
          <6>2. clock - f[i] >= Refractory
            BY <1>0, <3>1, <4>1, <5>1
          <6>3. QED
            BY <5>1, <6>1, <6>2, Zenon
        <5>3. CASE j # n + 1
          <6>1. j \in 1..n /\ g[j] = f[j]
            BY <3>1, <4>2, <5>3 DEF g
          <6>2. f[j] - f[i] >= Refractory
            BY <3>1, <5>1, <6>1
          <6>3. QED
            BY <5>1, <6>1, <6>2, Zenon
        <5>4. QED
          BY <5>2, <5>3
      <4>5. QED
        BY <1>0, <4>1, <4>2, <4>3, <4>4 DEF g
    <3>4. QED
      BY <3>2, <3>3
  <2>6. FiredBefore' /\ WakesSpaced'
    <3>1. \A k \in Keys : DOMAIN fired'[k] = 1..Len(fired'[k])
      BY <2>4, LenProperties
    <3>2. QED
      BY <2>5, <3>1 DEF FiredBefore, WakesSpaced
  <2>7. QED
    BY <2>4, <2>6
<1>4. QED
  BY <1>1, <1>2, <1>3, DetectorSteps

(***************************************************************************)
(* Sequences.                                                              *)
(***************************************************************************)
\* Three lists of utterances make the same list either way.
LEMMA JoinedThrice ==
  \A a, b, c \in Seq(Seq(Nat)) : (a \o b) \o c = a \o (b \o c)
<1> DEFINE T == Seq(Nat)
<1> HIDE DEF T
<1>1. \A a, b, c \in Seq(T) : (a \o b) \o c = a \o (b \o c)
  BY ConcatAssociative
<1>2. QED
  BY <1>1 DEF T

\* An element of a sequence.
LEMMA Element == ASSUME NEW S, NEW s \in Seq(S), NEW i \in 1..Len(s) PROVE s[i] \in S
OBVIOUS

\* A sequence cut after k elements.
LEMMA TakenInOrder ==
  ASSUME NEW S, NEW s \in Seq(S), NEW k \in 0..Len(s)
  PROVE  /\ SubSeq(s, 1, k) \in Seq(S) /\ Len(SubSeq(s, 1, k)) = k
         /\ \A i \in 1..k : SubSeq(s, 1, k)[i] = s[i]
         /\ SubSeq(s, k + 1, Len(s)) \in Seq(S) /\ Len(SubSeq(s, k + 1, Len(s))) = Len(s) - k
         /\ \A i \in 1..(Len(s) - k) : SubSeq(s, k + 1, Len(s))[i] = s[k + i]
OBVIOUS

\* Two sequences, one after the other.
LEMMA Joined ==
  ASSUME NEW S, NEW s \in Seq(S), NEW t \in Seq(S)
  PROVE  /\ s \o t \in Seq(S) /\ Len(s \o t) = Len(s) + Len(t)
         /\ \A i \in 1..Len(s) : (s \o t)[i] = s[i]
         /\ \A i \in (Len(s) + 1)..(Len(s) + Len(t)) : (s \o t)[i] = t[i - Len(s)]
OBVIOUS

\* The lines of a prediction are lines.
LEMMA SetToSeqType ==
  ASSUME NEW S, IsFiniteSet(S)
  PROVE  SetToSeq(S) \in Seq(S)
<1>1. PICK f \in Bijection(1..Cardinality(S), S) : TRUE
  BY FS_CardinalityType DEF ExistsBijection
<1>2. f \in [1..Cardinality(S) -> S] /\ IsInjective(f)
  BY <1>1 DEF Bijection, Injection, Surjection, IsInjective
<1>3. SetToSeq(S) \in [1..Cardinality(S) -> S]
  BY <1>2 DEF SetToSeq
<1>4. Cardinality(S) \in Nat
  BY FS_CardinalityType
<1>5. QED
  BY <1>3, <1>4

(***************************************************************************)
(* Types.                                                                  *)
(***************************************************************************)
\* The flags and the places.
LEMMA FlagsStep == Flags /\ [Next]_vars => Flags'
BY DEF Flags, Next, vars, control, world, WorkerStep, WorkerDies, CaptureStep, ReaderStep,
  MainStep, StartGated, StartUngated, JoinCapture, Kill, CloseFile, JoinReader, Signal, Crash,
  Change, SetAvatar, PressOrRelease, Tick

LEMMA PlacesStep == Places /\ [Next]_vars => Places'
BY DEF Places, Next, vars, control, audio, detector, listener, reading, world, WorkerStep,
  WorkerLoads, ReadChunk, Predict, Report, PredictFails, PrintLine, SeeEnd, Exits, WorkerDies,
  CaptureStep, CaptureTest, ReadAside, ReadFree, Feed, Fed, ReaderStep, ReaderTest, ReaderTakes,
  ReaderSeesEnd, Match, OnWake, MainStep, StartGated, StartUngated, CaptureStarts, JoinCapture,
  Kill, CloseFile, JoinReader, Signal, Crash, Change, SetAvatar, PressOrRelease, Tick

\* The clock, the scores and the changes.
LEMMA TimesStep == Times /\ FiredBefore /\ WakesSpaced /\ [Next]_vars => Times'
<1> SUFFICES ASSUME Times, FiredBefore, WakesSpaced, [Next]_vars PROVE Times'
  OBVIOUS
<1>1. lastFire' \in [Keys -> Nat] /\ fired' \in [Keys -> Seq(Nat)]
  BY SpacedStep
<1>2. clock' = clock \/ (clock < MaxTicks /\ clock' = clock + 1)
  BY DetectorSteps DEF Tick, Predict, Report
<1>3. lastScore' \in {lastScore, clock}
  BY DEF Next, vars, control, audio, detector, listener, reading, world, WorkerStep,
    WorkerLoads, ReadChunk, Predict, Report, PredictFails, PrintLine, SeeEnd, Exits, WorkerDies,
    CaptureStep, ReaderStep, MainStep, StartGated, StartUngated, JoinCapture, Kill, CloseFile,
    JoinReader, Signal, Crash, Change, SetAvatar, PressOrRelease, Tick
<1>4. changes' = changes \/ (changes < MaxChanges /\ changes' = changes + 1)
  BY DEF Next, vars, control, audio, detector, listener, reading, world, WorkerStep, WorkerDies,
    CaptureStep, ReaderStep, MainStep, Signal, Crash, Change, SetAvatar, PressOrRelease, Tick
<1>5. QED
  BY <1>1, <1>2, <1>3, <1>4, TimeAssumption DEF Times

(***************************************************************************)
(* The audio.                                                              *)
(***************************************************************************)
\* Who has something in his hand.
Hands ==
  /\ capture # "feed" => frame = <<>>
  /\ worker = "predict" <=> chunk # <<>>
  /\ main = "crashed" => frame = <<>> /\ capture = "ended"

\* The units of s follow unit n.
Follows(s, n) == \A i \in 1..Len(s) : s[i] = n + i

\* While the worker lives, every unit that it has not heard is in its hand,
\* in the pipe or in the hand of the capture thread, in this order.
InTransit ==
  worker # "exited" =>
    /\ Follows(chunk, heard)
    /\ Follows(inp, heard + Len(chunk))
    /\ Follows(frame, heard + Len(chunk) + Len(inp))
    /\ main # "crashed" => heard + Len(chunk) + Len(inp) + Len(frame) = fed

\* Steps that hand no audio on, and steps on which the worker exits.
Aside ==
  /\ UNCHANGED <<frame, inp, chunk, fed, heard>>
  /\ UNCHANGED capture \/ (capture \notin {"feed", "ended"} /\ capture' # "feed")
  /\ UNCHANGED worker \/ (worker \in {"load", "print"} /\ worker' \notin {"predict", "exited"})
  /\ main' = "crashed" <=> main = "crashed"
Gone ==
  /\ worker' = "exited" /\ chunk' = <<>> /\ inp' = <<>>
  /\ UNCHANGED <<frame, capture, fed, heard>>
  /\ main' = "crashed" <=> main = "crashed"

\* Everything else is a read, a write or a prediction, or the crash.
LEMMA AudioSteps ==
  ASSUME [Next]_vars, Places, main = "start" => capture = "off"
  PROVE  \/ Aside \/ Gone \/ Crash
         \/ (ReadChunk \/ Predict \/ PredictFails) /\ UNCHANGED <<main, capture, frame, fed>>
         \/ (ReadFree \/ Feed) /\ UNCHANGED <<main, worker, chunk, heard>>
<1> USE DEF control, audio, detector, listener, reading, world
<1>1. CASE WorkerStep
  BY <1>1 DEF WorkerStep, WorkerLoads, PrintLine, SeeEnd, Exits, Aside, Gone
<1>2. CASE WorkerDies \/ (Kill /\ UNCHANGED world)
  BY <1>2 DEF WorkerDies, Kill, Exits, Gone
<1>3. CASE CaptureStep
  BY <1>3 DEF CaptureStep, CaptureTest, ReadAside, Aside
<1>4. CASE (StartGated \/ StartUngated) /\ UNCHANGED world
  BY <1>4 DEF StartGated, StartUngated, CaptureStarts, Aside
<1>5. CASE (JoinCapture \/ CloseFile \/ JoinReader) /\ UNCHANGED world
  BY <1>5 DEF JoinCapture, CloseFile, JoinReader, Aside
<1>6. CASE ReaderStep \/ Signal \/ Tick \/ PressOrRelease \/ UNCHANGED vars
  BY <1>6 DEF ReaderStep, Signal, Tick, PressOrRelease, Change, vars, Aside
<1>7. ASSUME NEW n \in Names \cup {Anyone}, SetAvatar(n) PROVE Aside
  BY <1>7 DEF SetAvatar, Change, Aside
<1>8. QED
  BY <1>1, <1>2, <1>3, <1>4, <1>5, <1>6, <1>7 DEF Next, MainStep

\* The capture thread runs once the main thread has started it.
CaptureOff == main = "start" => capture = "off"
LEMMA CaptureOffStep == CaptureOff /\ [Next]_vars => CaptureOff'
BY DEF CaptureOff, Next, vars, control, audio, detector, listener, reading, world, WorkerStep,
  WorkerDies, CaptureStep, CaptureTest, ReadAside, ReadFree, Feed, Fed, ReaderStep, MainStep,
  StartGated, StartUngated, JoinCapture, Kill, CloseFile, JoinReader, Signal, Crash, Change,
  SetAvatar, PressOrRelease, Tick

LEMMA AudioStep ==
  Places /\ Units /\ CaptureOff /\ Hands /\ InTransit /\ [Next]_vars
    => Units' /\ Hands' /\ InTransit'
<1> SUFFICES ASSUME Places, Units, CaptureOff, Hands, InTransit, [Next]_vars
             PROVE  Units' /\ Hands' /\ InTransit'
  OBVIOUS
<1>0. MaxUnits \in Nat /\ InRoom \in Nat /\ Chunk \in Nat \ {0} /\ Chunk <= InRoom
      /\ Sizes \subseteq 1..InRoom
  BY AudioAssumption, TimeAssumption
<1>1. CASE Aside
  <2>1. Units' /\ InTransit'
    BY <1>1 DEF Aside, Units, InTransit, Follows
  <2>2. Hands'
    BY <1>1 DEF Aside, Hands
  <2>3. QED
    BY <2>1, <2>2
<1>2. CASE Gone
  <2>1. Units' /\ InTransit'
    BY <1>0, <1>2 DEF Gone, Units, InTransit
  <2>2. Hands'
    BY <1>2 DEF Gone, Hands
  <2>3. QED
    BY <2>1, <2>2
<1>3. CASE Crash
  <2>1. frame' = <<>> /\ capture' = "ended"
        /\ UNCHANGED <<fed, inp, worker, chunk, heard>> /\ main' = "crashed"
    BY <1>3 DEF Crash, listener, detector
  <2>2. Units' /\ InTransit'
    BY <2>1 DEF Units, InTransit, Follows
  <2>3. Hands'
    BY <2>1 DEF Hands
  <2>4. QED
    BY <2>2, <2>3
<1>4. CASE ReadChunk /\ UNCHANGED <<main, capture, frame, fed>>
  <2>1. /\ worker = "read" /\ worker' = "predict" /\ Len(inp) >= Chunk
        /\ chunk' = SubSeq(inp, 1, Chunk) /\ inp' = SubSeq(inp, Chunk + 1, Len(inp))
        /\ UNCHANGED <<heard, main, capture, frame, fed>> /\ chunk = <<>>
    BY <1>4 DEF ReadChunk, detector, Hands
  <2>2. inp \in Seq(1..MaxUnits) /\ Chunk \in 0..Len(inp)
    BY <1>0, <2>1 DEF Units
  <2>3. /\ chunk' \in Seq(1..MaxUnits) /\ Len(chunk') = Chunk
        /\ \A i \in 1..Chunk : chunk'[i] = inp[i]
        /\ inp' \in Seq(1..MaxUnits) /\ Len(inp') = Len(inp) - Chunk
        /\ \A i \in 1..(Len(inp) - Chunk) : inp'[i] = inp[Chunk + i]
    BY <2>1, <2>2, TakenInOrder
  <2>4. Units'
    BY <1>0, <2>1, <2>2, <2>3 DEF Units
  <2>5. Hands'
    BY <1>0, <2>1, <2>3 DEF Hands
  <2>6. /\ Follows(inp, heard)
        /\ Follows(frame, heard + Len(inp))
        /\ main # "crashed" => heard + Len(inp) + Len(frame) = fed
    BY <2>1 DEF InTransit, Units
  <2>7. heard \in Nat /\ Chunk \in Nat /\ Len(inp) \in Nat /\ Len(frame) \in Nat
        /\ Chunk <= Len(inp)
    BY <1>0, <2>1 DEF Units
  <2>8. Follows(chunk', heard')
    BY <2>1, <2>3, <2>6, <2>7 DEF Follows
  <2>9. ASSUME NEW i \in 1..Len(inp') PROVE inp'[i] = heard + Chunk + i
    <3>1. i \in 1..(Len(inp) - Chunk)
      BY <2>3
    <3>2. Chunk + i \in 1..Len(inp)
      BY <2>7, <3>1
    <3>3. inp'[i] = inp[Chunk + i] /\ inp[Chunk + i] = heard + (Chunk + i)
      BY <2>3, <2>6, <3>1, <3>2 DEF Follows
    <3>4. QED
      BY <2>7, <3>1, <3>3
  <2>10. Follows(inp', heard' + Len(chunk'))
    BY <2>1, <2>3, <2>9 DEF Follows
  <2>11. heard' + Len(chunk') + Len(inp') = heard + Len(inp)
    <3>1. heard + Chunk + (Len(inp) - Chunk) = heard + Len(inp)
      BY <2>7
    <3>2. QED
      BY <2>1, <2>3, <3>1
  <2>12. /\ Follows(frame', heard' + Len(chunk') + Len(inp'))
         /\ main' # "crashed" => heard' + Len(chunk') + Len(inp') + Len(frame') = fed'
    BY <2>1, <2>6, <2>11
  <2>13. QED
    BY <2>4, <2>5, <2>8, <2>10, <2>12 DEF InTransit
<1>5. CASE (Predict \/ PredictFails) /\ UNCHANGED <<main, capture, frame, fed>>
  <2>1. /\ worker = "predict" /\ worker' \in {"read", "print"} /\ chunk' = <<>>
        /\ heard' = Last(chunk) /\ inp' = inp /\ UNCHANGED <<main, capture, frame, fed>>
    BY <1>5 DEF Predict, PredictFails, Report
  <2>2. chunk \in Seq(1..MaxUnits) /\ Len(chunk) \in Nat \ {0}
    BY <2>1 DEF Units, Hands
  <2>3. heard' = heard + Len(chunk)
    BY <2>1, <2>2 DEF Last, InTransit, Follows, Units
  <2>4. heard' \in 1..MaxUnits
    <3>1. Len(chunk) \in 1..Len(chunk)
      BY <2>2
    <3>2. chunk[Len(chunk)] \in 1..MaxUnits
      BY <2>2, <3>1, Element
    <3>3. QED
      BY <2>1, <3>2 DEF Last
  <2>5. Units'
    BY <2>1, <2>4 DEF Units
  <2>6. Hands'
    BY <2>1 DEF Hands
  <2>7. InTransit'
    BY <2>1, <2>2, <2>3 DEF InTransit, Follows, Units
  <2>8. QED
    BY <2>5, <2>6, <2>7
<1>6. CASE ReadFree /\ UNCHANGED <<main, worker, chunk, heard>>
  <2>1. PICK n \in Sizes :
          fed + n <= MaxUnits /\ fed' = fed + n /\ frame' = [i \in 1..n |-> fed + i]
    BY <1>6 DEF ReadFree
  <2>2. /\ capture = "read" /\ capture' = "feed" /\ frame = <<>>
        /\ UNCHANGED <<main, worker, chunk, heard, inp>> /\ main # "crashed"
    BY <1>6 DEF ReadFree, Hands
  <2>3. n \in Nat \ {0} /\ frame' \in Seq(1..MaxUnits) /\ Len(frame') = n
        /\ \A i \in 1..n : frame'[i] = fed + i
    BY <1>0, <2>1 DEF Units
  <2>4. Units'
    BY <1>0, <2>1, <2>2, <2>3 DEF Units
  <2>5. Hands'
    BY <2>2 DEF Hands
  <2>6. ASSUME worker # "exited"
        PROVE  /\ Follows(chunk, heard) /\ Follows(inp, heard + Len(chunk))
               /\ fed = heard + Len(chunk) + Len(inp)
    BY <2>2, <2>6 DEF InTransit, Units, Follows
  <2>7. InTransit'
    BY <2>1, <2>2, <2>3, <2>6 DEF InTransit, Follows, Units
  <2>8. QED
    BY <2>4, <2>5, <2>7
<1>7. CASE Feed /\ UNCHANGED <<main, worker, chunk, heard>>
  <2>1. /\ capture = "feed" /\ capture' = "test" /\ frame' = <<>>
        /\ UNCHANGED <<main, worker, chunk, heard, fed>> /\ main # "crashed"
        /\ \/ worker = "exited" /\ inp' = inp
           \/ Len(inp) + Len(frame) <= InRoom /\ inp' = inp \o frame
    BY <1>7 DEF Feed, Fed, Fits, Hands
  <2>2. Hands'
    BY <2>1 DEF Hands
  <2>3. CASE worker = "exited" /\ inp' = inp
    BY <2>1, <2>2, <2>3 DEF Units, InTransit
  <2>4. CASE Len(inp) + Len(frame) <= InRoom /\ inp' = inp \o frame
    <3>1. /\ inp' \in Seq(1..MaxUnits) /\ Len(inp') = Len(inp) + Len(frame)
          /\ \A i \in 1..Len(inp) : inp'[i] = inp[i]
          /\ \A i \in (Len(inp) + 1)..(Len(inp) + Len(frame)) : inp'[i] = frame[i - Len(inp)]
      BY <2>4, Joined DEF Units
    <3>2. Units'
      BY <2>1, <2>4, <3>1 DEF Units
    <3>3. ASSUME worker # "exited",
                 Follows(inp, heard + Len(chunk)),
                 Follows(frame, heard + Len(chunk) + Len(inp)),
                 NEW i \in 1..Len(inp')
          PROVE  inp'[i] = heard + Len(chunk) + i
      <4>1. heard \in Nat /\ Len(chunk) \in Nat /\ Len(inp) \in Nat /\ Len(frame) \in Nat
        BY DEF Units
      <4>2. CASE i \in 1..Len(inp)
        BY <3>1, <3>3, <4>2 DEF Follows
      <4>3. CASE i \in (Len(inp) + 1)..(Len(inp) + Len(frame))
        <5>1. i - Len(inp) \in 1..Len(frame)
          BY <4>1, <4>3
        <5>2. inp'[i] = heard + Len(chunk) + Len(inp) + (i - Len(inp))
          BY <3>1, <3>3, <4>3, <5>1 DEF Follows
        <5>3. QED
          BY <4>1, <4>3, <5>2
      <4>4. QED
        BY <3>1, <3>3, <4>1, <4>2, <4>3
    <3>4. InTransit'
      BY <2>1, <3>1, <3>3 DEF InTransit, Follows, Units
    <3>5. QED
      BY <2>2, <3>2, <3>4
  <2>5. QED
    BY <2>1, <2>3, <2>4
<1>8. QED
  BY <1>1, <1>2, <1>3, <1>4, <1>5, <1>6, <1>7, AudioSteps DEF CaptureOff

\* It is heard in order.
LEMMA InOrder == Units /\ InTransit => HeardInOrder
<1> SUFFICES ASSUME Units, InTransit, worker # "exited"
             PROVE  LET ahead == chunk \o inp \o frame IN
                    /\ \A i \in DOMAIN ahead : ahead[i] = heard + i
                    /\ main # "crashed" => heard + Len(ahead) = fed
  BY DEF HeardInOrder
<1> DEFINE first == chunk \o inp
           ahead == first \o frame
<1>1. /\ first \in Seq(1..MaxUnits) /\ Len(first) = Len(chunk) + Len(inp)
      /\ \A i \in 1..Len(chunk) : first[i] = chunk[i]
      /\ \A i \in (Len(chunk) + 1)..(Len(chunk) + Len(inp)) : first[i] = inp[i - Len(chunk)]
  BY Joined DEF Units
<1> HIDE DEF first
<1>2. /\ ahead \in Seq(1..MaxUnits) /\ Len(ahead) = Len(first) + Len(frame)
      /\ \A i \in 1..Len(first) : ahead[i] = first[i]
      /\ \A i \in (Len(first) + 1)..(Len(first) + Len(frame)) : ahead[i] = frame[i - Len(first)]
  <2>1. first \in Seq(1..MaxUnits)
    BY <1>1
  <2>2. frame \in Seq(1..MaxUnits)
    BY DEF Units
  <2>3. QED
    BY <2>1, <2>2, Joined
<1> HIDE DEF ahead
<1>3. /\ Follows(chunk, heard) /\ Follows(inp, heard + Len(chunk))
      /\ Follows(frame, heard + Len(chunk) + Len(inp))
      /\ main # "crashed" => heard + Len(chunk) + Len(inp) + Len(frame) = fed
  BY DEF InTransit
<1>4. heard \in Nat /\ Len(chunk) \in Nat /\ Len(inp) \in Nat /\ Len(frame) \in Nat
  BY DEF Units
<1>5. ASSUME NEW i \in 1..Len(first) PROVE first[i] = heard + i
  <2>1. CASE i \in 1..Len(chunk)
    BY <1>1, <1>3, <2>1 DEF Follows
  <2>2. CASE i \in (Len(chunk) + 1)..(Len(chunk) + Len(inp))
    <3>1. i - Len(chunk) \in 1..Len(inp)
      BY <1>4, <2>2
    <3>2. first[i] = heard + Len(chunk) + (i - Len(chunk))
      BY <1>1, <1>3, <2>2, <3>1 DEF Follows
    <3>3. QED
      BY <1>4, <2>2, <3>2
  <2>3. QED
    BY <1>1, <1>4, <2>1, <2>2
<1>6. ASSUME NEW i \in 1..Len(ahead) PROVE ahead[i] = heard + i
  <2>1. CASE i \in 1..Len(first)
    BY <1>2, <1>5, <2>1
  <2>2. CASE i \in (Len(first) + 1)..(Len(first) + Len(frame))
    <3>1. i - Len(first) \in 1..Len(frame) /\ Len(first) \in Nat
      BY <1>1, <1>4, <2>2
    <3>2. ahead[i] = heard + Len(chunk) + Len(inp) + (i - Len(first))
      BY <1>2, <1>3, <2>2, <3>1 DEF Follows
    <3>3. QED
      BY <1>1, <1>4, <2>2, <3>2
  <2>3. QED
    BY <1>1, <1>2, <1>4, <2>1, <2>2
<1>7. main # "crashed" => heard + Len(ahead) = fed
  BY <1>1, <1>2, <1>3, <1>4
<1>8. DOMAIN ahead = 1..Len(ahead)
  BY <1>2
<1>9. QED
  BY <1>6, <1>7, <1>8 DEF ahead, first

(***************************************************************************)
(* The lines.                                                              *)
(***************************************************************************)
\* The worker prints while it has a line.
Talking == worker = "print" <=> lines # <<>>

\* Who reads a line finds the avatar that is active now in it.
Remembered ==
  /\ \A i \in 1..Len(out) : active \in out[i].since
  /\ reader = "match" => active \in line.since
  /\ WokenByActive

\* Steps that touch no line, and steps on which the worker exits.
Silent ==
  /\ UNCHANGED <<lines, out, line, active>>
  /\ UNCHANGED reader \/ reader' \notin {"match", "onwake"}
  /\ worker' = "print" <=> worker = "print"
Quits ==
  /\ worker' = "exited" /\ lines' = <<>>
  /\ UNCHANGED <<out, reader, line, active>>

LEMMA LineSteps ==
  ASSUME [Next]_vars
  PROVE  \/ Silent \/ Quits
         \/ (WorkerLoads \/ Predict \/ PrintLine) /\ UNCHANGED <<reader, line, active>>
         \/ (ReaderTakes \/ Match \/ OnWake) /\ UNCHANGED <<worker, lines, active>>
         \/ (StartGated \/ CloseFile) /\ UNCHANGED active
         \/ Crash
         \/ \E n \in Names \cup {Anyone} : SetAvatar(n)
<1> USE DEF control, audio, detector, listener, reading, world
<1>1. CASE WorkerStep
  BY <1>1 DEF WorkerStep, ReadChunk, PredictFails, SeeEnd, Exits, Silent, Quits
<1>2. CASE WorkerDies \/ (Kill /\ UNCHANGED world)
  BY <1>2 DEF WorkerDies, Kill, Exits, Quits
<1>3. CASE CaptureStep
  BY <1>3 DEF CaptureStep, CaptureTest, ReadAside, ReadFree, Feed, Fed, Silent
<1>4. CASE ReaderStep
  BY <1>4 DEF ReaderStep, ReaderTest, ReaderSeesEnd, Silent
<1>5. CASE MainStep
  BY <1>2, <1>5 DEF MainStep, StartUngated, JoinCapture, JoinReader, Silent
<1>6. CASE Signal \/ Tick \/ PressOrRelease \/ UNCHANGED vars
  BY <1>6 DEF Signal, Tick, PressOrRelease, Change, vars, Silent
<1>7. QED
  BY <1>1, <1>2, <1>3, <1>4, <1>5, <1>6 DEF Next

\* The lines of a prediction.
LEMMA Predicted ==
  ASSUME Predict, Times PROVE lines' \in Seq(LineType) /\ out' = out
<1>1. PICK above \in SUBSET Keys : Report(Due(above))
  BY DEF Predict
<1> DEFINE wakes == {Wake(k) : k \in Due(above)}
           first == IF ScoreDue THEN <<Score>> ELSE <<>>
<1>2. lines' = first \o SetToSeq(wakes) /\ out' = out
  BY <1>1 DEF Report
<1>3. Due(above) \subseteq Keys /\ IsFiniteSet(Due(above))
  BY KeysAssumption, FS_Subset DEF Due
<1>4. IsFiniteSet(wakes)
  <2> DEFINE f == [k \in Due(above) |-> Wake(k)]
  <2>1. f \in [Due(above) -> wakes] /\ \A w \in wakes : \E k \in Due(above) : f[k] = w
    OBVIOUS
  <2>2. f \in Surjection(Due(above), wakes)
    BY <2>1 DEF Surjection
  <2>3. QED
    BY <1>3, <2>2, FS_Surjection DEF ExistsSurjection
<1>5. wakes \subseteq LineType /\ first \in Seq(LineType)
  <2>1. \A k \in Keys : Wake(k) \in LineType
    BY DEF Wake, LineOf, LineType
  <2>2. wakes \subseteq LineType
    BY <1>3, <2>1
  <2>3. Score \in LineType
    BY DEF Score, LineOf, LineType
  <2>4. QED
    BY <2>2, <2>3
<1> HIDE DEF wakes, first
<1>6. SetToSeq(wakes) \in Seq(wakes)
  BY <1>4, SetToSeqType
<1>7. SetToSeq(wakes) \in Seq(LineType)
  BY <1>5, <1>6
<1>8. QED
  BY <1>2, <1>5, <1>7

LEMMA PrintedStep ==
  Times /\ Places /\ Talking /\ Printed /\ Remembered /\ [Next]_vars
    => Talking' /\ Printed' /\ Remembered'
<1> SUFFICES ASSUME Times, Places, Talking, Printed, Remembered, [Next]_vars
             PROVE  Talking' /\ Printed' /\ Remembered'
  OBVIOUS
<1>0. OutRoom \in Nat \ {0}
  BY AudioAssumption
<1>1. CASE Silent
  BY <1>1 DEF Silent, Talking, Printed, Remembered, WokenByActive
<1>2. CASE Quits
  BY <1>2 DEF Quits, Talking, Printed, Remembered, WokenByActive
<1>3. CASE WorkerLoads /\ UNCHANGED <<reader, line, active>>
  <2>1. worker' = "print" /\ lines' = <<Ready>> /\ out' = out
    BY <1>3 DEF WorkerLoads
  <2>2. Ready \in LineType
    BY DEF Ready, LineOf, LineType
  <2>3. QED
    BY <1>3, <2>1, <2>2 DEF Talking, Printed, Remembered, WokenByActive
<1>4. CASE Predict /\ UNCHANGED <<reader, line, active>>
  <2>1. lines' \in Seq(LineType) /\ out' = out
    BY <1>4, Predicted
  <2>2. Talking'
    BY <1>4 DEF Predict, Report, Talking
  <2>3. QED
    BY <1>4, <2>1, <2>2 DEF Printed, Remembered, WokenByActive
<1>5. CASE PrintLine /\ UNCHANGED <<reader, line, active>>
  <2> DEFINE said == [Head(lines) EXCEPT !.since = {active}]
  <2>1. /\ Len(out) < OutRoom /\ out' = Append(out, said) /\ lines' = Tail(lines)
        /\ lines # <<>> /\ worker' = IF lines' = <<>> THEN "read" ELSE "print"
    BY <1>5 DEF PrintLine, Talking
  <2>2. Head(lines) \in LineType /\ Tail(lines) \in Seq(LineType)
    BY <2>1 DEF Printed
  <2>3. said \in LineType /\ active \in said.since
    BY <2>2 DEF LineType, Printed
  <2> HIDE DEF said
  <2>4. out' \in Seq(LineType) /\ Len(out') = Len(out) + 1 /\ Len(out') <= OutRoom
        /\ \A i \in 1..Len(out') : active \in out'[i].since
    BY <1>0, <2>1, <2>3 DEF Printed, Remembered
  <2>5. Printed'
    BY <1>5, <2>1, <2>2, <2>4 DEF Printed
  <2>6. Remembered'
    BY <1>5, <2>4 DEF Remembered, WokenByActive
  <2>7. Talking'
    BY <2>1 DEF Talking
  <2>8. QED
    BY <2>5, <2>6, <2>7
<1>6. CASE ReaderTakes /\ UNCHANGED <<worker, lines, active>>
  <2>1. /\ out # <<>> /\ out' = Tail(out)
        /\ \/ reader' = "match" /\ line' = Head(out)
           \/ reader' = "test" /\ line' = line
    BY <1>6 DEF ReaderTakes
  <2>2. Head(out) \in LineType /\ active \in Head(out).since
    BY <2>1 DEF Printed, Remembered
  <2>3. out' \in Seq(LineType) /\ Len(out') <= OutRoom
        /\ \A i \in 1..Len(out') : active \in out'[i].since
    BY <1>0, <2>1 DEF Printed, Remembered
  <2>4. QED
    BY <1>6, <2>1, <2>2, <2>3 DEF Printed, Remembered, WokenByActive, Talking
<1>7. CASE (Match \/ OnWake) /\ UNCHANGED <<worker, lines, active>>
  <2>1. Score \in LineType
    BY DEF Score, LineOf, LineType
  <2>2. /\ out' = out /\ line' \in {line, Score} /\ reader' # "match"
        /\ reader' = "onwake" =>
             reader = "match" /\ line' = line /\ active \in {Anyone, line.key}
    BY <1>7 DEF Match, OnWake
  <2>3. QED
    BY <1>7, <2>1, <2>2 DEF Printed, Remembered, WokenByActive, Talking
<1>8. CASE StartGated /\ UNCHANGED active
  <2>1. /\ out # <<>> /\ out' = Tail(out) /\ reader' = "test"
        /\ UNCHANGED <<worker, lines, line>>
    BY <1>8 DEF StartGated, listener
  <2>2. out' \in Seq(LineType) /\ Len(out') <= OutRoom
        /\ \A i \in 1..Len(out') : active \in out'[i].since
    BY <1>0, <2>1 DEF Printed, Remembered
  <2>3. QED
    BY <1>8, <2>1, <2>2 DEF Printed, Remembered, WokenByActive, Talking
<1>9. CASE CloseFile /\ UNCHANGED active
  BY <1>0, <1>9 DEF CloseFile, listener, reading, Printed, Remembered, WokenByActive, Talking
<1>10. CASE Crash
  <2>1. Score \in LineType
    BY DEF Score, LineOf, LineType
  <2>2. QED
    BY <1>0, <1>10, <2>1
    DEF Crash, listener, world, Printed, Remembered, WokenByActive, Talking
<1>11. ASSUME NEW n \in Names \cup {Anyone}, SetAvatar(n)
       PROVE  Talking' /\ Printed' /\ Remembered'
  <2>1. /\ active' = n /\ UNCHANGED <<worker, lines, reader>>
        /\ out' = [i \in DOMAIN out |-> Since(out[i], n)]
        /\ line' = IF reader = "match" THEN Since(line, n) ELSE line
    BY <1>11 DEF SetAvatar, Change, listener
  <2>2. \A l \in LineType : Since(l, n) \in LineType /\ n \in Since(l, n).since
    BY DEF Since, LineType
  <2>3. line' \in LineType /\ (reader = "match" => n \in line'.since)
        /\ (reader # "match" => line' = line)
    BY <2>1, <2>2 DEF Printed
  <2>4. out' \in Seq(LineType) /\ Len(out') = Len(out)
        /\ \A i \in 1..Len(out') : n \in out'[i].since
    BY <2>1, <2>2 DEF Printed
  <2>5. Printed' /\ Talking'
    BY <2>1, <2>3, <2>4 DEF Printed, Talking
  <2>6. Remembered'
    BY <2>1, <2>3, <2>4 DEF Remembered, WokenByActive
  <2>7. QED
    BY <2>5, <2>6
<1>12. QED
  BY <1>1, <1>2, <1>3, <1>4, <1>5, <1>6, <1>7, <1>8, <1>9, <1>10, <1>11, LineSteps

(***************************************************************************)
(* Theorems.                                                               *)
(***************************************************************************)
IInv ==
  /\ TypeOK
  /\ CaptureOff /\ Hands /\ InTransit
  /\ FiredBefore /\ WakesSpaced
  /\ Talking /\ Remembered

LEMMA InitIInv == Init => IInv
<1> SUFFICES ASSUME Init PROVE IInv
  OBVIOUS
<1>0. Refractory \in Nat /\ MaxTicks \in Nat /\ MaxUnits \in Nat /\ MaxChanges \in Nat
      /\ InRoom \in Nat /\ OutRoom \in Nat
  BY AudioAssumption, TimeAssumption
<1>1. Flags /\ Places /\ CaptureOff
  BY DEF Init, Flags, Places, CaptureOff
<1>2. Units /\ Hands /\ InTransit
  BY <1>0 DEF Init, Units, Hands, InTransit, Follows
<1>3. Times /\ FiredBefore /\ WakesSpaced
  BY <1>0 DEF Init, Times, FiredBefore, WakesSpaced
<1>4. Score \in LineType
  BY DEF Score, LineOf, LineType
<1>5. Printed /\ Talking /\ Remembered
  BY <1>0, <1>4 DEF Init, Printed, Talking, Remembered, WokenByActive
<1>6. QED
  BY <1>1, <1>2, <1>3, <1>5 DEF IInv, TypeOK

LEMMA NextIInv == IInv /\ [Next]_vars => IInv'
BY FlagsStep, PlacesStep, TimesStep, CaptureOffStep, AudioStep, SpacedStep, PrintedStep
DEF IInv, TypeOK

LEMMA Inductive == Spec => []IInv
BY InitIInv, NextIInv, PTL DEF Spec

\* Every variable keeps its type, and no pipe holds more than it can, for
\* every size of the pipes, the reads and the chunks.
THEOREM TypeCorrect == Spec => []TypeOK
<1>1. IInv => TypeOK
  BY DEF IInv
<1>2. QED
  BY <1>1, Inductive, PTL

\* The worker hears the microphone without a gap and without a repetition.
THEOREM AlwaysHeardInOrder == Spec => []HeardInOrder
<1>1. IInv => HeardInOrder
  BY InOrder DEF IInv, TypeOK
<1>2. QED
  BY <1>1, Inductive, PTL

\* A wake word does not fire twice within the refractory time.
THEOREM AlwaysSpaced == Spec => []WakesSpaced
<1>1. IInv => WakesSpaced
  BY DEF IInv
<1>2. QED
  BY <1>1, Inductive, PTL

\* A window opens only for an avatar that was active since the wake word.
THEOREM AlwaysWokenByActive == Spec => []WokenByActive
<1>1. IInv => WokenByActive
  BY DEF IInv, Remembered
<1>2. QED
  BY <1>1, Inductive, PTL

(***************************************************************************)
(* The voice activity detector. Induction for a set of numbers, and the    *)
(* least number of a set.                                                  *)
(***************************************************************************)
LEMMA NumbersReached ==
  ASSUME NEW G, 0 \in G, \A n \in Nat : n \in G => n + 1 \in G
  PROVE  \A n \in Nat : n \in G
<1> DEFINE Missing == Nat \ G
<1>1. SUFFICES ASSUME Missing # {} PROVE FALSE
  OBVIOUS
<1>2. PICK n \in Missing : \A m \in Missing : <<m, n>> \notin OpToRel(<, Nat)
  <2>1. Missing \subseteq Nat
    OBVIOUS
  <2> HIDE DEF Missing
  <2>2. QED
    BY <1>1, <2>1, NatLessThanWellFounded, WFMin
<1>3. \A m \in Missing : ~(m < n)
  BY <1>2 DEF OpToRel
<1>4. n \in Nat /\ n # 0
  OBVIOUS
<1>5. n - 1 \in Nat /\ n - 1 < n /\ (n - 1) + 1 = n
  BY <1>4
<1>6. n - 1 \in G
  BY <1>3, <1>5
<1>7. QED
  BY <1>2, <1>5, <1>6

LEMMA MinIn ==
  ASSUME NEW S \in SUBSET Nat, S # {}
  PROVE  Min(S) \in S /\ \A x \in S : Min(S) <= x
<1>1. PICK m \in S : \A x \in S : <<x, m>> \notin OpToRel(<, Nat)
  BY NatLessThanWellFounded, WFMin
<1>2. ASSUME NEW x \in S PROVE m <= x
  <2>1. x \in Nat /\ m \in Nat
    OBVIOUS
  <2>2. ~(x < m)
    BY <1>1, <2>1 DEF OpToRel
  <2>3. QED
    BY <2>1, <2>2
<1>3. \E n \in S : \A x \in S : n <= x
  BY <1>2
<1>4. QED
  BY <1>3, Zenon DEF Min

LEMMA MinIs ==
  ASSUME NEW S \in SUBSET Nat, NEW m \in S, \A x \in S : m <= x
  PROVE  Min(S) = m
<1>1. PICK n : n = Min(S)
  OBVIOUS
<1>2. n \in S /\ \A x \in S : n <= x
  BY <1>1, MinIn
<1>3. n <= m /\ m <= n /\ n \in Nat /\ m \in Nat
  BY <1>2
<1>4. n = m
  BY <1>3
<1>5. QED
  BY <1>1, <1>4

(***************************************************************************)
(* The cuts of a stream are computed from its end: the cuts from a frame  *)
(* on are an utterance, or none, and the cuts from a later frame on.       *)
(***************************************************************************)
\* The cuts from frame number from on, when c[n] are those from n on.
CutsFrom(c, s, from) ==
  IF Opens(s, from) = {} THEN <<>>
  ELSE LET i == Min(Opens(s, from))
       IN IF Closes(s, i) = {} THEN <<>>
          ELSE LET j == Min(Closes(s, i))
               IN (IF LongEnough(s, i, j) THEN <<[k \in 1..(j - i + 1) |-> i + k - 1]>>
                   ELSE <<>>)
                  \o c[j + 1]

IsCut(c, s) == c = [from \in 1..(Len(s) + 1) |-> CutsFrom(c, s, from)]
CutOf(s) == CHOOSE c : IsCut(c, s)

LEMMA CutsIs == ASSUME NEW s PROVE Cuts(s) = CutOf(s)[1]
  BY DEF Cuts, CutOf, IsCut, CutsFrom

\* Only the cuts from later frames on matter.
LEMMA CutsLater ==
  ASSUME NEW s, Len(s) \in Nat, NEW from \in 1..(Len(s) + 1), NEW c, NEW d,
         \A n \in 1..(Len(s) + 1) : n > from => c[n] = d[n]
  PROVE  CutsFrom(c, s, from) = CutsFrom(d, s, from)
<1> DEFINE i == Min(Opens(s, from))
           j == Min(Closes(s, i))
<1>1. SUFFICES ASSUME Opens(s, from) # {}, Closes(s, i) # {}
               PROVE  c[j + 1] = d[j + 1]
  BY DEF CutsFrom
<1>2. i \in from..Len(s) /\ i \in Nat
  <2>1. Opens(s, from) \in SUBSET Nat /\ Opens(s, from) \subseteq from..Len(s)
    BY DEF Opens
  <2>2. QED
    BY <1>1, <2>1, MinIn
<1> HIDE DEF i
<1>3. j \in (i + 1)..Len(s) /\ j \in Nat
  <2>1. Closes(s, i) \in SUBSET Nat /\ Closes(s, i) \subseteq (i + 1)..Len(s)
    BY <1>2 DEF Closes
  <2>2. QED
    BY <1>1, <2>1, MinIn
<1>4. j + 1 \in 1..(Len(s) + 1) /\ j + 1 > from
  BY <1>2, <1>3
<1>5. QED
  BY <1>4

\* There is such a function: it is found from the last frame backwards.
LEMMA CutExists ==
  ASSUME NEW s, Len(s) \in Nat
  PROVE  \E c : IsCut(c, s)
<1> DEFINE len == Len(s)
           Right(c, n) == \A from \in 1..(len + 1) : from + n >= len + 1 => c[from] = CutsFrom(c, s, from)
           G == {n \in Nat : \E c : Right(c, n)}
<1>1. 0 \in G
  <2> DEFINE c == [from \in 1..(len + 1) |-> <<>>]
  <2>1. ASSUME NEW from \in 1..(len + 1), from + 0 >= len + 1
        PROVE  c[from] = CutsFrom(c, s, from)
    <3>1. Opens(s, from) = {}
      BY <2>1 DEF Opens
    <3>2. QED
      BY <3>1 DEF CutsFrom
  <2>2. Right(c, 0)
    BY <2>1
  <2>3. QED
    BY <2>2
<1>2. ASSUME NEW n \in Nat, n \in G PROVE n + 1 \in G
  <2>1. PICK c : Right(c, n)
    BY <1>2
  <2> DEFINE d == [from \in 1..(len + 1) |->
                     IF from + n >= len + 1 THEN c[from] ELSE CutsFrom(c, s, from)]
  <2>2. ASSUME NEW from \in 1..(len + 1), from + (n + 1) >= len + 1
        PROVE  d[from] = CutsFrom(d, s, from)
    <3>1. \A m \in 1..(len + 1) : m > from => d[m] = c[m]
      BY <2>2
    <3>2. CutsFrom(d, s, from) = CutsFrom(c, s, from)
      <4> HIDE DEF d
      <4>1. QED
        BY <3>1, CutsLater
    <3>3. d[from] = CutsFrom(c, s, from)
      BY <2>1
    <3>4. QED
      BY <3>2, <3>3
  <2> HIDE DEF d
  <2>3. Right(d, n + 1)
    BY <2>2
  <2>4. QED
    BY <2>3
<1>3. len \in G /\ len + 1 \in G
  <2> HIDE DEF G
  <2>1. QED
    BY <1>1, <1>2, NumbersReached
<1>4. PICK c : Right(c, len)
  BY <1>3
<1> DEFINE d == [from \in 1..(len + 1) |-> c[from]]
<1>5. ASSUME NEW from \in 1..(len + 1)
      PROVE  d[from] = CutsFrom(d, s, from)
  <2>1. \A m \in 1..(len + 1) : m > from => d[m] = c[m]
    OBVIOUS
  <2>2. CutsFrom(d, s, from) = CutsFrom(c, s, from)
    <3> HIDE DEF d
    <3>1. QED
      BY <2>1, CutsLater
  <2>3. c[from] = CutsFrom(c, s, from)
    BY <1>4
  <2>4. QED
    BY <2>2, <2>3
<1>6. d = [from \in 1..(len + 1) |-> d[from]]
  OBVIOUS
<1>7. IsCut(d, s)
  <2> HIDE DEF d
  <2>1. QED
    BY <1>5, <1>6 DEF IsCut
<1>8. QED
  BY <1>7

LEMMA CutStep ==
  ASSUME NEW s, Len(s) \in Nat, NEW from \in 1..(Len(s) + 1)
  PROVE  CutOf(s)[from] = CutsFrom(CutOf(s), s, from)
<1>1. IsCut(CutOf(s), s)
  BY CutExists DEF CutOf
<1> DEFINE c == CutOf(s)
<1>2. c = [n \in 1..(Len(s) + 1) |-> CutsFrom(c, s, n)]
  BY <1>1 DEF IsCut
<1> HIDE DEF c
<1>3. c[from] = CutsFrom(c, s, from)
  BY <1>2
<1>4. QED
  BY <1>3 DEF c

(***************************************************************************)
(* What is known of a part of the stream is known for good.                *)
(***************************************************************************)
Chosen(t) == CHOOSE n \in t : TRUE
Sum(s, S) == MapThenSumSet(LAMBDA i : s[i].size, S)
Sums(s, S, g) ==
  g = [t \in SUBSET S |-> IF t = {} THEN 0 ELSE s[Chosen(t)].size + g[t \ {Chosen(t)}]]

\* How long some frames last depends on those frames only.
LEMMA SumSame ==
  ASSUME NEW e, NEW s, NEW S, \A k \in S : e[k] = s[k]
  PROVE  Sum(e, S) = Sum(s, S)
<1>1. Sum(e, S) = (CHOOSE g : Sums(e, S, g))[S]
  BY DEF Sum, Sums, Chosen, MapThenSumSet, MapThenFoldSet
<1>2. Sum(s, S) = (CHOOSE g : Sums(s, S, g))[S]
  BY DEF Sum, Sums, Chosen, MapThenSumSet, MapThenFoldSet
<1>3. \A t \in SUBSET S : t # {} => Chosen(t) \in S
  BY DEF Chosen
<1>4. ASSUME NEW g PROVE Sums(e, S, g) <=> Sums(s, S, g)
  <2>1. [t \in SUBSET S |-> IF t = {} THEN 0 ELSE e[Chosen(t)].size + g[t \ {Chosen(t)}]]
        = [t \in SUBSET S |-> IF t = {} THEN 0 ELSE s[Chosen(t)].size + g[t \ {Chosen(t)}]]
    BY <1>3
  <2>2. QED
    BY <2>1 DEF Sums
<1>5. (CHOOSE g : Sums(e, S, g)) = (CHOOSE g : Sums(s, S, g))
  BY <1>4, Zenon
<1>6. QED
  BY <1>1, <1>2, <1>5

\* e goes on where s ends.
Extends(e, s) == Len(s) <= Len(e) /\ \A k \in 1..Len(s) : e[k] = s[k]

LEMMA DurationSame ==
  ASSUME NEW e, NEW s, Extends(e, s), NEW S \in SUBSET (1..Len(s))
  PROVE  DurationMs(e, S) = DurationMs(s, S)
<1>1. Sum(e, S) = Sum(s, S)
  BY SumSame DEF Extends
<1>2. QED
  BY <1>1 DEF DurationMs, Sum

\* The frames of a silence that ends with frame j.
SilentFrames(s, i, j) == {k \in (i + 1)..j : \A l \in k..j : s[l].level = "quiet"}

LEMMA SilenceSame ==
  ASSUME NEW e, NEW s, Extends(e, s), NEW i \in Nat, NEW j \in 1..Len(s)
  PROVE  SilenceAt(e, i, j) = SilenceAt(s, i, j)
<1>1. \A k \in (i + 1)..j : \A l \in k..j : l \in 1..Len(s)
  OBVIOUS
<1>2. \A k \in (i + 1)..j : \A l \in k..j : e[l] = s[l]
  BY <1>1 DEF Extends
<1>3. SilentFrames(e, i, j) = SilentFrames(s, i, j)
  BY <1>2 DEF SilentFrames
<1>4. QED
  BY <1>3 DEF SilenceAt, SilentFrames

LEMMA ClosesSame ==
  ASSUME NEW e, NEW s, Len(e) \in Nat, Len(s) \in Nat, Extends(e, s), NEW i \in Nat \ {0}
  PROVE  \A j \in 1..Len(s) : j \in Closes(e, i) <=> j \in Closes(s, i)
<1> SUFFICES ASSUME NEW j \in 1..Len(s)
             PROVE  j \in Closes(e, i) <=> j \in Closes(s, i)
  OBVIOUS
<1>1. SilenceAt(e, i, j) = SilenceAt(s, i, j)
  BY SilenceSame
<1>2. i..j \in SUBSET (1..Len(s))
  OBVIOUS
<1>3. DurationMs(e, i..j) = DurationMs(s, i..j)
  BY <1>2, DurationSame
<1>4. j \in (i + 1)..Len(e) <=> j \in (i + 1)..Len(s)
  BY DEF Extends
<1>5. QED
  BY <1>1, <1>3, <1>4 DEF Closes

LEMMA LongEnoughSame ==
  ASSUME NEW e, NEW s, Extends(e, s), NEW i \in Nat \ {0}, NEW j \in 1..Len(s)
  PROVE  LongEnough(e, i, j) <=> LongEnough(s, i, j)
<1>1. SilenceAt(e, i, j) = SilenceAt(s, i, j)
  BY SilenceSame
<1>2. i..j \in SUBSET (1..Len(s))
  OBVIOUS
<1>3. DurationMs(e, i..j) = DurationMs(s, i..j)
  BY <1>2, DurationSame
<1>4. QED
  BY <1>1, <1>3 DEF LongEnough

(***************************************************************************)
(* One frame more.                                                         *)
(***************************************************************************)
LEMMA HearExtends ==
  ASSUME NEW s \in Seq(Frames), NEW f \in Frames
  PROVE  /\ Append(s, f) \in Seq(Frames)
         /\ Len(s) \in Nat /\ Len(Append(s, f)) = Len(s) + 1
         /\ Append(s, f)[Len(s) + 1] = f
         /\ Extends(Append(s, f), s)
  BY AppendProperties, LenProperties DEF Extends

\* The silence grows by the frame or ends with it.
LEMMA SilenceGrows ==
  ASSUME NEW s \in Seq(Frames), NEW f \in Frames, NEW i \in 1..Len(s)
  PROVE  SilenceAt(Append(s, f), i, Len(s) + 1)
         = IF f.level = "quiet" THEN SilenceAt(s, i, Len(s)) + FrameMs ELSE 0
<1> DEFINE t == Append(s, f)
           len == Len(s)
<1>1. len \in Nat /\ Extends(t, s) /\ t[len + 1] = f
  BY HearExtends
<1> HIDE DEF t
<1>2. /\ SilenceAt(t, i, len + 1) = FrameMs * Cardinality(SilentFrames(t, i, len + 1))
      /\ SilenceAt(s, i, len) = FrameMs * Cardinality(SilentFrames(s, i, len))
  BY DEF SilenceAt, SilentFrames
<1>3. CASE f.level = "quiet"
  <2>1. ASSUME NEW k \in (i + 1)..len
        PROVE  k \in SilentFrames(t, i, len + 1) <=> k \in SilentFrames(s, i, len)
    <3>1. \A l \in k..(len + 1) : l \in k..len \/ l = len + 1
      BY <1>1
    <3>2. \A l \in k..len : l \in k..(len + 1) /\ t[l] = s[l]
      BY <1>1 DEF Extends
    <3>3. k \in (i + 1)..(len + 1)
      BY <1>1
    <3>4. (\A l \in k..(len + 1) : t[l].level = "quiet") <=> (\A l \in k..len : s[l].level = "quiet")
      BY <1>1, <1>3, <3>1, <3>2
    <3>5. QED
      BY <3>3, <3>4 DEF SilentFrames
  <2>2. len + 1 \in SilentFrames(t, i, len + 1)
    <3>1. \A l \in (len + 1)..(len + 1) : l = len + 1
      BY <1>1
    <3>2. len + 1 \in (i + 1)..(len + 1)
      BY <1>1
    <3>3. QED
      BY <1>1, <1>3, <3>1, <3>2 DEF SilentFrames
  <2>3. /\ SilentFrames(t, i, len + 1) \subseteq (i + 1)..(len + 1)
        /\ SilentFrames(s, i, len) \subseteq (i + 1)..len
    BY DEF SilentFrames
  <2>4. SilentFrames(t, i, len + 1) = SilentFrames(s, i, len) \cup {len + 1}
    <3>1. \A k \in (i + 1)..(len + 1) : k \in (i + 1)..len \/ k = len + 1
      BY <1>1
    <3>2. QED
      BY <2>1, <2>2, <2>3, <3>1
  <2>5. IsFiniteSet(SilentFrames(s, i, len)) /\ len + 1 \notin SilentFrames(s, i, len)
    <3>1. IsFiniteSet((i + 1)..len)
      BY <1>1, FS_Interval
    <3>2. len + 1 \notin (i + 1)..len
      BY <1>1
    <3>3. QED
      BY <2>3, <3>1, <3>2, FS_Subset
  <2>6. PICK n \in Nat : n = Cardinality(SilentFrames(s, i, len))
    BY <2>5, FS_CardinalityType
  <2>7. Cardinality(SilentFrames(t, i, len + 1)) = n + 1
    BY <2>4, <2>5, <2>6, FS_AddElement
  <2>8. FrameMs * (n + 1) = FrameMs * n + FrameMs
    BY TimesAssumption
  <2>9. QED
    BY <1>2, <1>3, <2>6, <2>7, <2>8 DEF t
<1>4. CASE f.level # "quiet"
  <2>1. SilentFrames(t, i, len + 1) = {}
    <3>1. \A k \in (i + 1)..(len + 1) : len + 1 \in k..(len + 1)
      BY <1>1
    <3>2. QED
      BY <1>1, <1>4, <3>1 DEF SilentFrames
  <2>2. FrameMs * 0 = 0
    BY TimesAssumption
  <2>3. QED
    BY <1>2, <1>4, <2>1, <2>2, FS_EmptySet DEF t
<1>5. QED
  BY <1>3, <1>4

\* No silence precedes the first frame, and none is longer than the stream.
LEMMA SilenceStarts ==
  ASSUME NEW s, NEW i \in Nat
  PROVE  SilenceAt(s, i, i) = 0
<1>1. SilentFrames(s, i, i) = {}
  BY DEF SilentFrames
<1>2. FrameMs * 0 = 0
  BY TimesAssumption
<1>3. QED
  BY <1>1, <1>2, FS_EmptySet DEF SilenceAt, SilentFrames

LEMMA SilenceBound ==
  ASSUME NEW s, NEW i \in Nat, NEW j \in Nat, NEW n \in Nat, j <= n
  PROVE  SilenceAt(s, i, j) \in 0..(FrameMs * n)
<1>1. IsFiniteSet(1..j) /\ Cardinality(1..j) = j
  BY FS_Interval
<1>2. SilentFrames(s, i, j) \in SUBSET (1..j)
  BY DEF SilentFrames
<1>3. PICK m \in Nat : m = Cardinality(SilentFrames(s, i, j)) /\ m <= j
  BY <1>1, <1>2, FS_Subset, FS_CardinalityType
<1>4. FrameMs * m \in Nat /\ FrameMs * n \in Nat /\ FrameMs * m <= FrameMs * n
  BY <1>3, TimesAssumption
<1>5. QED
  BY <1>3, <1>4 DEF SilenceAt, SilentFrames

(***************************************************************************)
(* The inductive invariant. The cut of the stream has a first part that no *)
(* later frame changes, the utterances; after it the detector waits for    *)
(* an onset, or is in an utterance that began with frame i.                *)
(***************************************************************************)
Run(i, j) == [k \in 1..(j - i + 1) |-> i + k - 1]

Settled(from) ==
  \A e \in Seq(Frames) : Extends(e, stream) => Cuts(e) = utterances \o CutOf(e)[from]

Waits(from) == ~inSpeech /\ buf = <<>> /\ Opens(stream, from) = {}

Speaks(from, i) ==
  /\ inSpeech
  /\ stream[i].level = "loud" /\ \A k \in from..(i - 1) : stream[k].level # "loud"
  /\ Closes(stream, i) = {}
  /\ buf = Run(i, Len(stream))
  /\ silentMs = SilenceAt(stream, i, Len(stream))
  /\ i \in onsets /\ \A n \in onsets : n <= i

Following ==
  \E from \in 1..(Len(stream) + 1) :
    /\ Settled(from)
    /\ Waits(from) \/ \E i \in from..Len(stream) : Speaks(from, i)

\* Nothing is known of frames to come.
Past ==
  /\ Len(stream) <= MaxStream
  /\ onsets \subseteq 1..Len(stream)
  /\ \A n \in DOMAIN utterances : Numbers(utterances[n]) \subseteq 1..Len(stream)

VadIInv == VadTypeOK /\ Past /\ Following /\ Announced

LEMMA RunIs ==
  ASSUME NEW i \in Nat \ {0}, NEW j \in Nat, i <= j
  PROVE  /\ Run(i, j) \in Seq(1..j)
         /\ Numbers(Run(i, j)) = i..j
         /\ Head(Run(i, j)) = i
         /\ Append(Run(i, j), j + 1) = Run(i, j + 1)
<1> DEFINE n == j - i + 1
           r == Run(i, j)
<1>1. n \in Nat /\ n > 0
  OBVIOUS
<1>2. \A k \in 1..n : i + k - 1 \in 1..j
  OBVIOUS
<1>3. r = [k \in 1..n |-> i + k - 1]
  BY DEF Run
<1>4. r \in Seq(1..j) /\ Len(r) = n /\ \A k \in 1..n : r[k] = i + k - 1
  <2> HIDE DEF n, r
  <2>1. [k \in 1..n |-> i + k - 1] \in Seq(1..j)
    BY <1>1, <1>2, IsASeq
  <2>2. DOMAIN r = 1..n
    BY <1>3
  <2>3. QED
    BY <1>1, <1>3, <2>1, <2>2, LenProperties
<1>5. Numbers(r) = i..j
  <2>1. DOMAIN r = 1..n
    BY <1>3
  <2>2. ASSUME NEW x \in i..j PROVE x - i + 1 \in 1..n /\ r[x - i + 1] = x
    <3>1. x - i + 1 \in 1..n /\ i + (x - i + 1) - 1 = x
      OBVIOUS
    <3> HIDE DEF n, r
    <3>2. QED
      BY <1>4, <3>1
  <2>3. \A k \in 1..n : i + k - 1 \in i..j
    OBVIOUS
  <2> HIDE DEF n, r
  <2>4. \A k \in 1..n : r[k] \in i..j
    BY <1>4, <2>3
  <2>5. QED
    BY <2>1, <2>2, <2>4 DEF Numbers
<1>6. Head(r) = i
  <2>1. 1 \in 1..n /\ i + 1 - 1 = i
    BY <1>1
  <2> HIDE DEF n, r
  <2>2. r[1] = i
    BY <1>4, <2>1
  <2>3. QED
    BY <1>1, <1>4, <2>2
<1>7. Append(r, j + 1) = Run(i, j + 1)
  <2> DEFINE a == Append(r, j + 1)
             b == Run(i, j + 1)
  <2>1. b = [k \in 1..(n + 1) |-> i + k - 1]
    BY DEF Run
  <2>2. \A k \in 1..(n + 1) : i + k - 1 \in 1..(j + 1)
    OBVIOUS
  <2>3. i + (n + 1) - 1 = j + 1
    OBVIOUS
  <2> HIDE DEF n, r, b
  <2>4. [k \in 1..(n + 1) |-> i + k - 1] \in Seq(1..(j + 1))
    BY <1>1, <2>2, IsASeq
  <2>5. b \in Seq(1..(j + 1)) /\ Len(b) = n + 1 /\ \A k \in 1..(n + 1) : b[k] = i + k - 1
    <3>1. DOMAIN b = 1..(n + 1)
      BY <2>1
    <3>2. QED
      BY <1>1, <2>1, <2>4, <3>1, LenProperties
  <2>6. r \in Seq(1..(j + 1))
    BY <1>4, SeqMonotonic
  <2>7. /\ a \in Seq(1..(j + 1)) /\ Len(a) = n + 1
        /\ a[n + 1] = j + 1 /\ \A k \in 1..n : a[k] = i + k - 1
    BY <1>1, <1>4, <2>6, AppendProperties
  <2> HIDE DEF a
  <2>8. ASSUME NEW k \in 1..(n + 1) PROVE a[k] = b[k]
    <3>1. k \in 1..n \/ k = n + 1
      BY <1>1
    <3>2. b[k] = i + k - 1
      BY <2>5
    <3>3. QED
      BY <2>3, <2>7, <3>1, <3>2
  <2>9. a = b
    BY <2>5, <2>7, <2>8, SeqEqual
  <2>10. QED
    BY <2>9 DEF a, b
<1>8. QED
  BY <1>4, <1>5, <1>6, <1>7

\* The cuts are sequences of frame numbers.
LEMMA CutType ==
  ASSUME NEW s, Len(s) \in Nat, NEW from \in 1..(Len(s) + 1)
  PROVE  CutOf(s)[from] \in Seq(Seq(Nat))
<1> DEFINE len == Len(s)
           G == {n \in Nat : \A m \in 1..(len + 1) :
                   m + n >= len + 1 => CutOf(s)[m] \in Seq(Seq(Nat))}
<1>0. <<>> \in Seq(Seq(Nat))
  BY EmptySeq
<1>1. 0 \in G
  <2>1. ASSUME NEW m \in 1..(len + 1), m + 0 >= len + 1 PROVE CutOf(s)[m] \in Seq(Seq(Nat))
    <3>1. Opens(s, m) = {}
      BY <2>1 DEF Opens
    <3>2. QED
      BY <1>0, <3>1, CutStep DEF CutsFrom
  <2>2. QED
    BY <2>1
<1>2. ASSUME NEW n \in Nat, n \in G PROVE n + 1 \in G
  <2> SUFFICES ASSUME NEW m \in 1..(len + 1), m + (n + 1) >= len + 1
               PROVE  CutOf(s)[m] \in Seq(Seq(Nat))
    OBVIOUS
  <2> DEFINE i == Min(Opens(s, m))
             j == Min(Closes(s, i))
             head == IF LongEnough(s, i, j) THEN <<[k \in 1..(j - i + 1) |-> i + k - 1]>> ELSE <<>>
  <2>1. CASE Opens(s, m) = {} \/ Closes(s, i) = {}
    BY <1>0, <2>1, CutStep DEF CutsFrom
  <2>2. CASE Opens(s, m) # {} /\ Closes(s, i) # {}
    <3>1. i \in m..len /\ i \in Nat \ {0}
      <4>1. Opens(s, m) \in SUBSET Nat /\ Opens(s, m) \subseteq m..len
        BY DEF Opens
      <4>2. QED
        BY <2>2, <4>1, MinIn
    <3>2. j \in (i + 1)..len /\ j \in Nat
      <4> HIDE DEF i
      <4>1. Closes(s, i) \in SUBSET Nat /\ Closes(s, i) \subseteq (i + 1)..len
        BY <3>1 DEF Closes
      <4>2. QED
        BY <2>2, <4>1, MinIn
    <3>3. CutOf(s)[m] = head \o CutOf(s)[j + 1]
      BY <2>2, CutStep DEF CutsFrom
    <3> HIDE DEF i, j
    <3>4. CutOf(s)[j + 1] \in Seq(Seq(Nat))
      <4>1. j + 1 \in 1..(len + 1) /\ (j + 1) + n >= len + 1
        BY <3>1, <3>2
      <4>2. QED
        BY <1>2, <4>1
    <3>5. head \in Seq(Seq(Nat))
      <4>1. Run(i, j) \in Seq(Nat)
        <5>1. Run(i, j) \in Seq(1..j) /\ 1..j \subseteq Nat
          BY <3>1, <3>2, RunIs
        <5>2. QED
          BY <5>1, SeqMonotonic
      <4>2. <<Run(i, j)>> \in Seq(Seq(Nat))
        BY <4>1
      <4>3. QED
        BY <1>0, <4>2 DEF Run
    <3> HIDE DEF head
    <3>6. QED
      BY <3>3, <3>4, <3>5, ConcatProperties
  <2>3. QED
    BY <2>1, <2>2
<1>3. len + 1 \in G
  <2> HIDE DEF G
  <2>1. QED
    BY <1>1, <1>2, NumbersReached
<1>4. QED
  BY <1>3

(***************************************************************************)
(* The steps. len is the number of frames so far, new the stream with the  *)
(* frame that is pushed.                                                   *)
(***************************************************************************)
LEMMA HeardFrame ==
  ASSUME VadTypeOK, NEW f \in Frames, Hear(f)
  PROVE  /\ stream' \in Seq(Frames) /\ stream'[Len(stream) + 1] = f
         /\ Len(stream) \in Nat /\ Len(stream') = Len(stream) + 1 /\ Len(stream') <= MaxStream
         /\ Extends(stream', stream)
<1>1. stream \in Seq(Frames) /\ stream' = Append(stream, f) /\ Len(stream) < MaxStream
  BY DEF VadTypeOK, Hear
<1>2. Len(stream) \in Nat /\ Len(Append(stream, f)) = Len(stream) + 1 /\ MaxStream \in Nat
  BY <1>1, HearExtends, TimesAssumption
<1>3. QED
  BY <1>1, <1>2, HearExtends

\* What was settled stays so.
LEMMA SettledStays ==
  ASSUME VadTypeOK, NEW f \in Frames, Hear(f), UNCHANGED utterances,
         NEW from \in 1..(Len(stream) + 1), Settled(from)
  PROVE  Settled(from)'
<1>1. /\ Len(stream) \in Nat /\ Len(stream') = Len(stream) + 1
      /\ Extends(stream', stream)
  BY HeardFrame
<1>2. \A e \in Seq(Frames) : Extends(e, stream') => Extends(e, stream)
  <2> TAKE e \in Seq(Frames)
  <2>1. Len(e) \in Nat /\ \A k \in 1..Len(stream) : k \in 1..Len(stream')
    BY <1>1, LenProperties
  <2>2. QED
    BY <1>1, <2>1 DEF Extends
<1>3. QED
  BY <1>2 DEF Settled

LEMMA IdleStep ==
  ASSUME VadTypeOK, Following, NEW f \in Frames, Idle(f)
  PROVE  Following'
<1>1. /\ Hear(f) /\ ~inSpeech /\ f.level # "loud"
      /\ UNCHANGED <<inSpeech, silentMs, buf, onsets, utterances>>
  BY DEF Idle
<1>2. PICK from \in 1..(Len(stream) + 1) : Settled(from) /\ Waits(from)
  BY <1>1 DEF Following, Speaks
<1>3. /\ stream'[Len(stream) + 1] = f
      /\ Len(stream) \in Nat /\ Len(stream') = Len(stream) + 1
      /\ \A k \in 1..Len(stream) : stream'[k] = stream[k]
  BY <1>1, HeardFrame DEF Extends
<1>4. Settled(from)'
  BY <1>1, <1>2, SettledStays
<1>5. Opens(stream', from) = {}
  <2>1. \A k \in from..Len(stream') : k \in from..Len(stream) \/ k = Len(stream) + 1
    BY <1>3
  <2>2. \A k \in from..Len(stream) : stream'[k].level # "loud"
    BY <1>2, <1>3 DEF Waits, Opens
  <2>3. QED
    BY <1>1, <1>3, <2>1, <2>2 DEF Opens
<1>6. Waits(from)'
  BY <1>1, <1>2, <1>5 DEF Waits
<1>7. from \in 1..(Len(stream') + 1)
  BY <1>3
<1>8. QED
  BY <1>4, <1>6, <1>7 DEF Following

LEMMA OnsetStep ==
  ASSUME VadTypeOK, Past, Following, NEW f \in Frames, Onset(f)
  PROVE  Following'
<1>0. PICK i \in Nat : i = Len(stream) + 1
  BY LenProperties DEF VadTypeOK
<1>1. /\ Hear(f) /\ ~inSpeech /\ f.level = "loud" /\ inSpeech' = TRUE
      /\ silentMs' = 0 /\ buf' = <<Len(stream')>> /\ onsets' = onsets \cup {Len(stream')}
      /\ UNCHANGED utterances
  BY DEF Onset
<1>2. PICK from \in 1..(Len(stream) + 1) : Settled(from) /\ Waits(from)
  BY <1>1 DEF Following, Speaks
<1>3. /\ stream'[i] = f
      /\ Len(stream) \in Nat /\ Len(stream') = i
      /\ \A k \in 1..Len(stream) : stream'[k] = stream[k]
  BY <1>0, <1>1, HeardFrame DEF Extends
<1>4. Settled(from)'
  BY <1>1, <1>2, SettledStays
<1>5. /\ i \in from..Len(stream') /\ from \in 1..(Len(stream') + 1)
      /\ i \in Nat \ {0}
  BY <1>0, <1>3
<1>6. \A k \in from..(i - 1) : stream'[k].level # "loud"
  <2>1. \A k \in from..(i - 1) : k \in from..Len(stream) /\ k \in 1..Len(stream)
    BY <1>0, <1>3
  <2>2. QED
    BY <1>2, <1>3, <2>1 DEF Waits, Opens
<1>7. Closes(stream', i) = {}
  BY <1>3 DEF Closes
<1>8. silentMs' = SilenceAt(stream', i, Len(stream'))
  BY <1>1, <1>3, <1>5, SilenceStarts
<1>9. buf' = Run(i, Len(stream'))
  <2>1. \A k \in 1..1 : i + k - 1 = i
    BY <1>0, <1>3
  <2>2. i - i + 1 = 1
    BY <1>0, <1>3
  <2>3. Run(i, i) = [k \in 1..1 |-> i]
    BY <2>1, <2>2 DEF Run
  <2>4. <<i>> = [k \in 1..1 |-> i]
    OBVIOUS
  <2>5. QED
    BY <1>1, <1>3, <2>3, <2>4
<1>10. i \in onsets' /\ \A n \in onsets' : n <= i
  BY <1>0, <1>1, <1>3 DEF Past
<1>11. Speaks(from, i)'
  BY <1>1, <1>3, <1>6, <1>7, <1>8, <1>9, <1>10 DEF Speaks
<1>12. QED
  BY <1>4, <1>5, <1>11 DEF Following

\* What the detector computes in an utterance is what the cut is made of.
LEMMA SpeakingFrame ==
  ASSUME VadTypeOK, NEW f \in Frames, Hear(f),
         NEW from \in 1..(Len(stream) + 1), NEW i \in from..Len(stream), Speaks(from, i)
  PROVE  /\ Longer(f) = Run(i, Len(stream'))
         /\ DurationWith(f) = DurationMs(stream', i..Len(stream'))
         /\ SilenceAfter(f) = SilenceAt(stream', i, Len(stream'))
         /\ Closes(stream', i) =
              IF Ends(SilenceAfter(f), DurationWith(f)) THEN {Len(stream')} ELSE {}
<1>0. PICK len \in Nat : len = Len(stream)
  BY LenProperties DEF VadTypeOK
<1>1. /\ stream \in Seq(Frames) /\ stream' = Append(stream, f) /\ stream' \in Seq(Frames)
      /\ stream'[len + 1] = f /\ Len(stream') = len + 1 /\ Extends(stream', stream)
  BY <1>0, HeardFrame DEF Hear, VadTypeOK
<1>2. i \in Nat \ {0} /\ i \in 1..len /\ i <= len /\ i <= len + 1
  BY <1>0
<1>3. Longer(f) = Run(i, len + 1)
  BY <1>0, <1>2, RunIs DEF Longer, Speaks
<1>4. DurationWith(f) = DurationMs(stream', i..(len + 1))
  BY <1>1, <1>2, <1>3, RunIs DEF DurationWith
<1>5. SilenceAfter(f) = SilenceAt(stream', i, len + 1)
  BY <1>0, <1>1, <1>2, SilenceGrows DEF SilenceAfter, Speaks
<1>6. \A j \in 1..len : j \notin Closes(stream', i)
  BY <1>0, <1>1, <1>2, ClosesSame DEF Speaks
<1>7. Closes(stream', i) \subseteq {len + 1}
  <2>1. Closes(stream', i) \subseteq (i + 1)..(len + 1)
    BY <1>1 DEF Closes
  <2>2. \A j \in (i + 1)..(len + 1) : j \in 1..len \/ j = len + 1
    BY <1>2
  <2>3. QED
    BY <1>6, <2>1, <2>2
<1>8. len + 1 \in Closes(stream', i) <=> Ends(SilenceAfter(f), DurationWith(f))
  <2>1. len + 1 \in (i + 1)..Len(stream')
    BY <1>1, <1>2
  <2>2. QED
    BY <1>4, <1>5, <2>1 DEF Closes, Ends
<1>9. QED
  BY <1>1, <1>3, <1>4, <1>5, <1>7, <1>8

LEMMA ContinueStep ==
  ASSUME VadTypeOK, Following, NEW f \in Frames, Continue(f)
  PROVE  Following'
<1>1. /\ Hear(f) /\ inSpeech /\ silentMs' = SilenceAfter(f)
      /\ ~Ends(SilenceAfter(f), DurationWith(f))
      /\ buf' = Longer(f)
      /\ UNCHANGED <<inSpeech, onsets, utterances>>
  BY DEF Continue
<1>2. PICK from \in 1..(Len(stream) + 1) : Settled(from) /\ \E i \in from..Len(stream) : Speaks(from, i)
  BY <1>1 DEF Following, Waits
<1>3. PICK i \in from..Len(stream) : Speaks(from, i)
  BY <1>2
<1>4. /\ Len(stream) \in Nat /\ Len(stream') = Len(stream) + 1
      /\ \A k \in 1..Len(stream) : stream'[k] = stream[k]
  BY <1>1, HeardFrame DEF Extends
<1>5. Settled(from)'
  BY <1>1, <1>2, SettledStays
<1>6. /\ buf' = Run(i, Len(stream'))
      /\ silentMs' = SilenceAt(stream', i, Len(stream'))
      /\ Closes(stream', i) = {}
  BY <1>1, <1>3, SpeakingFrame
<1>7. /\ stream'[i].level = "loud"
      /\ \A k \in from..(i - 1) : stream'[k].level # "loud"
  <2>1. i \in 1..Len(stream) /\ \A k \in from..(i - 1) : k \in 1..Len(stream)
    BY <1>4
  <2>2. QED
    BY <1>3, <1>4, <2>1 DEF Speaks
<1>8. Speaks(from, i)'
  BY <1>1, <1>3, <1>6, <1>7 DEF Speaks
<1>9. i \in from..Len(stream') /\ from \in 1..(Len(stream') + 1)
  BY <1>4
<1>10. QED
  BY <1>5, <1>8, <1>9 DEF Following

\* An utterance that is over is a cut, whatever is heard later.
LEMMA CutSettles ==
  ASSUME VadTypeOK, NEW f \in Frames, Cut(f),
         NEW from \in 1..(Len(stream) + 1), Settled(from),
         NEW i \in from..Len(stream), Speaks(from, i),
         NEW e \in Seq(Frames), Extends(e, stream')
  PROVE  Cuts(e) = utterances' \o CutOf(e)[Len(stream') + 1]
<1>0. PICK len \in Nat : len = Len(stream)
  BY LenProperties DEF VadTypeOK
<1>1. /\ Hear(f)
      /\ Ends(SilenceAfter(f), DurationWith(f))
      /\ utterances' = IF DurationWith(f) - SilenceAfter(f) >= MinSpeechMs
                       THEN Append(utterances, Longer(f))
                       ELSE utterances
  BY DEF Cut
<1>2. /\ stream' \in Seq(Frames) /\ Len(stream') = len + 1
      /\ \A k \in 1..len : stream'[k] = stream[k]
      /\ Extends(stream', stream)
  BY <1>0, <1>1, HeardFrame DEF Extends
<1>3. /\ Longer(f) = Run(i, len + 1)
      /\ Closes(stream', i) = {len + 1}
      /\ LongEnough(stream', i, len + 1) <=> DurationWith(f) - SilenceAfter(f) >= MinSpeechMs
  BY <1>1, <1>2, SpeakingFrame DEF LongEnough
<1>4. /\ Len(e) \in Nat /\ len + 1 <= Len(e)
      /\ \A k \in 1..(len + 1) : e[k] = stream'[k]
  BY <1>2, LenProperties DEF Extends
<1>5. i \in Nat \ {0} /\ i \in 1..len /\ from \in 1..(Len(e) + 1) /\ i \in from..Len(e)
  BY <1>0, <1>4
<1>6. Min(Opens(e, from)) = i /\ Opens(e, from) # {}
  <2>1. e[i].level = "loud" /\ \A k \in from..(i - 1) : e[k].level # "loud"
    <3>1. \A k \in from..i : k \in 1..len /\ k \in 1..(len + 1)
      BY <1>5
    <3>2. \A k \in from..i : e[k] = stream[k]
      BY <1>2, <1>4, <3>1
    <3>3. i \in from..i /\ \A k \in from..(i - 1) : k \in from..i
      BY <1>5
    <3>4. QED
      BY <3>2, <3>3 DEF Speaks
  <2>2. Opens(e, from) \in SUBSET Nat /\ i \in Opens(e, from)
    BY <1>5, <2>1 DEF Opens
  <2>3. \A k \in Opens(e, from) : i <= k
    <3>1. \A k \in from..Len(e) : i <= k \/ k \in from..(i - 1)
      BY <1>5
    <3>2. QED
      BY <2>1, <3>1 DEF Opens
  <2>4. QED
    BY <2>2, <2>3, MinIs
<1>7. Min(Closes(e, i)) = len + 1 /\ Closes(e, i) # {}
  <2>1. \A j \in 1..(len + 1) : j \in Closes(e, i) <=> j = len + 1
    <3>1. \A j \in 1..Len(stream') : j \in Closes(e, i) <=> j \in Closes(stream', i)
      BY <1>2, <1>4, <1>5, ClosesSame
    <3>2. QED
      BY <1>2, <1>3, <3>1
  <2>2. len + 1 \in Closes(e, i)
    BY <2>1
  <2>3. Closes(e, i) \in SUBSET Nat
    BY <1>5 DEF Closes
  <2>4. ASSUME NEW k \in Closes(e, i) PROVE len + 1 <= k
    <3>1. k \in (i + 1)..Len(e)
      BY DEF Closes
    <3>2. len + 1 <= k \/ (k \in 1..(len + 1) /\ k # len + 1)
      BY <1>5, <3>1
    <3>3. QED
      BY <2>1, <3>2
  <2>5. QED
    BY <2>2, <2>3, <2>4, MinIs
<1>8. LongEnough(e, i, len + 1) <=> DurationWith(f) - SilenceAfter(f) >= MinSpeechMs
  BY <1>2, <1>3, <1>5, LongEnoughSame
<1> DEFINE head == IF LongEnough(e, i, len + 1) THEN <<Run(i, len + 1)>> ELSE <<>>
           rest == CutOf(e)[len + 2]
<1>9. CutOf(e)[from] = head \o rest
  <2>1. CutOf(e)[from] = CutsFrom(CutOf(e), e, from)
    BY <1>4, <1>5, CutStep
  <2>2. CutsFrom(CutOf(e), e, from) = head \o CutOf(e)[(len + 1) + 1]
    BY <1>6, <1>7 DEF CutsFrom, Run
  <2>3. (len + 1) + 1 = len + 2
    OBVIOUS
  <2>4. QED
    BY <2>1, <2>2, <2>3
<1>10. rest \in Seq(Seq(Nat))
  <2>1. len + 2 \in 1..(Len(e) + 1)
    BY <1>4
  <2>2. QED
    BY <1>4, <2>1, CutType
<1>11. Run(i, len + 1) \in Seq(Nat)
  <2>1. i <= len + 1 /\ len + 1 \in Nat
    BY <1>5
  <2>2. Run(i, len + 1) \in Seq(1..(len + 1))
    BY <1>5, <2>1, RunIs
  <2>3. 1..(len + 1) \subseteq Nat
    OBVIOUS
  <2>4. QED
    BY <2>2, <2>3, SeqMonotonic
<1>12. utterances \in Seq(Seq(Nat))
  <2>1. 1..MaxStream \subseteq Nat
    OBVIOUS
  <2>2. Seq(1..MaxStream) \subseteq Seq(Nat)
    BY <2>1, SeqMonotonic
  <2>3. QED
    BY <2>2, SeqMonotonic DEF VadTypeOK
<1>13. head \in Seq(Seq(Nat)) /\ utterances' = utterances \o head
  <2>1. CASE LongEnough(e, i, len + 1)
    <3>1. utterances' = Append(utterances, Run(i, len + 1)) /\ head = <<Run(i, len + 1)>>
      BY <1>1, <1>3, <1>8, <2>1
    <3>2. <<Run(i, len + 1)>> \in Seq(Seq(Nat))
      BY <1>11
    <3>3. QED
      BY <1>11, <1>12, <3>1, <3>2, AppendIsConcat
  <2>2. CASE ~LongEnough(e, i, len + 1)
    <3>1. utterances' = utterances /\ head = <<>>
      BY <1>1, <1>8, <2>2
    <3>2. QED
      BY <1>12, <3>1, ConcatEmptySeq, EmptySeq
  <2>3. QED
    BY <2>1, <2>2
<1>14. Cuts(e) = utterances \o CutOf(e)[from]
  <2>1. Extends(e, stream)
    BY <1>0, <1>2, <1>4 DEF Extends
  <2>2. QED
    BY <2>1 DEF Settled
<1> HIDE DEF head, rest
<1>15. (utterances \o head) \o rest = utterances \o (head \o rest)
  <2>1. utterances \in Seq(Seq(Nat)) /\ head \in Seq(Seq(Nat)) /\ rest \in Seq(Seq(Nat))
    BY <1>10, <1>12, <1>13, Zenon
  <2>2. QED
    BY <2>1, JoinedThrice, Zenon
<1>16. Len(stream') + 1 = len + 2
  BY <1>2
<1>17. QED
  BY <1>9, <1>13, <1>14, <1>15, <1>16 DEF rest

LEMMA CutsStep ==
  ASSUME VadTypeOK, Following, NEW f \in Frames, Cut(f)
  PROVE  Following'
<1>1. Hear(f) /\ inSpeech /\ inSpeech' = FALSE /\ buf' = <<>>
  BY DEF Cut
<1>2. PICK from \in 1..(Len(stream) + 1) : Settled(from) /\ \E i \in from..Len(stream) : Speaks(from, i)
  BY <1>1 DEF Following, Waits
<1>3. PICK i \in from..Len(stream) : Speaks(from, i)
  BY <1>2
<1>4. Len(stream') \in Nat
  BY <1>1, HeardFrame
<1>5. PICK next \in Nat : next = Len(stream') + 1
  BY <1>4
<1>6. Settled(next)'
  BY <1>2, <1>3, <1>5, CutSettles DEF Settled
<1>7. Opens(stream', next) = {}
  BY <1>4, <1>5 DEF Opens
<1>8. Waits(next)'
  BY <1>1, <1>7 DEF Waits
<1>9. next \in 1..(Len(stream') + 1)
  BY <1>4, <1>5
<1>10. QED
  BY <1>6, <1>8, <1>9 DEF Following

\* What a step in an utterance makes of the buffer and of the silence.
LEMMA SpeakingTypes ==
  ASSUME VadTypeOK, Following, NEW f \in Frames, Hear(f), inSpeech
  PROVE  /\ SilenceAfter(f) \in 0..(FrameMs * MaxStream)
         /\ \E i \in 1..Len(stream) :
              /\ Longer(f) = Run(i, Len(stream')) /\ i \in onsets /\ \A n \in onsets : n <= i
              /\ Longer(f) \in Seq(1..MaxStream)
              /\ Numbers(Longer(f)) = i..Len(stream') /\ Head(Longer(f)) = i
<1>0. PICK from \in 1..(Len(stream) + 1) : \E i \in from..Len(stream) : Speaks(from, i)
  BY DEF Following, Waits
<1>1. PICK i \in from..Len(stream) : Speaks(from, i)
  BY <1>0
<1>2. PICK len \in Nat : len = Len(stream)
  BY LenProperties DEF VadTypeOK
<1>3. Len(stream') = len + 1 /\ len + 1 <= MaxStream /\ MaxStream \in Nat
  BY <1>2, HeardFrame, TimesAssumption
<1>4. i \in Nat \ {0} /\ i \in 1..len /\ i <= len + 1 /\ len + 1 \in Nat
  BY <1>2
<1>5. Longer(f) = Run(i, len + 1) /\ SilenceAfter(f) = SilenceAt(stream', i, len + 1)
  BY <1>1, <1>3, SpeakingFrame
<1>6. /\ Run(i, len + 1) \in Seq(1..(len + 1))
      /\ Numbers(Run(i, len + 1)) = i..(len + 1) /\ Head(Run(i, len + 1)) = i
  BY <1>4, RunIs
<1>7. 1..(len + 1) \subseteq 1..MaxStream
  BY <1>3
<1>8. Longer(f) \in Seq(1..MaxStream)
  <2> DEFINE A == 1..(len + 1)
             B == 1..MaxStream
  <2>1. Longer(f) \in Seq(A) /\ A \subseteq B
    BY <1>5, <1>6, <1>7
  <2> HIDE DEF A, B
  <2>2. Longer(f) \in Seq(B)
    BY <2>1, SeqMonotonic
  <2>3. QED
    BY <2>2 DEF B
<1>9. SilenceAfter(f) \in 0..(FrameMs * MaxStream)
  BY <1>3, <1>4, <1>5, SilenceBound
<1>10. i \in onsets /\ \A n \in onsets : n <= i
  BY <1>1 DEF Speaks
<1>11. QED
  BY <1>2, <1>3, <1>4, <1>5, <1>6, <1>8, <1>9, <1>10

\* A new utterance is one more in the sequence.
LEMMA OneMore ==
  ASSUME NEW S, NEW us \in Seq(S), NEW u \in S
  PROVE  /\ Append(us, u) \in Seq(S)
         /\ \A n \in DOMAIN Append(us, u) :
              (n \in DOMAIN us /\ Append(us, u)[n] = us[n]) \/ Append(us, u)[n] = u
<1> DEFINE len == Len(us)
           vs == Append(us, u)
<1>1. /\ vs \in Seq(S) /\ len \in Nat /\ DOMAIN us = 1..len /\ Len(vs) = len + 1
      /\ vs[len + 1] = u /\ \A n \in 1..len : vs[n] = us[n]
  BY AppendProperties, LenProperties
<1> HIDE DEF len, vs
<1>2. DOMAIN vs = 1..(len + 1)
  BY <1>1, LenProperties
<1>3. \A n \in 1..(len + 1) : n \in 1..len \/ n = len + 1
  BY <1>1
<1>4. QED
  BY <1>1, <1>2, <1>3 DEF vs

LEMMA VadTypeStep ==
  ASSUME VadTypeOK, Following, [VadNext]_vadVars
  PROVE  VadTypeOK'
<1>1. ASSUME NEW f \in Frames, Idle(f) PROVE VadTypeOK'
  BY <1>1, HeardFrame DEF Idle, VadTypeOK
<1>2. ASSUME NEW f \in Frames, Onset(f) PROVE VadTypeOK'
  <2>1. Len(stream') \in 1..MaxStream
    BY <1>2, HeardFrame, TimesAssumption DEF Onset
  <2>2. <<Len(stream')>> \in Seq(1..MaxStream)
    BY <2>1
  <2>3. 0 \in 0..(FrameMs * MaxStream)
    BY TimesAssumption
  <2>4. stream' \in Seq(Frames)
    BY <1>2, HeardFrame DEF Onset
  <2>5. QED
    BY <1>2, <2>1, <2>2, <2>3, <2>4 DEF Onset, VadTypeOK
<1>3. ASSUME NEW f \in Frames, Continue(f) PROVE VadTypeOK'
  <2>1. Hear(f) /\ inSpeech
    BY <1>3 DEF Continue
  <2>2. /\ SilenceAfter(f) \in 0..(FrameMs * MaxStream)
        /\ Longer(f) \in Seq(1..MaxStream) /\ stream' \in Seq(Frames)
    BY <2>1, SpeakingTypes, HeardFrame
  <2>3. QED
    BY <1>3, <2>2 DEF Continue, VadTypeOK
<1>4. ASSUME NEW f \in Frames, Cut(f) PROVE VadTypeOK'
  <2>1. Hear(f) /\ inSpeech
    BY <1>4 DEF Cut
  <2>2. /\ SilenceAfter(f) \in 0..(FrameMs * MaxStream)
        /\ Longer(f) \in Seq(1..MaxStream) /\ stream' \in Seq(Frames)
    BY <2>1, SpeakingTypes, HeardFrame
  <2>3. utterances' \in Seq(Seq(1..MaxStream))
    BY <1>4, <2>2, OneMore DEF Cut, VadTypeOK
  <2>4. <<>> \in Seq(1..MaxStream)
    BY EmptySeq
  <2>5. QED
    BY <1>4, <2>2, <2>3, <2>4 DEF Cut, VadTypeOK
<1>5. CASE UNCHANGED vadVars
  BY <1>5 DEF vadVars, VadTypeOK
<1>6. QED
  BY <1>1, <1>2, <1>3, <1>4, <1>5 DEF VadNext

\* An onset is announced when it is heard, and nothing else is; what was
\* handed over before holds none of the later onsets.
LEMMA AnnouncedStep ==
  ASSUME VadTypeOK, Past, Following, Announced, [VadNext]_vadVars
  PROVE  Past' /\ Announced'
<1>0. PICK len \in Nat : len = Len(stream)
  BY LenProperties DEF VadTypeOK
<1>1. ASSUME NEW f \in Frames, Hear(f)
      PROVE  /\ Len(stream') = len + 1 /\ len + 1 <= MaxStream
             /\ 1..len \subseteq 1..Len(stream')
  BY <1>0, <1>1, HeardFrame
<1>2. ASSUME NEW f \in Frames, Idle(f) \/ Continue(f) PROVE Past' /\ Announced'
  <2>1. UNCHANGED <<onsets, utterances>> /\ Hear(f)
    BY <1>2 DEF Idle, Continue
  <2>2. QED
    BY <1>0, <1>1, <2>1 DEF Past, Announced
<1>3. ASSUME NEW f \in Frames, Onset(f) PROVE Past' /\ Announced'
  <2>1. onsets' = onsets \cup {len + 1} /\ UNCHANGED utterances /\ Hear(f)
    BY <1>1, <1>3 DEF Onset
  <2>2. \A n \in DOMAIN utterances : len + 1 \notin Numbers(utterances[n])
    <3>1. len + 1 \notin 1..len
      OBVIOUS
    <3>2. QED
      BY <1>0, <3>1 DEF Past
  <2>3. Announced'
    BY <2>1, <2>2 DEF Announced
  <2>4. Past'
    <3>1. len + 1 \in 1..Len(stream')
      BY <1>1, <2>1
    <3>2. QED
      BY <1>0, <1>1, <2>1, <3>1 DEF Past
  <2>5. QED
    BY <2>3, <2>4
<1>4. ASSUME NEW f \in Frames, Cut(f) PROVE Past' /\ Announced'
  <2>1. /\ Hear(f) /\ inSpeech /\ onsets' = onsets
        /\ utterances' \in {utterances, Append(utterances, Longer(f))}
    BY <1>4 DEF Cut
  <2>2. PICK i \in 1..len :
          /\ i \in onsets /\ \A n \in onsets : n <= i
          /\ Longer(f) \in Seq(1..MaxStream)
          /\ Numbers(Longer(f)) = i..(len + 1) /\ Head(Longer(f)) = i
    BY <1>0, <1>1, <2>1, SpeakingTypes
  <2>3. \A n \in DOMAIN utterances' :
          (n \in DOMAIN utterances /\ utterances'[n] = utterances[n]) \/ utterances'[n] = Longer(f)
    <3>1. utterances \in Seq(Seq(1..MaxStream))
      BY DEF VadTypeOK
    <3>2. CASE utterances' = utterances
      BY <3>2
    <3>3. CASE utterances' = Append(utterances, Longer(f))
      BY <2>2, <3>1, <3>3, OneMore
    <3>4. QED
      BY <2>1, <3>2, <3>3
  <2>4. /\ Numbers(Longer(f)) \cap onsets = {Head(Longer(f))}
        /\ Numbers(Longer(f)) \subseteq 1..Len(stream')
    <3>1. i..(len + 1) \subseteq 1..(len + 1) /\ i \in i..(len + 1)
      OBVIOUS
    <3>2. \A n \in i..(len + 1) : n \in onsets => n = i
      BY <2>2
    <3>3. QED
      BY <1>1, <2>1, <2>2, <3>1, <3>2
  <2>5. Announced'
    BY <2>1, <2>3, <2>4 DEF Announced
  <2>6. Past'
    BY <1>0, <1>1, <2>1, <2>3, <2>4 DEF Past
  <2>7. QED
    BY <2>5, <2>6
<1>5. CASE UNCHANGED vadVars
  BY <1>5 DEF vadVars, Past, Announced
<1>6. QED
  BY <1>2, <1>3, <1>4, <1>5 DEF VadNext

LEMMA FollowingStep ==
  ASSUME VadTypeOK, Past, Following, [VadNext]_vadVars
  PROVE  Following'
<1>1. CASE UNCHANGED vadVars
  BY <1>1 DEF vadVars, Following, Settled, Waits, Speaks
<1>2. QED
  BY <1>1, IdleStep, OnsetStep, ContinueStep, CutsStep DEF VadNext

LEMMA VadInitial == VadInit => VadIInv
<1> SUFFICES ASSUME VadInit PROVE VadIInv
  OBVIOUS
<1>0. /\ <<>> \in Seq(1..MaxStream) /\ <<>> \in Seq(Frames)
      /\ <<>> \in Seq(Seq(1..MaxStream)) /\ <<>> \in Seq(Seq(Nat))
      /\ Len(<<>>) = 0 /\ 0 \in 0..(FrameMs * MaxStream) /\ MaxStream \in Nat
  BY EmptySeq, TimesAssumption
<1>1. VadTypeOK
  BY <1>0 DEF VadInit, VadTypeOK
<1>2. DOMAIN utterances = {}
  BY <1>0, LenProperties DEF VadInit
<1>3. Past /\ Announced
  BY <1>0, <1>2 DEF VadInit, Past, Announced
<1>4. Waits(1)
  BY <1>0 DEF VadInit, Waits, Opens
<1>5. Settled(1)
  <2>1. ASSUME NEW e \in Seq(Frames) PROVE Cuts(e) = <<>> \o CutOf(e)[1]
    <3>1. Len(e) \in Nat /\ 1 \in 1..(Len(e) + 1)
      BY LenProperties
    <3>2. CutOf(e)[1] \in Seq(Seq(Nat))
      BY <3>1, CutType
    <3>3. QED
      BY <3>2, CutsIs, ConcatEmptySeq
  <2>2. QED
    BY <2>1 DEF VadInit, Settled
<1>6. Following
  BY <1>0, <1>4, <1>5 DEF VadInit, Following
<1>7. QED
  BY <1>1, <1>3, <1>6 DEF VadIInv

LEMMA VadInductive == VadSpec => []VadIInv
<1>1. VadIInv /\ [VadNext]_vadVars => VadIInv'
  BY VadTypeStep, AnnouncedStep, FollowingStep DEF VadIInv
<1>2. QED
  BY VadInitial, <1>1, PTL DEF VadSpec

\* Every variable of the detector keeps its type.
THEOREM VadTypeCorrect == VadSpec => []VadTypeOK
<1>1. VadIInv => VadTypeOK
  BY DEF VadIInv
<1>2. QED
  BY <1>1, VadInductive, PTL

\* For any thresholds in time and any lengths of the reads, onStart_ is
\* called for the first frame of an utterance and for no other frame of it.
THEOREM AlwaysAnnounced == VadSpec => []Announced
<1>1. VadIInv => Announced
  BY DEF VadIInv
<1>2. QED
  BY <1>1, VadInductive, PTL

\* The detector hands over the cuts of the stream, as they are defined
\* without it.
THEOREM AlwaysHandsOverTheCuts == VadSpec => []HandsOverTheCuts
<1>1. VadIInv => HandsOverTheCuts
  <2> SUFFICES ASSUME VadIInv PROVE utterances = Cuts(stream)
    BY DEF HandsOverTheCuts
  <2>1. PICK from \in 1..(Len(stream) + 1) :
          Settled(from) /\ (Waits(from) \/ \E i \in from..Len(stream) : Speaks(from, i))
    BY DEF VadIInv, Following
  <2>2. stream \in Seq(Frames) /\ Len(stream) \in Nat /\ Extends(stream, stream)
    BY LenProperties DEF VadIInv, VadTypeOK, Extends
  <2>3. Cuts(stream) = utterances \o CutOf(stream)[from]
    BY <2>1, <2>2 DEF Settled
  <2>4. CutOf(stream)[from] = CutsFrom(CutOf(stream), stream, from)
    BY <2>2, CutStep
  <2>5. CutsFrom(CutOf(stream), stream, from) = <<>>
    <3>1. CASE Waits(from)
      BY <3>1 DEF Waits, CutsFrom
    <3>2. ASSUME NEW i \in from..Len(stream), Speaks(from, i)
          PROVE  CutsFrom(CutOf(stream), stream, from) = <<>>
      <4>1. Opens(stream, from) \in SUBSET Nat /\ i \in Opens(stream, from)
        BY <2>2, <3>2 DEF Opens, Speaks
      <4>2. \A k \in Opens(stream, from) : i <= k
        <5>1. \A k \in from..Len(stream) : i <= k \/ k \in from..(i - 1)
          BY <2>2
        <5>2. QED
          BY <3>2, <5>1 DEF Opens, Speaks
      <4>3. Min(Opens(stream, from)) = i
        BY <4>1, <4>2, MinIs
      <4>4. QED
        BY <3>2, <4>3 DEF Speaks, CutsFrom
    <3>3. QED
      BY <2>1, <3>1, <3>2
  <2>6. utterances \o <<>> = utterances
    BY ConcatEmptySeq DEF VadIInv, VadTypeOK
  <2>7. QED
    BY <2>3, <2>4, <2>5, <2>6
<1>2. QED
  BY <1>1, VadInductive, PTL
=============================================================================
