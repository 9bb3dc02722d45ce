---------------------------- MODULE SpeechProofs ----------------------------
(***************************************************************************)
(* What module Speech promises, for texts, replies and pipes of any        *)
(* length: the reply has been played when the worker answers, the worker   *)
(* implements the service of WorkerService, and F5 is given the text it    *)
(* should speak. The first rests on what is on its way to the player at    *)
(* each place of the worker (Flow), the second on which request the worker *)
(* is at (Serving), the third on what the tokens made so far spell (Good). *)
(***************************************************************************)
EXTENDS Speech, FiniteSetTheorems, SequenceTheorems, WellFoundedInduction, TLAPS

Before == {"load", "warm", "announce", "listen", "speak"}
Busy == {"speak", "infer", "write", "close", "wait", "save", "system", "answer"}

\* Nothing of a reply is left when the next begins.
NoneLeft ==
  at \in Before =>
    /\ player = "none" /\ made = 0 /\ sent = 0 /\ played = 0
    /\ shut = FALSE /\ spoilt = FALSE

\* What the worker generated and what it gave the player.
Flow ==
  /\ at \in {"save", "system"} /\ engine = "f5" => player = "none" /\ sent = 0
  /\ at = "system" => engine = "f5"
  /\ at \in {"infer", "write", "close"} => shut = FALSE
  /\ at = "write" => made = sent + 1
  /\ at = "infer" => sent = made
  /\ at \in {"close", "wait", "answer"} => sent = made \/ spoilt = TRUE
  /\ at = "save" /\ engine = "neutts" => sent = made \/ spoilt = TRUE
  /\ at = "save" /\ engine = "neutts" => player = "gone"
  /\ at = "answer" => player = "gone" \/ (player = "none" /\ spoilt = TRUE)

\* A player that left has played all it was sent, once its input was closed,
\* or the reply is spoilt.
Ended ==
  /\ player = "gone" => played = sent \/ spoilt = TRUE
  /\ player = "gone" /\ at # "exited" => shut = TRUE \/ spoilt = TRUE

(***************************************************************************)
(* Types.                                                                  *)
(***************************************************************************)
\* The start of every variable.
LEMMA TypesStart == Init => TypeOK
<1> SUFFICES ASSUME Init PROVE TypeOK
  OBVIOUS
<1>1. Flags
  BY DEF Init, NoReply, Flags
<1>2. Counts
  <2>1. lines = <<>> /\ next = 0 /\ answered = 0 /\ made = 0 /\ sent = 0 /\ played = 0
    BY DEF Init, NoReply
  <2>2. QED
    BY <2>1 DEF Counts
<1>3. Places
  BY DEF Init, NoReply, Places
<1>4. QED
  BY <1>1, <1>2, <1>3 DEF TypeOK

\* Booleans first: provers keep them and the numbers apart.
LEMMA FlagsStep == Flags /\ [Next]_vars => Flags'
BY DEF Flags, Next, vars, orchestrator, serving, stream, setup, spelling, WorkerStep,
  PlayerStep, Goes, Load, WarmUp, Announce, Take, SeeEnd, Answer, StartPlayer, Infer,
  WriteChunk, BrokenPipe, Close, Wait, Synth, Save, System, WorkerDies, PlayerOpens,
  PlayerRefused, PlayerPlays, PlayerEnds, PlayerDies, PlayerGone, Chime, Write, Hangup

\* Where the worker, the player and the sound card are.
LEMMA PlacesStep == Places /\ [Next]_vars => Places'
BY DEF Places, Next, vars, orchestrator, serving, stream, setup, spelling, WorkerStep,
  PlayerStep, Goes, Served, Load, WarmUp, Announce, Take, SeeEnd, Answer, StartPlayer, Infer,
  WriteChunk, BrokenPipe, Close, Wait, Synth, Save, System, WorkerDies, PlayerOpens,
  PlayerRefused, PlayerPlays, PlayerEnds, PlayerDies, PlayerGone, Chime, Write, Hangup

\* The numbers need what Flow and NoneLeft say of the places they change at.
LEMMA CountsStep == Counts /\ Flow /\ NoneLeft /\ [Next]_vars => Counts'
<1> SUFFICES ASSUME Counts, Flow, NoneLeft, [Next]_vars PROVE Counts'
  OBVIOUS
<1> USE DEF Counts, orchestrator, serving, stream, setup, spelling
<1>1. CASE Load \/ WarmUp \/ Announce \/ SeeEnd \/ BrokenPipe \/ Wait \/ Close \/ StartPlayer \/ Save \/ WorkerDies
  BY <1>1 DEF Load, WarmUp, Announce, SeeEnd, BrokenPipe, Wait, Close, StartPlayer, Save, WorkerDies
<1>2. CASE Take
  BY <1>2 DEF Take
<1>3. CASE Answer
  BY <1>3 DEF Answer
<1>4. CASE Infer
  BY <1>4 DEF Infer
<1>5. CASE WriteChunk
  BY <1>5 DEF WriteChunk, Goes, Flow
<1>6. CASE Synth
  BY <1>6 DEF Synth, Goes, NoneLeft, Before
<1>7. CASE System
  BY <1>7 DEF System, Goes, Flow
<1>8. CASE PlayerPlays
  BY <1>8 DEF PlayerPlays
<1>9. CASE PlayerOpens \/ PlayerRefused \/ PlayerEnds \/ PlayerDies \/ Chime \/ Hangup
  BY <1>9 DEF PlayerOpens, PlayerRefused, PlayerEnds, PlayerDies, PlayerGone, Chime, Hangup
<1>10. ASSUME NEW l \in Lines, Write(l) PROVE Counts'
  BY <1>10 DEF Write
<1>11. CASE UNCHANGED vars
  BY <1>11 DEF vars
<1>12. QED
  BY <1>1, <1>2, <1>3, <1>4, <1>5, <1>6, <1>7, <1>8, <1>9, <1>10, <1>11 DEF Next, WorkerStep, PlayerStep

(***************************************************************************)
(* The reply.                                                              *)
(***************************************************************************)
\* Answer clears what a reply left; the next begins with nothing.
LEMMA NoneLeftStep == Places /\ NoneLeft /\ [Next]_vars => NoneLeft'
<1> SUFFICES ASSUME Places, NoneLeft, [Next]_vars PROVE NoneLeft'
  OBVIOUS
<1> USE DEF Places, NoneLeft, Before, Goes, orchestrator, serving, stream, setup, spelling
<1>1. CASE Load \/ WarmUp \/ Announce \/ SeeEnd \/ BrokenPipe \/ Wait \/ Close \/ Save \/ WorkerDies
  BY <1>1 DEF Load, WarmUp, Announce, SeeEnd, BrokenPipe, Wait, Close, Save, WorkerDies, Served
<1>2. CASE Take
  BY <1>2 DEF Take
<1>3. CASE Answer
  BY <1>3 DEF Answer
<1>4. CASE StartPlayer \/ Infer \/ WriteChunk \/ Synth \/ System
  BY <1>4 DEF StartPlayer, Infer, WriteChunk, Synth, System
<1>5. CASE PlayerOpens \/ PlayerRefused \/ PlayerPlays \/ PlayerEnds \/ PlayerDies
  BY <1>5 DEF PlayerOpens, PlayerRefused, PlayerPlays, PlayerEnds, PlayerDies, PlayerGone
<1>6. CASE Chime \/ Hangup \/ UNCHANGED vars
  BY <1>6 DEF Chime, Hangup, vars
<1>7. ASSUME NEW l \in Lines, Write(l) PROVE NoneLeft'
  BY <1>7 DEF Write
<1>8. QED
  BY <1>1, <1>2, <1>3, <1>4, <1>5, <1>6, <1>7 DEF Next, WorkerStep, PlayerStep

\* What the player was given, at each place of the worker.
LEMMA FlowStep == Places /\ Flags /\ NoneLeft /\ Ended /\ Flow /\ [Next]_vars => Flow'
<1> SUFFICES ASSUME Places, Flags, NoneLeft, Ended, Flow, [Next]_vars PROVE Flow'
  OBVIOUS
<1> USE DEF Places, Flags, Flow, Goes, orchestrator, serving, stream, setup, spelling
<1>1. CASE Load \/ WarmUp \/ Announce \/ SeeEnd \/ WorkerDies
  BY <1>1 DEF Load, WarmUp, Announce, SeeEnd, WorkerDies, Served
<1>2. CASE Take
  BY <1>2 DEF Take
<1>3. CASE Answer
  BY <1>3 DEF Answer
<1>4. CASE StartPlayer
  <2>1. at = "speak" /\ at' \in {"infer", "exited"} /\ UNCHANGED <<sent, made, shut>>
    BY <1>4 DEF StartPlayer
  <2>2. sent = 0 /\ made = 0 /\ shut = FALSE
    BY <2>1 DEF NoneLeft, Before
  <2>3. QED
    BY <2>1, <2>2
<1>5. CASE Infer
  BY <1>5 DEF Infer
<1>6. CASE WriteChunk
  BY <1>6 DEF WriteChunk
<1>7. CASE BrokenPipe
  BY <1>7 DEF BrokenPipe, Ended
<1>8. CASE Close
  BY <1>8 DEF Close
<1>9. CASE Wait
  BY <1>9 DEF Wait
<1>10. CASE Synth
  BY <1>10 DEF Synth, NoneLeft, Before
<1>11. CASE Save
  BY <1>11 DEF Save
<1>12. CASE System
  BY <1>12 DEF System
<1>13. CASE PlayerOpens \/ PlayerRefused \/ PlayerPlays \/ PlayerEnds \/ PlayerDies
  BY <1>13 DEF PlayerOpens, PlayerRefused, PlayerPlays, PlayerEnds, PlayerDies, PlayerGone
<1>14. CASE Chime \/ Hangup \/ UNCHANGED vars
  BY <1>14 DEF Chime, Hangup, vars
<1>15. ASSUME NEW l \in Lines, Write(l) PROVE Flow'
  BY <1>15 DEF Write
<1>16. QED
  BY <1>1, <1>2, <1>3, <1>4, <1>5, <1>6, <1>7, <1>8, <1>9, <1>10, <1>11, <1>12, <1>13,
    <1>14, <1>15 DEF Next, WorkerStep, PlayerStep

\* A player leaves when it has played all, or spoils the reply.
LEMMA EndedStep == Places /\ Flags /\ Flow /\ NoneLeft /\ Ended /\ [Next]_vars => Ended'
<1> SUFFICES ASSUME Places, Flags, Flow, NoneLeft, Ended, [Next]_vars PROVE Ended'
  OBVIOUS
<1> USE DEF Places, Flags, Ended, Goes, orchestrator, serving, stream, setup, spelling
<1>1. CASE Load \/ WarmUp \/ Announce \/ SeeEnd \/ WorkerDies \/ BrokenPipe \/ Wait \/ Close \/ Save
  BY <1>1 DEF Load, WarmUp, Announce, SeeEnd, WorkerDies, BrokenPipe, Wait, Close, Save, Served
<1>2. CASE Take
  BY <1>2 DEF Take
<1>3. CASE Answer
  BY <1>3 DEF Answer
<1>4. CASE StartPlayer \/ Infer \/ WriteChunk
  BY <1>4 DEF StartPlayer, Infer, WriteChunk
<1>5. CASE Synth \/ System
  BY <1>5 DEF Synth, System
<1>6. CASE PlayerOpens \/ PlayerPlays
  BY <1>6 DEF PlayerOpens, PlayerPlays
<1>7. CASE PlayerRefused \/ PlayerEnds \/ PlayerDies
  BY <1>7 DEF PlayerRefused, PlayerEnds, PlayerDies, PlayerGone
<1>8. CASE Chime \/ Hangup \/ UNCHANGED vars
  BY <1>8 DEF Chime, Hangup, vars
<1>9. ASSUME NEW l \in Lines, Write(l) PROVE Ended'
  BY <1>9 DEF Write
<1>10. QED
  BY <1>1, <1>2, <1>3, <1>4, <1>5, <1>6, <1>7, <1>8, <1>9 DEF Next, WorkerStep, PlayerStep

\* Every variable keeps its type and nobody plays what was not sent, for
\* texts, replies and pipes of any length.
THEOREM TypeCorrect == Spec => []TypeOK
<1>1. Init => NoneLeft /\ Flow /\ Ended
  BY DEF Init, NoReply, NoneLeft, Flow, Ended
<1>2. QED
  BY <1>1, TypesStart, FlagsStep, PlacesStep, CountsStep, NoneLeftStep, FlowStep, EndedStep,
    PTL DEF Spec, TypeOK

\* When a worker says "RPL done" the reply has been played to its end, for
\* replies and pipes of any length.
THEOREM AlwaysAnsweredWhenPlayed == Spec => []AnsweredWhenPlayed
<1>1. Init => NoneLeft /\ Flow /\ Ended
  BY DEF Init, NoReply, NoneLeft, Flow, Ended
<1>2. Flags /\ Flow /\ Ended => AnsweredWhenPlayed
  BY DEF Flags, Flow, Ended, AnsweredWhenPlayed
<1>3. QED
  BY <1>1, <1>2, TypesStart, FlagsStep, PlacesStep, NoneLeftStep, FlowStep, EndedStep,
    PTL DEF Spec, TypeOK

(***************************************************************************)
(* The service.                                                            *)
(***************************************************************************)
\* No request among the lines after the last answered one and up to n.
NoRequest(n) == \A i \in (answered + 1)..n : lines[i] # "gen"

\* The line read last is the request to answer next.
AtRequest == answered < next /\ lines[next] = "gen" /\ NoRequest(next - 1)

\* READY comes before the lines are read, and only from a worker.
Announced ==
  /\ at \in {"load", "warm", "announce"} => announced = FALSE
  /\ announced = TRUE \/ at = "announce" => mode = "worker"
  /\ at = "listen" => announced = TRUE
  /\ at \in Busy => mode = "once" \/ announced = TRUE

\* Which line the worker is at.
Serving ==
  /\ announced = FALSE => next = 0 /\ answered = 0
  /\ at = "listen" => NoRequest(next)
  /\ at \in Busy /\ announced = TRUE => AtRequest

\* READY before the command loop.
LEMMA AnnouncedStep == Flags /\ Places /\ Announced /\ [Next]_vars => Announced'
BY DEF Flags, Places, Announced, Busy, Next, vars, orchestrator, serving, stream, setup,
  spelling, WorkerStep, PlayerStep, Goes, Served, Load, WarmUp, Announce, Take, SeeEnd,
  Answer, StartPlayer, Infer, WriteChunk, BrokenPipe, Close, Wait, Synth, Save, System,
  WorkerDies, PlayerOpens, PlayerRefused, PlayerPlays, PlayerEnds, PlayerDies, PlayerGone,
  Chime, Write, Hangup

\* Steps that read no line, answer none and get none.
OtherWorkerStep ==
  SeeEnd \/ StartPlayer \/ Infer \/ WriteChunk \/ BrokenPipe \/ Close \/ Wait
    \/ Synth \/ Save \/ System
PlayersStep ==
  PlayerOpens \/ PlayerRefused \/ PlayerPlays \/ PlayerEnds \/ PlayerDies
    \/ Chime \/ Hangup \/ UNCHANGED vars

\* The worker stays with its request, or exits.
LEMMA OtherWorkerStepKeeps ==
  ASSUME OtherWorkerStep
  PROVE  /\ UNCHANGED <<lines, next, answered, announced, engine, mode>>
         /\ at' \in Busy \cup {"exited"}
         /\ at \in Busy \/ at' = "exited"
BY DEF OtherWorkerStep, Goes, Busy, orchestrator, serving, stream, setup, spelling, SeeEnd,
  StartPlayer, Infer, WriteChunk, BrokenPipe, Close, Wait, Synth, Save, System

\* The player and the chime know nothing of the lines.
LEMMA PlayersStepKeeps ==
  ASSUME PlayersStep
  PROVE  UNCHANGED <<lines, next, answered, announced, engine, mode, at>>
BY DEF PlayersStep, PlayerOpens, PlayerRefused, PlayerPlays, PlayerEnds, PlayerDies,
  PlayerGone, Chime, Hangup, vars, orchestrator, serving, stream, setup, spelling

\* The lines written before keep their numbers.
LEMMA AppendKeeps ==
  ASSUME NEW S, NEW s \in Seq(S), NEW e \in S, NEW i \in 1..Len(s)
  PROVE  Append(s, e)[i] = s[i]
OBVIOUS

\* The worker reads the lines one by one and answers the request it is at.
LEMMA ServingStep == Places /\ Counts /\ Announced /\ Serving /\ [Next]_vars => Serving'
<1> SUFFICES ASSUME Places, Counts, Announced, Serving, [Next]_vars PROVE Serving'
  OBVIOUS
<1>1. CASE Load \/ WarmUp \/ Announce \/ WorkerDies
  <2>1. UNCHANGED <<lines, next, answered>>
    BY <1>1 DEF Load, WarmUp, Announce, WorkerDies, serving, orchestrator
  <2>2. CASE announced = FALSE
    <3>1. NoRequest(next)'
      BY <2>1, <2>2 DEF Serving, NoRequest
    <3>2. next = 0 /\ answered = 0
      BY <2>2 DEF Serving
    <3>3. announced' = TRUE => at' = "listen"
      BY <1>1, <2>2 DEF Load, WarmUp, Announce, WorkerDies, serving, Goes
    <3>4. QED
      BY <2>1, <3>1, <3>2, <3>3 DEF Serving, Busy
  <2>3. CASE announced # FALSE
    <3>1. at' = "exited" /\ UNCHANGED announced
      BY <1>1, <2>3 DEF Load, WarmUp, Announce, WorkerDies, serving, Goes, Announced
    <3>2. QED
      BY <2>1, <3>1 DEF Serving, Busy
  <2>4. QED
    BY <2>2, <2>3
<1>2. CASE Take
  <2>1. /\ at = "listen" /\ next' = next + 1 /\ next < Len(lines)
        /\ UNCHANGED <<lines, answered, announced>>
    BY <1>2 DEF Take, orchestrator
  <2>2. announced # FALSE /\ NoRequest(next)
    BY <2>1 DEF Announced, Serving
  <2>3. CASE lines[next'] = "gen"
    <3>1. at' = "speak"
      BY <1>2, <2>3 DEF Take
    <3>2. AtRequest'
      BY <2>1, <2>2, <2>3 DEF AtRequest, NoRequest, Counts
    <3>3. QED
      BY <2>1, <2>2, <3>1, <3>2 DEF Serving
  <2>4. CASE lines[next'] # "gen"
    <3>1. at' \in {"exited", "listen"}
      BY <1>2, <2>4 DEF Take
    <3>2. NoRequest(next)'
      BY <2>1, <2>2, <2>4 DEF NoRequest, Counts
    <3>3. QED
      BY <2>1, <2>2, <3>1, <3>2 DEF Serving, Busy
  <2>5. QED
    BY <2>3, <2>4
<1>3. CASE Answer
  <2>1. answered' = next /\ UNCHANGED <<next, announced, lines>>
    BY <1>3 DEF Answer, orchestrator
  <2>2. at' \in {"listen", "exited"}
    BY <1>3 DEF Answer, Goes
  <2>3. NoRequest(next)'
    BY <2>1 DEF NoRequest, Counts
  <2>4. QED
    BY <2>1, <2>2, <2>3 DEF Serving, Busy
<1>4. CASE OtherWorkerStep
  BY <1>4, OtherWorkerStepKeeps DEF Serving, AtRequest, NoRequest, Busy
<1>5. CASE PlayersStep
  BY <1>5, PlayersStepKeeps DEF Serving, AtRequest, NoRequest
<1>6. ASSUME NEW l \in Lines, Write(l) PROVE Serving'
  <2>1. lines' = Append(lines, l) /\ UNCHANGED <<at, next, answered, announced>>
    BY <1>6 DEF Write, serving
  <2>2. \A i \in 1..Len(lines) : lines'[i] = lines[i]
    BY <2>1, AppendKeeps DEF Counts
  <2>3. NoRequest(next) => NoRequest(next)'
    BY <2>1, <2>2 DEF NoRequest, Counts
  <2>4. AtRequest => AtRequest'
    BY <2>1, <2>2 DEF AtRequest, NoRequest, Counts
  <2>5. QED
    BY <2>1, <2>3, <2>4 DEF Serving
<1>7. QED
  BY <1>1, <1>2, <1>3, <1>4, <1>5, <1>6 DEF Next, WorkerStep, PlayerStep, OtherWorkerStep, PlayersStep

\* A step that neither announces nor answers nor writes is, for the service,
\* one on which the worker leaves, or none.
LEMMA LeaveOrStay ==
  ASSUME UNCHANGED <<lines, answered, announced, engine>>,
         at = "exited" => at' = "exited",
         at = "exited" /\ player \in {"none", "gone"} => player' \in {"none", "gone"}
  PROVE  [Service!Next]_(Service!serviceVars)
<1>1. Phase' = Phase \/ (Phase # "gone" /\ Phase' = "gone")
  BY DEF Phase
<1>2. QED
  BY <1>1 DEF Service!Next, Service!Leave, Service!serviceVars

\* Every step of the worker is a step of the service, or none.
LEMMA ServiceStep ==
  Flags /\ Counts /\ Announced /\ Serving /\ [Next]_vars
    => [Service!Next]_(Service!serviceVars)
<1> SUFFICES ASSUME Flags, Counts, Announced, Serving, [Next]_vars
             PROVE  [Service!Next]_(Service!serviceVars)
  OBVIOUS
<1>1. CASE Load \/ WarmUp \/ Take \/ WorkerDies
  BY <1>1, LeaveOrStay DEF Load, WarmUp, Take, WorkerDies, Goes, setup, orchestrator,
    serving, stream
<1>2. CASE Announce
  <2>1. /\ announced = FALSE /\ announced' = TRUE /\ at = "announce" /\ at' = "listen"
        /\ UNCHANGED <<lines, answered>>
    BY <1>2 DEF Announce, Goes, Announced, orchestrator
  <2>2. Phase = "loading" /\ Phase' = "ready"
    BY <2>1 DEF Phase
  <2>3. QED
    BY <2>1, <2>2 DEF Service!Next, Service!Announce
<1>3. CASE Answer
  <2>1. /\ at = "answer" /\ answered' = next
        /\ at' = IF mode = "once" THEN "exited" ELSE "listen"
        /\ UNCHANGED <<lines, announced, engine, mode>>
    BY <1>3 DEF Answer, Goes, orchestrator, setup
  <2>2. CASE announced = FALSE
    <3>1. UNCHANGED answered
      BY <2>1, <2>2 DEF Serving
    <3>2. QED
      BY <2>1, <3>1, LeaveOrStay
  <2>3. CASE announced = TRUE
    <3>1. AtRequest
      BY <2>1, <2>3 DEF Serving, Busy
    <3>2. Phase = "ready" /\ Phase' = "ready"
      BY <2>1, <2>3 DEF Phase, Announced
    <3>3. /\ next \in (answered + 1)..Len(lines)
          /\ \A i \in (answered + 1)..(next - 1) : lines[i] \notin {"gen"}
      BY <3>1 DEF AtRequest, NoRequest, Counts
    <3>4. Service!Answer
      BY <2>1, <3>1, <3>2, <3>3 DEF Service!Answer, AtRequest
    <3>5. QED
      BY <3>4 DEF Service!Next
  <2>4. QED
    BY <2>2, <2>3 DEF Flags
<1>4. CASE OtherWorkerStep
  <2>1. at # "exited"
    BY <1>4 DEF OtherWorkerStep, Goes, SeeEnd, StartPlayer, Infer, WriteChunk, BrokenPipe,
      Close, Wait, Synth, Save, System
  <2>2. QED
    BY <1>4, <2>1, OtherWorkerStepKeeps, LeaveOrStay
<1>5. CASE PlayersStep
  <2>1. player \in {"none", "gone"} => player' \in {"none", "gone"}
    BY <1>5 DEF PlayersStep, PlayerOpens, PlayerRefused, PlayerPlays, PlayerEnds, PlayerDies,
      PlayerGone, Chime, Hangup, vars, stream
  <2>2. QED
    BY <1>5, <2>1, PlayersStepKeeps, LeaveOrStay
<1>6. ASSUME NEW l \in Lines, Write(l) PROVE Service!Next
  <2>1. /\ at # "exited" /\ lines' = Append(lines, l)
        /\ UNCHANGED <<at, answered, announced, engine, player>>
    BY <1>6 DEF Write, setup, serving, stream
  <2>2. Phase # "gone" /\ UNCHANGED Phase
    BY <2>1 DEF Phase
  <2>3. QED
    BY <2>1, <2>2 DEF Service!Next, Service!Write
<1>7. QED
  BY <1>1, <1>2, <1>3, <1>4, <1>5, <1>6 DEF Next, WorkerStep, PlayerStep, OtherWorkerStep,
    PlayersStep

\* The worker, in both forms, with its player, its crashes and the sound
\* card, is a service that says READY and then answers every request once
\* and in order until it leaves.
THEOREM ImplementsService == Spec => ServiceSafeSpec
<1>1. Init => /\ NoneLeft /\ Flow /\ Ended /\ Announced /\ Serving
              /\ Service!Init
  <2> SUFFICES ASSUME Init
               PROVE  /\ NoneLeft /\ Flow /\ Ended /\ Announced /\ Serving
                      /\ Service!Init
    OBVIOUS
  <2>1. NoneLeft /\ Flow /\ Ended
    BY DEF Init, NoReply, NoneLeft, Flow, Ended
  <2>2. Announced /\ Serving
    BY DEF Init, Announced, Serving, Busy
  <2>3. Service!Init
    BY DEF Init, Service!Init, Phase
  <2>4. QED
    BY <2>1, <2>2, <2>3
<1>2. QED
  BY <1>1, TypesStart, FlagsStep, PlacesStep, CountsStep, NoneLeftStep, FlowStep, EndedStep,
    AnnouncedStep, ServingStep, ServiceStep, PTL
    DEF Spec, TypeOK, ServiceSafeSpec, Service!SafeSpec

(***************************************************************************)
(* Numbers, and folds over a sequence.                                     *)
(***************************************************************************)
\* What holds at zero and from each number to the next holds at all of them.
LEMMA NumbersReached ==
  ASSUME NEW G, 0 \in G, \A n \in Nat : n \in G => n + 1 \in G
  PROVE  \A n \in Nat : n \in G
<1> DEFINE Missing == Nat \ G
<1>1. SUFFICES ASSUME Missing # {} PROVE FALSE
  OBVIOUS
<1>2. PICK n \in Missing : \A m \in Missing : <<m, n>> \notin OpToRel(<, Nat)
  <2>1. Missing \subseteq Nat
    OBVIOUS
  <2> HIDE DEF Missing
  <2>2. QED
    BY <1>1, <2>1, NatLessThanWellFounded, WFMin
<1>3. \A m \in Missing : ~(m < n)
  BY <1>2 DEF OpToRel
<1>4. n \in Nat /\ n # 0
  OBVIOUS
<1>5. n - 1 \in Nat /\ n - 1 < n /\ (n - 1) + 1 = n
  BY <1>4
<1>6. n - 1 \in G
  BY <1>3, <1>5
<1>7. QED
  BY <1>2, <1>5, <1>6

\* The two folds of convert_char_to_pinyin, over the segments of a text and
\* over the characters of a segment.
Add(fold, cl, x) == IF fold = "text" THEN AddSegment(cl, x) ELSE AddCharacter(cl, x)
Folded(fold, cl, s) ==
  IF fold = "text" THEN FoldLeft(AddSegment, cl, s) ELSE FoldLeft(AddCharacter, cl, s)

\* They are computed over sets of places, the largest first.
AtPlaces(fold, base, s, f, S) ==
  IF S = {} THEN base ELSE Add(fold, f[S \ {Max(S)}], s[Max(S)])
Computes(fold, base, s, f, n) ==
  f = [S \in SUBSET (1..n) |-> AtPlaces(fold, base, s, f, S)]

\* The largest place of a set is the one of its last element.
LEMMA LastPlace ==
  ASSUME NEW n \in Nat, NEW S \in SUBSET (1..(n + 1)), n + 1 \in S
  PROVE  Max(S) = n + 1
<1>1. \A y \in S : n + 1 >= y
  OBVIOUS
<1>2. PICK m : m = Max(S)
  OBVIOUS
<1>3. m \in S /\ \A y \in S : m >= y
  <2>1. \E x \in S : \A y \in S : x >= y
    BY <1>1
  <2>2. QED
    BY <1>2, <2>1 DEF Max
<1>4. m = n + 1
  BY <1>1, <1>3
<1>5. QED
  BY <1>2, <1>4

\* Every set of places that has one has a largest.
LEMMA PlacesHaveLast ==
  ASSUME NEW n \in Nat, NEW S \in SUBSET (1..n), S # {}
  PROVE  Max(S) \in S
<1> DEFINE G == {k \in Nat : \A T \in SUBSET (1..k) : T # {} => Max(T) \in T}
<1>1. 0 \in G
  <2>1. 1..0 = {}
    OBVIOUS
  <2>2. QED
    BY <2>1
<1>2. ASSUME NEW k \in Nat, k \in G PROVE k + 1 \in G
  <2>1. SUFFICES ASSUME NEW T \in SUBSET (1..(k + 1)), T # {} PROVE Max(T) \in T
    OBVIOUS
  <2>2. CASE k + 1 \in T
    BY <2>2, LastPlace
  <2>3. CASE k + 1 \notin T
    <3>1. T \in SUBSET (1..k)
      BY <2>3
    <3>2. QED
      BY <1>2, <2>1, <3>1
  <2>4. QED
    BY <2>2, <2>3
<1> HIDE DEF G
<1>3. \A k \in Nat : k \in G
  BY <1>1, <1>2, NumbersReached
<1>4. QED
  BY <1>3 DEF G

\* The recursive function FoldLeft is defined by exists.
LEMMA Computable ==
  ASSUME NEW fold, NEW base, NEW s
  PROVE  \A n \in Nat : \E f : Computes(fold, base, s, f, n)
<1> DEFINE G == {n \in Nat : \E f : Computes(fold, base, s, f, n)}
<1>1. 0 \in G
  <2> DEFINE f == [S \in SUBSET (1..0) |-> base]
  <2>1. \A S \in SUBSET (1..0) : S = {}
    OBVIOUS
  <2>2. \A S \in SUBSET (1..0) : base = AtPlaces(fold, base, s, f, S)
    BY <2>1 DEF AtPlaces
  <2>3. f = [S \in SUBSET (1..0) |-> AtPlaces(fold, base, s, f, S)]
    BY <2>2
  <2>4. Computes(fold, base, s, f, 0)
    BY <2>3 DEF Computes
  <2> HIDE DEF f
  <2>5. QED
    BY <2>4
<1>2. ASSUME NEW n \in Nat, n \in G PROVE n + 1 \in G
  <2>1. PICK f : Computes(fold, base, s, f, n)
    BY <1>2
  <2>2. \A S \in SUBSET (1..n) : f[S] = AtPlaces(fold, base, s, f, S)
    BY <2>1 DEF Computes
  <2> DEFINE g == [S \in SUBSET (1..(n + 1)) |->
                     IF n + 1 \in S THEN Add(fold, f[S \ {n + 1}], s[n + 1]) ELSE f[S]]
  <2>3. ASSUME NEW S \in SUBSET (1..(n + 1)) PROVE g[S] = AtPlaces(fold, base, s, g, S)
    <3>1. CASE n + 1 \in S
      <4>1. Max(S) = n + 1 /\ S # {}
        BY <3>1, LastPlace
      <4>2. S \ {n + 1} \in SUBSET (1..(n + 1)) /\ n + 1 \notin S \ {n + 1}
        OBVIOUS
      <4>3. g[S \ {n + 1}] = f[S \ {n + 1}]
        BY <4>2
      <4>4. g[S] = Add(fold, f[S \ {n + 1}], s[n + 1])
        BY <3>1
      <4> HIDE DEF g
      <4>5. QED
        BY <4>1, <4>3, <4>4 DEF AtPlaces
    <3>2. CASE n + 1 \notin S
      <4>1. S \in SUBSET (1..n)
        BY <3>2
      <4>2. g[S] = f[S]
        BY <3>2
      <4>3. CASE S = {}
        <5> HIDE DEF g
        <5>1. QED
          BY <2>2, <4>1, <4>2, <4>3 DEF AtPlaces
      <4>4. CASE S # {}
        <5>1. S \ {Max(S)} \in SUBSET (1..(n + 1)) /\ n + 1 \notin S \ {Max(S)}
          BY <3>2
        <5>2. g[S \ {Max(S)}] = f[S \ {Max(S)}]
          BY <5>1
        <5> HIDE DEF g
        <5>3. QED
          BY <2>2, <4>1, <4>2, <4>4, <5>2 DEF AtPlaces
      <4>5. QED
        BY <4>3, <4>4
    <3>3. QED
      BY <3>1, <3>2
  <2>4. g = [S \in SUBSET (1..(n + 1)) |-> g[S]]
    OBVIOUS
  <2> HIDE DEF g
  <2>5. Computes(fold, base, s, g, n + 1)
    BY <2>3, <2>4 DEF Computes
  <2>6. QED
    BY <2>5
<1> HIDE DEF G
<1>3. \A n \in Nat : n \in G
  BY <1>1, <1>2, NumbersReached
<1>4. QED
  BY <1>3 DEF G

\* A fold goes through the sequence: what it makes of it is the last of the
\* results it, each made from the one before and an element.
Results(fold, base, s, it) ==
  /\ it = [i \in 0..Len(s) |-> it[i]]
  /\ it[0] = base
  /\ \A i \in 1..Len(s) : it[i] = Add(fold, it[i - 1], s[i])

\* FoldLeft has the results, and its value is the last of them.
LEMMA Folds ==
  ASSUME NEW fold, NEW base, NEW S, NEW s \in Seq(S)
  PROVE  \E it : Results(fold, base, s, it) /\ Folded(fold, base, s) = it[Len(s)]
<1>1. Len(s) \in Nat /\ DOMAIN s = 1..Len(s)
  BY LenProperties
<1> DEFINE f == CHOOSE g : Computes(fold, base, s, g, Len(s))
           it == [i \in 0..Len(s) |-> f[1..i]]
<1>2. Computes(fold, base, s, f, Len(s))
  BY <1>1, Computable
<1>3. Folded(fold, base, s) = f[1..Len(s)]
  <2>1. CASE fold = "text"
    BY <1>1, <2>1 DEF Folded, FoldLeft, MapThenFoldSet, Computes, AtPlaces, Add
  <2>2. CASE fold # "text"
    BY <1>1, <2>2 DEF Folded, FoldLeft, MapThenFoldSet, Computes, AtPlaces, Add
  <2>3. QED
    BY <2>1, <2>2
<1> HIDE DEF f
<1>4. \A T \in SUBSET (1..Len(s)) : f[T] = AtPlaces(fold, base, s, f, T)
  BY <1>2 DEF Computes
<1>5. f[1..0] = base
  <2>1. 1..0 = {} /\ 1..0 \in SUBSET (1..Len(s))
    OBVIOUS
  <2>2. QED
    BY <1>4, <2>1 DEF AtPlaces
<1>6. ASSUME NEW i \in 1..Len(s) PROVE f[1..i] = Add(fold, f[1..(i - 1)], s[i])
  <2>1. /\ i \in Nat /\ i \in 1..i
        /\ 1..i \subseteq 1..Len(s) /\ 1..i # {}
    <3>1. i \in Nat /\ 1 <= i /\ i <= Len(s) /\ Len(s) \in Nat
      BY <1>1
    <3>2. i \in 1..i
      BY <3>1
    <3>3. 1..i \subseteq 1..Len(s)
      BY <3>1
    <3>4. QED
      BY <3>1, <3>2, <3>3
  <2>2. Max(1..i) = i
    <3>1. PICK k \in Nat : i = k + 1
      <4>1. i - 1 \in Nat /\ i = (i - 1) + 1
        BY <1>1
      <4>2. QED
        BY <4>1
    <3>2. 1..i \in SUBSET (1..(k + 1)) /\ k + 1 \in 1..i
      BY <2>1, <3>1
    <3>3. QED
      BY <3>1, <3>2, LastPlace
  <2>3. (1..i) \ {i} = 1..(i - 1)
    BY <1>1
  <2>4. QED
    BY <1>4, <2>1, <2>2, <2>3 DEF AtPlaces
<1>7. Results(fold, base, s, it)
  <2>1. it = [i \in 0..Len(s) |-> it[i]]
    OBVIOUS
  <2>2. it[0] = base
    BY <1>1, <1>5
  <2>3. \A i \in 1..Len(s) : it[i] = Add(fold, it[i - 1], s[i])
    <3>1. TAKE i \in 1..Len(s)
    <3>2. i \in 0..Len(s) /\ i - 1 \in 0..Len(s)
      BY <1>1
    <3>3. QED
      BY <1>6, <3>2
  <2> HIDE DEF it
  <2>4. QED
    BY <2>1, <2>2, <2>3 DEF Results
<1>8. it[Len(s)] = Folded(fold, base, s)
  BY <1>1, <1>3
<1> HIDE DEF it
<1>9. QED
  BY <1>7, <1>8

(***************************************************************************)
(* Sequences one after the other.                                          *)
(***************************************************************************)
\* What the first i of them make, from what the first i - 1 make.
Join(f, seqs, i) == IF i = 1 THEN seqs[i] ELSE f[i - 1] \o seqs[i]

\* The recursive function FlattenSeq is defined by exists.
LEMMA JoinedExists ==
  ASSUME NEW seqs
  PROVE  \A n \in Nat : \E f : f = [i \in 1..n |-> Join(f, seqs, i)]
<1> DEFINE Is(f, n) == f = [i \in 1..n |-> Join(f, seqs, i)]
           G == {n \in Nat : \E f : Is(f, n)}
<1>1. 0 \in G
  <2> DEFINE f == [i \in 1..0 |-> 0]
  <2>1. \A i \in 1..0 : FALSE
    OBVIOUS
  <2>2. f = [i \in 1..0 |-> Join(f, seqs, i)]
    BY <2>1
  <2>3. QED
    BY <2>2
<1>2. ASSUME NEW n \in Nat, n \in G PROVE n + 1 \in G
  <2>1. PICK f : Is(f, n)
    BY <1>2
  <2> DEFINE h == [i \in 1..(n + 1) |-> IF i = n + 1 THEN Join(f, seqs, i) ELSE f[i]]
  <2>2. \A i \in 1..(n + 1) : h[i] = Join(h, seqs, i)
    <3> TAKE i \in 1..(n + 1)
    <3>1. i # 1 => i - 1 \in 1..(n + 1) /\ i - 1 # n + 1
      OBVIOUS
    <3>2. i # 1 => h[i - 1] = f[i - 1]
      BY <3>1
    <3>3. Join(h, seqs, i) = Join(f, seqs, i)
      <4> HIDE DEF h
      <4>1. QED
        BY <3>2 DEF Join
    <3>4. CASE i = n + 1
      BY <3>3, <3>4
    <3>5. CASE i # n + 1
      <4>1. i \in 1..n
        BY <3>5
      <4>2. f[i] = Join(f, seqs, i)
        BY <2>1, <4>1
      <4>3. h[i] = f[i]
        BY <3>5
      <4>4. QED
        BY <3>3, <4>2, <4>3
    <3>6. QED
      BY <3>4, <3>5
  <2>3. h = [i \in 1..(n + 1) |-> h[i]]
    OBVIOUS
  <2>4. Is(h, n + 1)
    <3> HIDE DEF h
    <3>1. QED
      BY <2>2, <2>3
  <2> HIDE DEF h, Is
  <2>5. \E k : Is(k, n + 1)
    BY <2>4
  <2>6. QED
    BY <2>5
<1> HIDE DEF G
<1>3. \A n \in Nat : n \in G
  BY <1>1, <1>2, NumbersReached
<1>4. QED
  BY <1>3 DEF G

Joins(seqs, fl) ==
  /\ fl[0] = <<>>
  /\ \A i \in 1..Len(seqs) : fl[i] = fl[i - 1] \o seqs[i]
  /\ FlattenSeq(seqs) = fl[Len(seqs)]

\* FlattenSeq puts the sequences together, one more at a time.
LEMMA Flattens ==
  ASSUME NEW S, NEW seqs \in Seq(Seq(S))
  PROVE  \E fl \in [0..Len(seqs) -> Seq(S)] : Joins(seqs, fl)
<1> DEFINE m == Len(seqs)
           f == CHOOSE g : g = [i \in 1..m |-> Join(g, seqs, i)]
           fl == [i \in 0..m |-> IF i = 0 THEN <<>> ELSE f[i]]
<1>1. m \in Nat /\ \A i \in 1..m : seqs[i] \in Seq(S)
  BY LenProperties, ElementOfSeq
<1> HIDE DEF m
<1>2. f = [i \in 1..m |-> Join(f, seqs, i)]
  BY <1>1, JoinedExists
<1>3. m = 0 => FlattenSeq(seqs) = <<>>
  BY EmptySeq DEF FlattenSeq, m
<1>4. m # 0 => FlattenSeq(seqs) = f[m]
  BY DEF FlattenSeq, Join, m
<1> HIDE DEF f
<1>5. \A i \in 1..m : f[i] = Join(f, seqs, i)
  BY <1>2
<1>6. fl[0] = <<>> /\ \A i \in 1..m : fl[i] = f[i]
  BY <1>1
<1>7. FlattenSeq(seqs) = fl[m]
  <2>1. CASE m = 0
    BY <1>3, <1>6, <2>1
  <2>2. CASE m # 0
    BY <1>1, <1>4, <1>6, <2>2
  <2>3. QED
    BY <2>1, <2>2
<1>8. ASSUME NEW i \in 1..m PROVE fl[i] = fl[i - 1] \o seqs[i]
  <2>1. fl[i] = f[i] /\ f[i] = Join(f, seqs, i)
    BY <1>5, <1>6
  <2>2. CASE i = 1
    <3>1. fl[i - 1] = <<>> /\ seqs[i] \in Seq(S)
      BY <1>1, <1>6, <2>2
    <3>2. <<>> \o seqs[i] = seqs[i]
      BY <3>1, ConcatEmptySeq
    <3>3. f[i] = seqs[i]
      BY <2>1, <2>2 DEF Join
    <3> HIDE DEF fl
    <3>4. QED
      BY <2>1, <3>1, <3>2, <3>3
  <2>3. CASE i # 1
    <3>1. i - 1 \in 1..m
      BY <1>1, <2>3
    <3>2. fl[i - 1] = f[i - 1]
      BY <1>6, <3>1
    <3> HIDE DEF fl
    <3>3. QED
      BY <2>1, <2>3, <3>2 DEF Join
  <2>4. QED
    BY <2>2, <2>3
<1>9. fl = [i \in 0..m |-> fl[i]]
  OBVIOUS
<1> HIDE DEF fl
<1>10. \A i \in 0..m : fl[i] \in Seq(S)
  <2> DEFINE G == {i \in Nat : i <= m => fl[i] \in Seq(S)}
  <2>1. 0 \in G
    BY <1>6, EmptySeq
  <2>2. ASSUME NEW i \in Nat, i \in G PROVE i + 1 \in G
    <3>1. SUFFICES ASSUME i + 1 <= m PROVE fl[i + 1] \in Seq(S)
      OBVIOUS
    <3>2. i <= m /\ i + 1 \in 1..m /\ (i + 1) - 1 = i
      BY <1>1, <3>1
    <3>3. fl[i] \in Seq(S) /\ seqs[i + 1] \in Seq(S)
      BY <1>1, <2>2, <3>2
    <3>4. fl[i + 1] = fl[i] \o seqs[i + 1]
      BY <1>8, <3>2
    <3>5. QED
      BY <3>3, <3>4, ConcatProperties
  <2> HIDE DEF G
  <2>3. \A i \in Nat : i \in G
    BY <2>1, <2>2, NumbersReached
  <2>4. \A i \in 0..m : i \in Nat /\ i <= m
    BY <1>1
  <2>5. QED
    BY <2>3, <2>4 DEF G
<1>11. fl \in [0..m -> Seq(S)]
  BY <1>9, <1>10
<1>12. QED
  BY <1>6, <1>7, <1>8, <1>11 DEF Joins, m

\* A sequence more is put at the end.
LEMMA FlattenAppend ==
  ASSUME NEW S, NEW seqs \in Seq(Seq(S)), NEW t \in Seq(S)
  PROVE  FlattenSeq(Append(seqs, t)) = FlattenSeq(seqs) \o t
<1> DEFINE m == Len(seqs)
           more == Append(seqs, t)
<1>1. /\ m \in Nat /\ more \in Seq(Seq(S)) /\ Len(more) = m + 1
      /\ \A i \in 1..m : more[i] = seqs[i]
      /\ more[m + 1] = t
  BY LenProperties, AppendProperties
<1>2. PICK f \in [0..m -> Seq(S)] : Joins(seqs, f)
  BY Flattens
<1>3. PICK g \in [0..Len(more) -> Seq(S)] : Joins(more, g)
  BY <1>1, Flattens
<1> HIDE DEF m, more
<1> DEFINE G == {i \in Nat : i <= m => g[i] = f[i]}
<1>4. 0 \in G
  BY <1>2, <1>3 DEF Joins
<1>5. ASSUME NEW i \in Nat, i \in G PROVE i + 1 \in G
  <2>1. SUFFICES ASSUME i + 1 <= m PROVE g[i + 1] = f[i + 1]
    OBVIOUS
  <2>2. i <= m /\ i + 1 \in 1..m /\ i + 1 \in 1..Len(more) /\ (i + 1) - 1 = i
    BY <1>1, <2>1
  <2>3. g[i] = f[i]
    BY <1>5, <2>2
  <2>4. g[i + 1] = g[i] \o more[i + 1] /\ f[i + 1] = f[i] \o seqs[i + 1]
    BY <1>2, <1>3, <2>2 DEF Joins, m
  <2>5. QED
    BY <1>1, <2>2, <2>3, <2>4
<1> HIDE DEF G
<1>6. \A i \in Nat : i \in G
  BY <1>4, <1>5, NumbersReached
<1>7. g[m] = f[m]
  BY <1>1, <1>6 DEF G
<1>8. g[m + 1] = g[m] \o more[m + 1]
  <2>1. m + 1 \in 1..Len(more) /\ (m + 1) - 1 = m
    BY <1>1
  <2>2. g[m + 1] = g[(m + 1) - 1] \o more[m + 1]
    BY <1>3, <2>1 DEF Joins
  <2>3. QED
    BY <2>1, <2>2
<1>9. QED
  BY <1>1, <1>2, <1>3, <1>7, <1>8 DEF Joins, m, more

(***************************************************************************)
(* A character more.                                                       *)
(***************************************************************************)
Toks == [of : Characters, pinyin : BOOLEAN]
Of(cl) == [i \in DOMAIN cl |-> cl[i].of]
Piece(chars, apart, i) == IF i \in apart THEN <<Separator.of, chars[i]>> ELSE <<chars[i]>>
Spelt(chars, of) == \E apart \in SUBSET DOMAIN chars : of = Marked(chars, apart)

\* Pinyin comes after a separator.
Preceded(cl) == \A i \in 1..Len(cl) : cl[i].pinyin => i > 1 /\ cl[i - 1] = Separator

\* The tokens cl are those of the characters.
Good(chars, cl) ==
  /\ chars \in Seq(Characters) /\ cl \in Seq(Toks)
  /\ Spelt(chars, Of(cl))
  /\ Preceded(cl)

\* The separator is an ordinary blank.
LEMMA SeparatorIs == Blank \in Characters /\ Separator \in Toks /\ Separator.of = Blank
                     /\ Separator.pinyin = FALSE
BY CharactersAssumption DEF Characters, Separator, Token, Toks

\* No token spells no character.
LEMMA SpeltStart == Spelt(<<>>, <<>>)
<1> DEFINE pieces == [i \in DOMAIN <<>> |-> Piece(<<>>, {}, i)]
<1>1. DOMAIN <<>> = {}
  OBVIOUS
<1>2. pieces = <<>>
  BY <1>1
<1>3. FlattenSeq(<<>>) = <<>>
  BY EmptySeq DEF FlattenSeq
<1>4. Marked(<<>>, {}) = FlattenSeq(pieces)
  BY DEF Marked, Piece
<1>5. QED
  BY <1>2, <1>3, <1>4 DEF Spelt

\* A character more is spelt by itself, or by a blank and itself.
LEMMA SpeltMore ==
  ASSUME NEW chars \in Seq(Characters), NEW of \in Seq(Characters), NEW c \in Characters,
         Spelt(chars, of)
  PROVE  Spelt(Append(chars, c), Append(of, c)) /\ Spelt(Append(chars, c), of \o <<Blank, c>>)
<1> DEFINE n == Len(chars)
           more == Append(chars, c)
<1>1. /\ n \in Nat /\ DOMAIN chars = 1..n /\ \A i \in 1..n : chars[i] \in Characters
      /\ DOMAIN more = 1..(n + 1) /\ more[n + 1] = c /\ \A i \in 1..n : more[i] = chars[i]
      /\ more \in Seq(Characters)
  <2>1. n \in Nat /\ DOMAIN chars = 1..n /\ \A i \in 1..n : chars[i] \in Characters
    BY LenProperties, ElementOfSeq
  <2>2. more \in Seq(Characters) /\ Len(more) = n + 1 /\ more[n + 1] = c
        /\ \A i \in 1..n : more[i] = chars[i]
    BY AppendProperties
  <2>3. DOMAIN more = 1..Len(more)
    BY <2>2, LenProperties
  <2>4. QED
    BY <2>1, <2>2, <2>3
<1>2. PICK apart \in SUBSET (1..n) : of = Marked(chars, apart)
  BY <1>1 DEF Spelt
<1> HIDE DEF n, more
<1> DEFINE old == [i \in 1..n |-> Piece(chars, apart, i)]
           S == Seq(Characters)
<1>3. old \in Seq(S) /\ Len(old) = n
  <2>1. \A i \in 1..n : Piece(chars, apart, i) \in S
    BY <1>1, SeparatorIs DEF Piece
  <2> HIDE DEF S
  <2>2. QED
    BY <1>1, <2>1
<1>4. of = FlattenSeq(old)
  BY <1>1, <1>2 DEF Marked, Piece
<1>5. \A i \in 1..n : more[i] = chars[i] /\ i \in 1..(n + 1) /\ i # n + 1
  BY <1>1
<1>6. ASSUME NEW now \in {apart, apart \cup {n + 1}},
             NEW t \in S, t = Piece(more, now, n + 1)
      PROVE  Spelt(more, of \o t)
  <2> DEFINE new == [i \in 1..(n + 1) |-> Piece(more, now, i)]
  <2>1. \A i \in 1..n : Piece(more, now, i) = Piece(chars, apart, i)
    BY <1>5 DEF Piece
  <2>2. /\ Append(old, t) \in Seq(S) /\ Len(Append(old, t)) = n + 1
        /\ Append(old, t)[n + 1] = t
        /\ \A i \in 1..n : Append(old, t)[i] = old[i]
    <3> HIDE DEF old, S
    <3>1. QED
      BY <1>3, AppendProperties
  <2>3. Append(old, t) = [i \in 1..(n + 1) |-> Append(old, t)[i]]
    <3> HIDE DEF old, S
    <3>1. QED
      BY <2>2, LenProperties
  <2>4. \A i \in 1..(n + 1) : Append(old, t)[i] = Piece(more, now, i)
    <3>1. TAKE i \in 1..(n + 1)
    <3>2. CASE i = n + 1
      BY <1>6, <2>2, <3>2
    <3>3. CASE i # n + 1
      <4>1. i \in 1..n
        BY <1>1, <3>3
      <4>2. old[i] = Piece(chars, apart, i)
        BY <4>1
      <4>3. QED
        BY <2>1, <2>2, <4>1, <4>2
    <3>4. QED
      BY <3>2, <3>3
  <2>5. new = Append(old, t)
    BY <2>3, <2>4
  <2>6. FlattenSeq(Append(old, t)) = of \o t
    <3> HIDE DEF old, S
    <3>1. FlattenSeq(Append(old, t)) = FlattenSeq(old) \o t
      BY <1>3, FlattenAppend DEF S
    <3>2. QED
      BY <1>4, <3>1
  <2>7. Marked(more, now) = FlattenSeq(new)
    BY <1>1 DEF Marked, Piece
  <2>8. now \in SUBSET DOMAIN more
    BY <1>1
  <2> HIDE DEF old, new
  <2>9. QED
    BY <2>5, <2>6, <2>7, <2>8 DEF Spelt
<1>7. Spelt(more, of \o <<c>>)
  <2>1. <<c>> \in S /\ <<c>> = Piece(more, apart, n + 1)
    BY <1>1 DEF Piece
  <2>2. QED
    BY <1>6, <2>1
<1>8. Spelt(more, of \o <<Blank, c>>)
  <2>1. <<Blank, c>> \in S /\ <<Blank, c>> = Piece(more, apart \cup {n + 1}, n + 1)
    BY <1>1, SeparatorIs DEF Piece
  <2>2. QED
    BY <1>6, <2>1
<1>9. Append(of, c) = of \o <<c>>
  BY AppendIsConcat
<1>10. QED
  BY <1>7, <1>8, <1>9 DEF more

\* r goes on where s ends.
GoesOn(r, s) == Len(s) <= Len(r) /\ \A i \in 1..Len(s) : r[i] = s[i]

\* What a token is of, in a sequence with one more.
LEMMA OfAppend ==
  ASSUME NEW cl \in Seq(Toks), NEW t \in Toks
  PROVE  /\ Of(cl) \in Seq(Characters)
         /\ Of(Append(cl, t)) = Append(Of(cl), t.of)
<1> DEFINE n == Len(cl)
           more == Append(cl, t)
<1>1. /\ n \in Nat /\ DOMAIN cl = 1..n /\ \A i \in 1..n : cl[i].of \in Characters
      /\ more \in Seq(Toks) /\ Len(more) = n + 1 /\ more[n + 1] = t
      /\ \A i \in 1..n : more[i] = cl[i]
  <2>1. n \in Nat /\ DOMAIN cl = 1..n /\ \A i \in 1..n : cl[i] \in Toks
    BY LenProperties, ElementOfSeq
  <2>2. QED
    BY <2>1, AppendProperties DEF Toks
<1>2. DOMAIN more = 1..(n + 1)
  BY <1>1, LenProperties
<1>3. t.of \in Characters
  BY DEF Toks
<1> HIDE DEF n, more
<1>4. Of(cl) = [i \in 1..n |-> cl[i].of] /\ Of(more) = [i \in 1..(n + 1) |-> more[i].of]
  BY <1>1, <1>2 DEF Of
<1>5. Of(cl) \in Seq(Characters) /\ Len(Of(cl)) = n
  BY <1>1, <1>4
<1> DEFINE r == Append(Of(cl), t.of)
<1>6. /\ r \in Seq(Characters) /\ Len(r) = n + 1 /\ r[n + 1] = t.of
      /\ \A i \in 1..n : r[i] = Of(cl)[i]
  BY <1>3, <1>5, AppendProperties
<1>7. r = [i \in 1..(n + 1) |-> r[i]]
  <2> HIDE DEF r
  <2>1. QED
    BY <1>6, LenProperties
<1>8. \A i \in 1..(n + 1) : r[i] = more[i].of
  <2> HIDE DEF r
  <2>1. TAKE i \in 1..(n + 1)
  <2>2. CASE i = n + 1
    BY <1>1, <1>6, <2>2
  <2>3. CASE i # n + 1
    <3>1. i \in 1..n
      BY <1>1, <2>3
    <3>2. QED
      BY <1>1, <1>4, <1>6, <3>1
  <2>4. QED
    BY <2>2, <2>3
<1> HIDE DEF r
<1>9. Of(more) = r
  BY <1>4, <1>7, <1>8
<1>10. QED
  BY <1>5, <1>9 DEF r, more

\* A token more, pinyin only after a separator.
LEMMA PrecededMore ==
  ASSUME NEW cl \in Seq(Toks), NEW t \in Toks, Preceded(cl),
         t.pinyin => cl # <<>> /\ cl[Len(cl)] = Separator
  PROVE  Preceded(Append(cl, t)) /\ GoesOn(Append(cl, t), cl)
<1> DEFINE n == Len(cl)
           more == Append(cl, t)
<1>1. /\ n \in Nat /\ (cl # <<>> => n # 0)
      /\ Len(more) = n + 1 /\ more[n + 1] = t
      /\ \A i \in 1..n : more[i] = cl[i]
  BY EmptySeq, LenProperties, AppendProperties
<1> HIDE DEF more
<1>2. GoesOn(more, cl)
  BY <1>1 DEF GoesOn
<1>3. Preceded(more)
  <2> SUFFICES ASSUME NEW i \in 1..(n + 1), more[i].pinyin
               PROVE  i > 1 /\ more[i - 1] = Separator
    BY <1>1 DEF Preceded
  <2>1. CASE i = n + 1
    <3>1. n # 0 /\ cl[n] = Separator
      BY <1>1, <2>1
    <3>2. n \in 1..n /\ i - 1 = n /\ i > 1
      BY <1>1, <2>1, <3>1
    <3>3. QED
      BY <1>1, <3>1, <3>2
  <2>2. CASE i # n + 1
    <3>1. i \in 1..n
      BY <1>1, <2>2
    <3>2. i > 1 /\ cl[i - 1] = Separator
      BY <1>1, <3>1 DEF Preceded
    <3>3. i - 1 \in 1..n
      BY <1>1, <3>1, <3>2
    <3>4. QED
      BY <1>1, <3>2, <3>3
  <2>3. QED
    BY <2>1, <2>2
<1>4. QED
  BY <1>2, <1>3 DEF more

\* What goes on where another went on goes on from its start.
LEMMA GoesOnFurther ==
  ASSUME NEW S, NEW a \in Seq(S), NEW b \in Seq(S), NEW c \in Seq(S), GoesOn(b, a), GoesOn(c, b)
  PROVE  GoesOn(c, a)
<1>1. Len(a) \in Nat /\ Len(b) \in Nat /\ Len(c) \in Nat
  BY LenProperties
<1>2. QED
  BY <1>1 DEF GoesOn

\* Two tokens more are one and then another.
LEMMA TwoMore ==
  ASSUME NEW S, NEW s \in Seq(S), NEW a \in S, NEW b \in S
  PROVE  s \o <<a, b>> = Append(Append(s, a), b)
<1> DEFINE n == Len(s)
           x == s \o <<a, b>>
           y == Append(Append(s, a), b)
<1>1. n \in Nat
  BY LenProperties
<1>2. <<a, b>> \in Seq(S) /\ Len(<<a, b>>) = 2
  OBVIOUS
<1>3. /\ x \in Seq(S) /\ Len(x) = n + 2
      /\ \A i \in 1..(n + 2) : x[i] = IF i <= n THEN s[i] ELSE <<a, b>>[i - n]
  <2>1. /\ x \in Seq(S) /\ Len(x) = n + Len(<<a, b>>)
        /\ \A i \in 1..(n + Len(<<a, b>>)) : x[i] = IF i <= n THEN s[i] ELSE <<a, b>>[i - n]
    BY <1>2, ConcatProperties
  <2>2. QED
    BY <1>2, <2>1
<1>4. /\ Append(s, a) \in Seq(S) /\ Len(Append(s, a)) = n + 1 /\ Append(s, a)[n + 1] = a
      /\ \A i \in 1..n : Append(s, a)[i] = s[i]
  BY AppendProperties
<1>5. /\ y \in Seq(S) /\ Len(y) = n + 2 /\ y[n + 2] = b
      /\ \A i \in 1..(n + 1) : y[i] = Append(s, a)[i]
  <2>1. /\ y \in Seq(S) /\ Len(y) = (n + 1) + 1 /\ y[(n + 1) + 1] = b
        /\ \A i \in 1..(n + 1) : y[i] = Append(s, a)[i]
    BY <1>4, AppendProperties
  <2>2. (n + 1) + 1 = n + 2
    BY <1>1
  <2>3. QED
    BY <2>1, <2>2
<1> HIDE DEF x, y
<1>6. \A i \in 1..(n + 2) : x[i] = y[i]
  <2>1. TAKE i \in 1..(n + 2)
  <2>2. CASE i \in 1..n
    BY <1>1, <1>3, <1>4, <1>5, <2>2
  <2>3. CASE i = n + 1
    BY <1>1, <1>3, <1>4, <1>5, <2>3
  <2>4. CASE i = n + 2
    BY <1>1, <1>3, <1>5, <2>4
  <2>5. QED
    BY <1>1, <2>2, <2>3, <2>4
<1>7. x = [i \in 1..(n + 2) |-> x[i]] /\ y = [i \in 1..(n + 2) |-> y[i]]
  BY <1>3, <1>5, LenProperties
<1>8. QED
  BY <1>6, <1>7 DEF x, y

\* A character more: a token of it, or a separator and then one.
LEMMA OneMore ==
  ASSUME NEW chars, NEW cl, Good(chars, cl), NEW c \in Characters, NEW pinyin \in BOOLEAN
  PROVE  /\ ~pinyin => /\ Good(Append(chars, c), Append(cl, Token(c, pinyin)))
                       /\ GoesOn(Append(cl, Token(c, pinyin)), cl)
         /\ LET set == cl \o <<Separator, Token(c, pinyin)>>
            IN Good(Append(chars, c), set) /\ GoesOn(set, cl) /\ set[Len(cl) + 1] = Separator
               /\ set = Append(Append(cl, Separator), Token(c, pinyin))
<1> DEFINE t == Token(c, pinyin)
           one == Append(cl, t)
           sep == Append(cl, Separator)
           two == Append(sep, t)
<1>1. t \in Toks /\ t.of = c /\ t.pinyin = pinyin
  BY DEF Token, Toks
<1>2. chars \in Seq(Characters) /\ cl \in Seq(Toks) /\ Spelt(chars, Of(cl)) /\ Preceded(cl)
  BY DEF Good
<1>3. Append(chars, c) \in Seq(Characters)
  BY <1>2, AppendProperties
<1>4. Of(cl) \in Seq(Characters)
  BY <1>1, <1>2, OfAppend
<1> HIDE DEF t
<1>5. ASSUME ~pinyin PROVE Good(Append(chars, c), one) /\ GoesOn(one, cl)
  <2>1. Preceded(one) /\ GoesOn(one, cl)
    BY <1>1, <1>2, <1>5, PrecededMore
  <2>2. Of(one) = Append(Of(cl), c)
    BY <1>1, <1>2, OfAppend
  <2>3. Spelt(Append(chars, c), Of(one))
    BY <1>2, <1>4, <2>2, SpeltMore
  <2>4. one \in Seq(Toks)
    BY <1>1, <1>2, AppendProperties
  <2>5. QED
    BY <1>3, <2>1, <2>3, <2>4 DEF Good
<1>6. sep \in Seq(Toks) /\ Len(sep) = Len(cl) + 1 /\ sep[Len(sep)] = Separator /\ sep # <<>>
      /\ Preceded(sep) /\ GoesOn(sep, cl) /\ Of(sep) = Append(Of(cl), Blank)
  <2>1. sep \in Seq(Toks) /\ Len(sep) = Len(cl) + 1 /\ sep[Len(cl) + 1] = Separator /\ sep # <<>>
    BY <1>2, SeparatorIs, AppendProperties
  <2>2. Preceded(sep) /\ GoesOn(sep, cl)
    BY <1>2, SeparatorIs, PrecededMore
  <2>3. Of(sep) = Append(Of(cl), Blank)
    BY <1>2, SeparatorIs, OfAppend
  <2>4. QED
    BY <2>1, <2>2, <2>3
<1> HIDE DEF sep
<1>7. two \in Seq(Toks) /\ Preceded(two) /\ GoesOn(two, sep) /\ Of(two) = Append(Append(Of(cl), Blank), c)
  <2>1. two \in Seq(Toks)
    BY <1>1, <1>6, AppendProperties
  <2>2. Preceded(two) /\ GoesOn(two, sep)
    BY <1>1, <1>6, PrecededMore
  <2>3. Of(two) = Append(Of(sep), c)
    BY <1>1, <1>6, OfAppend
  <2>4. QED
    BY <1>6, <2>1, <2>2, <2>3
<1>8. Spelt(Append(chars, c), Of(two))
  <2>1. Append(Append(Of(cl), Blank), c) = Of(cl) \o <<Blank, c>>
    BY <1>4, SeparatorIs, TwoMore
  <2>2. QED
    BY <1>2, <1>4, <1>7, <2>1, SpeltMore
<1>9. Good(Append(chars, c), two)
  BY <1>3, <1>7, <1>8 DEF Good
<1>10. GoesOn(two, cl)
  BY <1>2, <1>6, <1>7, GoesOnFurther
<1>11. two[Len(cl) + 1] = Separator
  <2>1. Len(cl) \in Nat
    BY <1>2, LenProperties
  <2>2. Len(cl) + 1 \in 1..Len(sep)
    BY <1>6, <2>1
  <2>3. QED
    BY <1>6, <1>7, <2>2 DEF GoesOn
<1>12. cl \o <<Separator, t>> = two
  BY <1>1, <1>2, SeparatorIs, TwoMore DEF sep
<1> HIDE DEF one, two
<1>13. QED
  BY <1>5, <1>9, <1>10, <1>11, <1>12 DEF t, one, two, sep

\* A character more as it is.
LEMMA PlainMore ==
  ASSUME NEW chars, NEW cl, Good(chars, cl), NEW c \in Characters
  PROVE  /\ Good(Append(chars, c), Append(cl, Token(c, FALSE)))
         /\ GoesOn(Append(cl, Token(c, FALSE)), cl)
<1>1. FALSE \in BOOLEAN /\ ~FALSE
  OBVIOUS
<1>2. QED
  BY <1>1, OneMore

\* A character more after a separator.
LEMMA SetMore ==
  ASSUME NEW chars, NEW cl, Good(chars, cl), NEW c \in Characters, NEW pinyin \in BOOLEAN
  PROVE  LET set == Append(Append(cl, Separator), Token(c, pinyin))
         IN /\ Good(Append(chars, c), set) /\ GoesOn(set, cl) /\ set[Len(cl) + 1] = Separator
            /\ cl \o <<Separator, Token(c, pinyin)>> = set
<1> DEFINE set == cl \o <<Separator, Token(c, pinyin)>>
<1>1. /\ Good(Append(chars, c), set) /\ GoesOn(set, cl) /\ set[Len(cl) + 1] = Separator
      /\ set = Append(Append(cl, Separator), Token(c, pinyin))
  BY OneMore
<1> HIDE DEF set
<1>2. QED
  BY <1>1 DEF set

(***************************************************************************)
(* A segment more.                                                         *)
(***************************************************************************)
\* s and the first j elements of t.
Pre(s, t, j) == [i \in 1..(Len(s) + j) |-> IF i <= Len(s) THEN s[i] ELSE t[i - Len(s)]]

\* None of t, and all of it.
LEMMA PreSteps ==
  ASSUME NEW S, NEW s \in Seq(S), NEW t \in Seq(S)
  PROVE  /\ Pre(s, t, 0) = s
         /\ Pre(s, t, Len(t)) = s \o t
<1> DEFINE n == Len(s)
           m == Len(t)
<1>1. /\ n \in Nat /\ m \in Nat /\ s \in [1..n -> S] /\ t \in [1..m -> S]
  BY LenProperties
<1>2. Pre(s, t, 0) = s
  BY <1>1 DEF Pre
<1>3. Pre(s, t, m) = s \o t
  <2>1. /\ s \o t \in Seq(S) /\ Len(s \o t) = n + m
        /\ \A i \in 1..(n + m) : (s \o t)[i] = IF i <= n THEN s[i] ELSE t[i - n]
    BY ConcatProperties
  <2>2. s \o t = [i \in 1..(n + m) |-> (s \o t)[i]]
    BY <2>1, LenProperties
  <2>3. QED
    BY <2>1, <2>2 DEF Pre
<1>4. QED
  BY <1>2, <1>3 DEF n, m

\* One element of t more.
LEMMA PreStep ==
  ASSUME NEW S, NEW s \in Seq(S), NEW t \in Seq(S), NEW j \in Nat, j + 1 <= Len(t)
  PROVE  Pre(s, t, j + 1) = Append(Pre(s, t, j), t[j + 1])
<1> DEFINE n == Len(s)
           m == Len(t)
<1>0. /\ n \in Nat /\ m \in Nat /\ s \in [1..n -> S] /\ t \in [1..m -> S] /\ j \in 0..(m - 1)
  BY LenProperties
<1> HIDE DEF n, m
<1> DEFINE p == Pre(s, t, j)
           q == Append(p, t[j + 1])
<1>1. p = [i \in 1..(n + j) |-> IF i <= n THEN s[i] ELSE t[i - n]]
  BY DEF Pre, n
<1>2. n + j \in Nat /\ \A i \in 1..(n + j) : (IF i <= n THEN s[i] ELSE t[i - n]) \in S
  <2>1. n + j \in Nat
    BY <1>0
  <2>2. ASSUME NEW i \in 1..(n + j) PROVE (IF i <= n THEN s[i] ELSE t[i - n]) \in S
    <3>1. CASE i <= n
      <4>1. i \in 1..n
        BY <1>0, <3>1
      <4>2. QED
        BY <1>0, <3>1, <4>1
    <3>2. CASE ~(i <= n)
      <4>1. i - n \in 1..m
        BY <1>0, <3>2
      <4>2. QED
        BY <1>0, <3>2, <4>1
    <3>3. QED
      BY <3>1, <3>2
  <2>3. QED
    BY <2>1, <2>2
<1>3. p \in Seq(S) /\ Len(p) = n + j
  BY <1>1, <1>2
<1>4. j + 1 \in 1..m /\ t[j + 1] \in S
  BY <1>0
<1>5. /\ q \in Seq(S) /\ Len(q) = n + j + 1 /\ q[n + j + 1] = t[j + 1]
      /\ \A i \in 1..(n + j) : q[i] = p[i]
  <2> HIDE DEF p
  <2>1. QED
    BY <1>3, <1>4, AppendProperties
<1>6. q = [i \in 1..(n + j + 1) |-> q[i]]
  <2> HIDE DEF p, q
  <2>1. QED
    BY <1>5, LenProperties
<1>7. Pre(s, t, j + 1) = [i \in 1..(n + j + 1) |-> IF i <= n THEN s[i] ELSE t[i - n]]
  <2>1. n + (j + 1) = n + j + 1
    BY <1>0
  <2>2. QED
    BY <2>1 DEF Pre, n
<1> HIDE DEF p, q
<1>8. \A i \in 1..(n + j + 1) : q[i] = IF i <= n THEN s[i] ELSE t[i - n]
  <2>1. TAKE i \in 1..(n + j + 1)
  <2>2. CASE i = n + j + 1
    <3>1. ~(i <= n) /\ i - n = j + 1
      BY <1>0, <2>2
    <3>2. QED
      BY <1>5, <2>2, <3>1
  <2>3. CASE i # n + j + 1
    <3>1. i \in 1..(n + j)
      BY <1>0, <2>3
    <3>2. QED
      BY <1>1, <1>5, <3>1
  <2>4. QED
    BY <2>2, <2>3
<1>9. QED
  BY <1>3, <1>6, <1>7, <1>8 DEF p, q

\* What AddCharacter does spells the character.
LEMMA CharacterAdded ==
  ASSUME NEW chars, NEW cl, Good(chars, cl), NEW c \in Characters
  PROVE  Good(Append(chars, c), AddCharacter(cl, c)) /\ GoesOn(AddCharacter(cl, c), cl)
<1>1. CASE c \in Han
  <2>1. AddCharacter(cl, c) = cl \o <<Separator, Token(c, TRUE)>>
    BY <1>1 DEF AddCharacter
  <2>2. QED
    BY <2>1, SetMore
<1>2. CASE c \notin Han
  <2>1. AddCharacter(cl, c) = Append(cl, Token(c, FALSE))
    BY <1>2 DEF AddCharacter
  <2>2. QED
    BY <2>1, PlainMore
<1>3. QED
  BY <1>1, <1>2

\* One character at a time.
LEMMA CharactersAdded ==
  ASSUME NEW chars, NEW cl, Good(chars, cl), NEW segment \in Seq(Characters)
  PROVE  LET new == FoldLeft(AddCharacter, cl, segment)
         IN Good(chars \o segment, new) /\ GoesOn(new, cl)
<1> DEFINE n == Len(segment)
<1>1. PICK it : Results("segment", cl, segment, it) /\ Folded("segment", cl, segment) = it[n]
  BY Folds
<1>2. n \in Nat /\ \A j \in 1..n : segment[j] \in Characters
  BY LenProperties, ElementOfSeq
<1>3. it[0] = cl /\ \A j \in 1..n : it[j] = AddCharacter(it[j - 1], segment[j])
  BY <1>1 DEF Results, Add
<1>4. FoldLeft(AddCharacter, cl, segment) = it[n]
  BY <1>1 DEF Folded
<1>5. chars \in Seq(Characters) /\ cl \in Seq(Toks)
  BY DEF Good
<1> DEFINE P(j) == Good(Pre(chars, segment, j), it[j]) /\ GoesOn(it[j], cl)
           G == {j \in Nat : j <= n => P(j)}
<1>6. 0 \in G
  <2>1. Pre(chars, segment, 0) = chars
    BY <1>5, PreSteps
  <2>2. GoesOn(cl, cl)
    BY <1>5, LenProperties DEF GoesOn
  <2>3. QED
    BY <1>3, <2>1, <2>2
<1>7. ASSUME NEW j \in Nat, j \in G PROVE j + 1 \in G
  <2>1. SUFFICES ASSUME j + 1 <= n PROVE P(j + 1)
    OBVIOUS
  <2>2. j <= n /\ j \in 0..(n - 1) /\ j + 1 \in 1..n /\ (j + 1) - 1 = j
    BY <1>2, <2>1
  <2>3. P(j)
    BY <1>7, <2>2
  <2>4. it[j + 1] = AddCharacter(it[j], segment[j + 1]) /\ segment[j + 1] \in Characters
    BY <1>2, <1>3, <2>2
  <2>5. Pre(chars, segment, j + 1) = Append(Pre(chars, segment, j), segment[j + 1])
    BY <1>5, <2>1, PreStep DEF n
  <2>6. Good(Pre(chars, segment, j + 1), it[j + 1]) /\ GoesOn(it[j + 1], it[j])
    BY <2>3, <2>4, <2>5, CharacterAdded
  <2>7. it[j] \in Seq(Toks) /\ it[j + 1] \in Seq(Toks)
    BY <2>3, <2>6 DEF Good
  <2>8. GoesOn(it[j + 1], cl)
    BY <1>5, <2>3, <2>6, <2>7, GoesOnFurther
  <2>9. QED
    BY <2>6, <2>8
<1> HIDE DEF G
<1>8. \A j \in Nat : j \in G
  BY <1>6, <1>7, NumbersReached
<1>9. P(n)
  BY <1>2, <1>8 DEF G
<1>10. Pre(chars, segment, n) = chars \o segment
  BY <1>5, PreSteps
<1>11. QED
  BY <1>4, <1>9, <1>10

\* A word as it is written, perhaps set off from what is before it.
LEMMA WordAdded ==
  ASSUME NEW chars, NEW cl, Good(chars, cl),
         NEW segment \in Seq(Characters), segment # <<>>,
         NEW set \in BOOLEAN
  PROVE  LET new == (IF set THEN Append(cl, Separator) ELSE cl) \o Spell(segment)
         IN /\ Good(chars \o segment, new) /\ GoesOn(new, cl)
            /\ set => new[Len(cl) + 1] = Separator /\ Len(cl) + 1 <= Len(new)
<1> DEFINE n == Len(segment)
           base == IF set THEN Append(cl, Separator) ELSE cl
           spelt == Spell(segment)
<1>1. n \in Nat /\ n # 0 /\ \A j \in 1..n : segment[j] \in Characters
  BY EmptySeq, LenProperties, ElementOfSeq
<1>2. chars \in Seq(Characters) /\ cl \in Seq(Toks)
  BY DEF Good
<1>3. base \in Seq(Toks) /\ Append(cl, Separator) \in Seq(Toks)
  BY <1>2, SeparatorIs, AppendProperties
<1>4. spelt \in Seq(Toks) /\ Len(spelt) = n /\ \A j \in 1..n : spelt[j] = Token(segment[j], FALSE)
  <2>1. spelt = [i \in 1..n |-> Token(segment[i], FALSE)]
    BY LenProperties DEF Spell
  <2>2. \A i \in 1..n : Token(segment[i], FALSE) \in Toks
    BY <1>1 DEF Token, Toks
  <2> HIDE DEF n, spelt
  <2>3. /\ \A j \in 1..n : spelt[j] = Token(segment[j], FALSE)
        /\ spelt \in [1..n -> Toks]
    BY <2>1, <2>2
  <2>4. spelt \in Seq(Toks)
    BY <1>1, <2>3
  <2>5. Len(spelt) = n
    BY <1>1, <2>3, <2>4, LenProperties
  <2>6. QED
    BY <2>3, <2>4, <2>5
<1> HIDE DEF n, base, spelt
<1> DEFINE new(j) == Pre(base, spelt, j)
           P(j) == /\ Good(Pre(chars, segment, j), new(j)) /\ GoesOn(new(j), cl)
                   /\ set => new(j)[Len(cl) + 1] = Separator /\ Len(cl) + 1 <= Len(new(j))
           G == {j \in Nat : j + 1 <= n => P(j + 1)}
<1>5. ASSUME NEW j \in 0..(n - 1)
      PROVE  /\ new(j + 1) = Append(new(j), Token(segment[j + 1], FALSE))
             /\ Pre(chars, segment, j + 1) = Append(Pre(chars, segment, j), segment[j + 1])
             /\ segment[j + 1] \in Characters
  <2>1. j \in Nat /\ j + 1 <= Len(spelt) /\ j + 1 <= Len(segment) /\ j + 1 \in 1..n
    BY <1>1, <1>4 DEF n
  <2>2. new(j + 1) = Append(new(j), spelt[j + 1])
    BY <1>3, <1>4, <2>1, PreStep
  <2>3. Pre(chars, segment, j + 1) = Append(Pre(chars, segment, j), segment[j + 1])
    BY <1>2, <2>1, PreStep
  <2>4. QED
    BY <1>1, <1>4, <2>1, <2>2, <2>3
<1>6. 0 \in G
  <2>1. new(0) = base /\ Pre(chars, segment, 0) = chars
    BY <1>2, <1>3, <1>4, PreSteps
  <2>2. 0 \in 0..(n - 1) /\ 0 + 1 = 1
    BY <1>1
  <2> HIDE DEF new
  <2>3. /\ new(1) = Append(base, Token(segment[1], FALSE))
        /\ Pre(chars, segment, 1) = Append(chars, segment[1])
        /\ segment[1] \in Characters
    <3>1. /\ new(0 + 1) = Append(new(0), Token(segment[0 + 1], FALSE))
          /\ Pre(chars, segment, 0 + 1) = Append(Pre(chars, segment, 0), segment[0 + 1])
          /\ segment[0 + 1] \in Characters
      BY <1>5, <2>2
    <3>2. QED
      BY <2>1, <2>2, <3>1
  <2>4. P(1)
    <3>1. CASE set
      <4>1. new(1) = Append(Append(cl, Separator), Token(segment[1], FALSE))
        BY <2>3, <3>1 DEF base
      <4>2. /\ Good(Append(chars, segment[1]), new(1)) /\ GoesOn(new(1), cl)
            /\ new(1)[Len(cl) + 1] = Separator
        BY <2>3, <4>1, SetMore
      <4>3. Len(cl) + 1 <= Len(new(1))
        <5>1. Len(Append(cl, Separator)) = Len(cl) + 1 /\ Len(cl) \in Nat
          BY <1>2, SeparatorIs, AppendProperties, LenProperties
        <5>2. Token(segment[1], FALSE) \in Toks
          BY <2>3 DEF Token, Toks
        <5>3. Len(new(1)) = Len(Append(cl, Separator)) + 1
          BY <1>3, <4>1, <5>2, AppendProperties
        <5>4. QED
          BY <5>1, <5>3
      <4>4. QED
        BY <2>3, <4>2, <4>3
    <3>2. CASE ~set
      <4>1. new(1) = Append(cl, Token(segment[1], FALSE))
        BY <2>3, <3>2 DEF base
      <4>2. Good(Append(chars, segment[1]), new(1)) /\ GoesOn(new(1), cl)
        BY <2>3, <4>1, PlainMore
      <4>3. QED
        BY <2>3, <3>2, <4>2
    <3>3. QED
      BY <3>1, <3>2
  <2> HIDE DEF P
  <2>5. QED
    BY <2>2, <2>4
<1>7. ASSUME NEW j \in Nat, j \in G PROVE j + 1 \in G
  <2> HIDE DEF new
  <2>1. SUFFICES ASSUME (j + 1) + 1 <= n PROVE P((j + 1) + 1)
    OBVIOUS
  <2>2. j + 1 <= n /\ j + 1 \in 0..(n - 1)
    BY <1>1, <2>1
  <2> DEFINE k == j + 1
  <2>3. P(k)
    BY <1>7, <2>2
  <2>4. k \in 0..(n - 1) /\ k \in Nat
    BY <2>2
  <2> HIDE DEF k
  <2>5. /\ new(k + 1) = Append(new(k), Token(segment[k + 1], FALSE))
        /\ Pre(chars, segment, k + 1) = Append(Pre(chars, segment, k), segment[k + 1])
        /\ segment[k + 1] \in Characters
    BY <1>5, <2>4
  <2>6. Good(Pre(chars, segment, k + 1), new(k + 1)) /\ GoesOn(new(k + 1), new(k))
    BY <2>3, <2>5, PlainMore
  <2>7. new(k) \in Seq(Toks) /\ new(k + 1) \in Seq(Toks)
    BY <2>3, <2>6 DEF Good
  <2>8. GoesOn(new(k + 1), cl)
    BY <1>2, <2>3, <2>6, <2>7, GoesOnFurther
  <2>9. set => new(k + 1)[Len(cl) + 1] = Separator /\ Len(cl) + 1 <= Len(new(k + 1))
    <3>1. Len(cl) \in Nat /\ Len(new(k)) \in Nat /\ Len(new(k + 1)) \in Nat
      BY <1>2, <2>7, LenProperties
    <3>2. QED
      BY <2>3, <2>6, <3>1 DEF GoesOn
  <2>10. P(k + 1)
    BY <2>6, <2>8, <2>9
  <2>11. QED
    BY <2>10 DEF k
<1> HIDE DEF G
<1>8. \A j \in Nat : j \in G
  BY <1>6, <1>7, NumbersReached
<1>9. P(n)
  <2>1. n - 1 \in Nat /\ (n - 1) + 1 = n /\ n <= n
    BY <1>1
  <2>2. n - 1 \in G
    BY <1>8, <2>1
  <2> HIDE DEF P
  <2>3. QED
    BY <2>1, <2>2 DEF G
<1>10. Pre(chars, segment, n) = chars \o segment /\ new(n) = base \o spelt
  BY <1>2, <1>3, <1>4, PreSteps DEF n
<1>11. QED
  BY <1>9, <1>10 DEF base, spelt

\* Where there is a character there is a token.
LEMMA SomethingSpelt ==
  ASSUME NEW chars, NEW cl, Good(chars, cl), chars # <<>>
  PROVE  cl # <<>>
<1> DEFINE n == Len(chars)
           S == Seq(Characters)
<1>1. /\ chars \in Seq(Characters) /\ n \in Nat /\ n # 0 /\ DOMAIN chars = 1..n
      /\ \A i \in 1..n : chars[i] \in Characters
  BY EmptySeq, LenProperties, ElementOfSeq DEF Good
<1>2. PICK apart \in SUBSET (1..n) : Of(cl) = Marked(chars, apart)
  BY <1>1 DEF Good, Spelt
<1> HIDE DEF n
<1> DEFINE pieces == [i \in 1..n |-> Piece(chars, apart, i)]
<1>3. \A i \in 1..n : Piece(chars, apart, i) \in S /\ Len(Piece(chars, apart, i)) \in {1, 2}
  BY <1>1, SeparatorIs DEF Piece
<1>4. pieces \in Seq(S) /\ Len(pieces) = n /\ \A i \in 1..n : pieces[i] = Piece(chars, apart, i)
  <2> HIDE DEF S
  <2>1. QED
    BY <1>1, <1>3
<1>5. Of(cl) = FlattenSeq(pieces)
  BY <1>1, <1>2 DEF Marked, Piece
<1> HIDE DEF pieces
<1>6. PICK fl \in [0..Len(pieces) -> Seq(Characters)] : Joins(pieces, fl)
  BY <1>4, Flattens
<1>7. n \in 1..n /\ n - 1 \in 0..n
  BY <1>1
<1>8. fl[n] = fl[n - 1] \o pieces[n] /\ Of(cl) = fl[n] /\ fl[n - 1] \in Seq(Characters)
  BY <1>4, <1>5, <1>6, <1>7 DEF Joins
<1>9. pieces[n] \in Seq(Characters) /\ Len(pieces[n]) \in {1, 2}
  BY <1>3, <1>4, <1>7
<1>10. Len(Of(cl)) = Len(fl[n - 1]) + Len(pieces[n]) /\ Len(fl[n - 1]) \in Nat
  BY <1>8, <1>9, ConcatProperties, LenProperties
<1>11. Len(Of(cl)) # 0
  BY <1>9, <1>10
<1>12. ASSUME cl = <<>> PROVE FALSE
  <2>1. Of(cl) = <<>>
    BY <1>12 DEF Of
  <2>2. QED
    BY <1>11, <2>1, EmptySeq
<1>13. QED
  BY <1>12

\* A segment more: its characters in order, set off where it is a word.
LEMMA SegmentAdded ==
  ASSUME NEW chars, NEW cl, Good(chars, cl),
         NEW segment \in Seq(Characters), segment # <<>>
  PROVE  LET new == AddSegment(cl, segment)
         IN /\ Good(chars \o segment, new) /\ GoesOn(new, cl)
            /\ IsAscii(segment) /\ Len(segment) > 1 /\ cl # <<>> /\ Last(cl).of \notin Tight =>
                 new[Len(cl) + 1] = Separator /\ Len(cl) + 1 <= Len(new)
<1> DEFINE set == NeedsBlank(cl, segment)
<1>1. CASE IsAscii(segment)
  <2>1. set \in BOOLEAN
    BY DEF NeedsBlank
  <2>2. AddSegment(cl, segment) = (IF set THEN Append(cl, Separator) ELSE cl) \o Spell(segment)
    BY <1>1 DEF AddSegment
  <2>3. cl # <<>> /\ Len(segment) > 1 /\ Last(cl).of \notin Tight => set
    BY DEF NeedsBlank
  <2> HIDE DEF set
  <2>4. QED
    BY <2>1, <2>2, <2>3, WordAdded
<1>2. CASE ~IsAscii(segment)
  <2>1. AddSegment(cl, segment) = FoldLeft(AddCharacter, cl, segment)
    BY <1>2 DEF AddSegment
  <2>2. QED
    BY <1>2, <2>1, CharactersAdded
<1>3. QED
  BY <1>1, <1>2

(***************************************************************************)
(* Quotes made ASCII, and semicolons commas.                               *)
(***************************************************************************)
\* Translate keeps the length, and ASCII stays so.
LEMMA Translated ==
  ASSUME NEW s \in Seq(Characters)
  PROVE  /\ Translate(s) \in Seq(Characters) /\ Len(Translate(s)) = Len(s)
         /\ \A i \in 1..Len(s) : Translate(s)[i] = Plain(s[i])
         /\ IsAscii(s) => IsAscii(Translate(s))
         /\ s # <<>> => Translate(s) # <<>>
<1> DEFINE n == Len(s)
           t == Translate(s)
<1>1. n \in Nat /\ DOMAIN s = 1..n /\ \A i \in 1..n : s[i] \in Characters
  BY LenProperties, ElementOfSeq
<1>2. \A c \in Characters : Plain(c) \in Characters /\ (c \in Ascii => Plain(c) \in Ascii)
  BY CharactersAssumption DEF Plain, Characters
<1> HIDE DEF n
<1>3. t = [i \in 1..n |-> Plain(s[i])]
  BY <1>1 DEF Translate
<1>4. \A i \in 1..n : Plain(s[i]) \in Characters
  BY <1>1, <1>2
<1> HIDE DEF t
<1>5. t \in Seq(Characters) /\ Len(t) = n
  BY <1>1, <1>3, <1>4
<1>6. IsAscii(s) => IsAscii(t)
  BY <1>1, <1>2, <1>3 DEF IsAscii
<1>7. s # <<>> => t # <<>>
  <2>1. s # <<>> => n # 0
    BY EmptySeq DEF n
  <2>2. Len(<<>>) = 0
    BY EmptySeq
  <2>3. QED
    BY <1>5, <2>1, <2>2
<1>8. QED
  BY <1>3, <1>5, <1>6, <1>7 DEF t, n

\* It goes character by character.
LEMMA TranslatedTogether ==
  ASSUME NEW a \in Seq(Characters), NEW b \in Seq(Characters)
  PROVE  Translate(a \o b) = Translate(a) \o Translate(b)
<1> DEFINE m == Len(a)
           n == Len(b)
           ab == a \o b
           ta == Translate(a)
           tb == Translate(b)
           tab == Translate(ab)
<1>1. /\ m \in Nat /\ n \in Nat
      /\ ab \in Seq(Characters) /\ Len(ab) = m + n
      /\ \A i \in 1..(m + n) : ab[i] = IF i <= m THEN a[i] ELSE b[i - m]
  BY LenProperties, ConcatProperties
<1> HIDE DEF ab
<1>2. /\ ta \in Seq(Characters) /\ Len(ta) = m
      /\ \A i \in 1..m : ta[i] = Plain(a[i])
  BY Translated
<1>3. /\ tb \in Seq(Characters) /\ Len(tb) = n
      /\ \A i \in 1..n : tb[i] = Plain(b[i])
  BY Translated
<1>4. /\ tab \in Seq(Characters) /\ Len(tab) = m + n
      /\ \A i \in 1..(m + n) : tab[i] = Plain(ab[i])
  BY <1>1, Translated
<1> HIDE DEF m, n, ta, tb, tab
<1>5. /\ ta \o tb \in Seq(Characters) /\ Len(ta \o tb) = m + n
      /\ \A i \in 1..(m + n) : (ta \o tb)[i] = IF i <= m THEN ta[i] ELSE tb[i - m]
  BY <1>2, <1>3, ConcatProperties
<1>6. \A i \in 1..(m + n) : tab[i] = (ta \o tb)[i]
  <2>1. TAKE i \in 1..(m + n)
  <2>2. CASE i <= m
    <3>1. i \in 1..m
      BY <1>1, <2>2
    <3>2. ab[i] = a[i] /\ (ta \o tb)[i] = ta[i]
      BY <1>1, <1>5, <2>2
    <3>3. QED
      BY <1>2, <1>4, <3>1, <3>2
  <2>3. CASE ~(i <= m)
    <3>1. i - m \in 1..n
      BY <1>1, <2>3
    <3>2. ab[i] = b[i - m] /\ (ta \o tb)[i] = tb[i - m]
      BY <1>1, <1>5, <2>3
    <3>3. QED
      BY <1>3, <1>4, <3>1, <3>2
  <2>4. QED
    BY <2>2, <2>3
<1>7. tab = ta \o tb
  BY <1>4, <1>5, <1>6, SeqEqual
<1>8. QED
  BY <1>7 DEF tab, ab, ta, tb

(***************************************************************************)
(* The segments of a text.                                                 *)
(***************************************************************************)
Segments == Seq(Characters) \ {<<>>}
AllTranslated(spoken) == [i \in DOMAIN spoken |-> Translate(spoken[i])]

\* The segments of a text, translated, are segments again.
LEMMA SegmentsTranslated ==
  ASSUME NEW spoken \in Seq(Segments)
  PROVE  /\ AllTranslated(spoken) \in Seq(Segments)
         /\ Len(AllTranslated(spoken)) = Len(spoken)
         /\ \A i \in 1..Len(spoken) : AllTranslated(spoken)[i] = Translate(spoken[i])
<1> DEFINE n == Len(spoken)
           t == AllTranslated(spoken)
<1>1. n \in Nat /\ DOMAIN spoken = 1..n /\ \A i \in 1..n : spoken[i] \in Segments
  BY LenProperties, ElementOfSeq
<1> HIDE DEF n
<1>2. t = [i \in 1..n |-> Translate(spoken[i])]
  BY <1>1 DEF AllTranslated
<1>3. \A i \in 1..n : Translate(spoken[i]) \in Segments
  <2>1. TAKE i \in 1..n
  <2>2. spoken[i] \in Seq(Characters) /\ spoken[i] # <<>>
    BY <1>1 DEF Segments
  <2>3. QED
    BY <2>2, Translated DEF Segments
<1> HIDE DEF t
<1>4. t \in Seq(Segments) /\ Len(t) = n
  BY <1>1, <1>2, <1>3
<1>5. QED
  BY <1>2, <1>4 DEF t, n

\* What the fold over a text has after k segments are the tokens of these.
LEMMA TokensOfFirst ==
  ASSUME NEW spoken \in Seq(Segments),
         NEW it, Results("text", <<>>, AllTranslated(spoken), it),
         NEW k \in 0..Len(spoken)
  PROVE  Tokens(SubSeq(spoken, 1, k)) = it[k]
<1> DEFINE n == Len(spoken)
           all == AllTranslated(spoken)
           first == SubSeq(spoken, 1, k)
           some == AllTranslated(first)
<1>1. n \in Nat /\ \A i \in 1..n : spoken[i] \in Segments
  BY LenProperties, ElementOfSeq
<1>2. k \in Nat /\ k <= n
  BY <1>1
<1>3. first \in Seq(Segments) /\ Len(first) = k /\ \A i \in 1..k : first[i] = spoken[i]
  <2>1. 1 \in Int /\ k \in Int /\ \A i \in 1..k : spoken[i] \in Segments
    BY <1>1, <1>2
  <2>2. /\ first \in Seq(Segments)
        /\ Len(first) = IF 1 <= k THEN k - 1 + 1 ELSE 0
        /\ \A i \in 1..(k - 1 + 1) : first[i] = spoken[1 + i - 1]
    BY <2>1, SubSeqProperties
  <2>3. k - 1 + 1 = k /\ (~(1 <= k) => k = 0) /\ \A i \in 1..k : 1 + i - 1 = i
    BY <1>2
  <2> HIDE DEF first
  <2>4. QED
    BY <2>2, <2>3
<1>4. /\ Len(all) = n
      /\ \A i \in 1..n : all[i] = Translate(spoken[i])
  BY SegmentsTranslated
<1> HIDE DEF n, all, first
<1>5. /\ some \in Seq(Segments) /\ Len(some) = k
      /\ \A i \in 1..k : some[i] = Translate(first[i])
  BY <1>3, SegmentsTranslated
<1>6. PICK its : Results("text", <<>>, some, its) /\ Folded("text", <<>>, some) = its[Len(some)]
  BY <1>5, Folds
<1>7. Tokens(first) = its[k]
  BY <1>5, <1>6 DEF Tokens, Folded, AllTranslated
<1> HIDE DEF some
<1>8. its[0] = <<>> /\ \A i \in 1..k : its[i] = AddSegment(its[i - 1], some[i])
  BY <1>5, <1>6 DEF Results, Add
<1>9. it[0] = <<>> /\ \A i \in 1..n : it[i] = AddSegment(it[i - 1], all[i])
  BY <1>4 DEF Results, Add, all
<1> DEFINE G == {i \in Nat : i <= k => its[i] = it[i]}
<1>10. 0 \in G
  BY <1>8, <1>9
<1>11. ASSUME NEW i \in Nat, i \in G PROVE i + 1 \in G
  <2>1. SUFFICES ASSUME i + 1 <= k PROVE its[i + 1] = it[i + 1]
    OBVIOUS
  <2>2. i <= k /\ i + 1 \in 1..k /\ i + 1 \in 1..n /\ (i + 1) - 1 = i
    BY <1>1, <1>2, <2>1
  <2>3. its[i] = it[i]
    BY <1>11, <2>2
  <2>4. some[i + 1] = all[i + 1]
    BY <1>3, <1>4, <1>5, <2>2
  <2>5. its[i + 1] = AddSegment(its[i], some[i + 1]) /\ it[i + 1] = AddSegment(it[i], all[i + 1])
    BY <1>8, <1>9, <2>2
  <2>6. QED
    BY <2>3, <2>4, <2>5
<1> HIDE DEF G
<1>12. \A i \in Nat : i \in G
  BY <1>10, <1>11, NumbersReached
<1>13. its[k] = it[k]
  BY <1>2, <1>12 DEF G
<1>14. QED
  BY <1>7, <1>13 DEF first

\* A whole text.
LEMMA TextSpelt ==
  ASSUME NEW spoken \in Seq(Segments)
  PROVE  Spells(spoken, Tokens(spoken)) /\ SetApart(spoken, Tokens(spoken))
<1> DEFINE n == Len(spoken)
           all == AllTranslated(spoken)
<1>1. n \in Nat /\ DOMAIN spoken = 1..n
      /\ \A i \in 1..n : spoken[i] \in Segments /\ spoken[i] \in Seq(Characters) /\ spoken[i] # <<>>
  BY LenProperties, ElementOfSeq DEF Segments
<1>2. all \in Seq(Segments) /\ Len(all) = n /\ \A i \in 1..n : all[i] = Translate(spoken[i])
  BY SegmentsTranslated
<1>3. PICK it : Results("text", <<>>, all, it) /\ Folded("text", <<>>, all) = it[Len(all)]
  BY <1>2, Folds
<1>4. Tokens(spoken) = it[n]
  BY <1>2, <1>3 DEF Tokens, Folded, AllTranslated
<1>5. it[0] = <<>> /\ \A i \in 1..n : it[i] = AddSegment(it[i - 1], all[i])
  BY <1>2, <1>3 DEF Results, Add
<1>6. PICK fl \in [0..n -> Seq(Characters)] : Joins(spoken, fl)
  <2>1. spoken \in Seq(Seq(Characters))
    BY <1>1, LenProperties
  <2>2. QED
    BY <2>1, Flattens
<1>7. \A k \in 0..n : Tokens(SubSeq(spoken, 1, k)) = it[k]
  BY <1>3, TokensOfFirst
<1>8. \A i \in 1..n : fl[i] = fl[i - 1] \o spoken[i]
  BY <1>6 DEF Joins
<1>9. fl[0] = <<>> /\ FlattenSeq(spoken) = fl[n]
  BY <1>6 DEF Joins
<1> HIDE DEF n, all
<1> DEFINE Stands(k) == Good(Translate(fl[k]), it[k])
           Word(i) == IsAscii(all[i]) /\ Len(all[i]) > 1 /\ it[i - 1] # <<>>
                      /\ Last(it[i - 1]).of \notin Tight
           Set(i) == Word(i) => /\ it[i][Len(it[i - 1]) + 1] = Separator
                                /\ Len(it[i - 1]) + 1 <= Len(it[i])
<1>10. ASSUME NEW i \in 1..n, Stands(i - 1)
       PROVE  Stands(i) /\ GoesOn(it[i], it[i - 1]) /\ Set(i)
  <2>1. i - 1 \in 0..n
    BY <1>1
  <2>2. fl[i - 1] \in Seq(Characters) /\ spoken[i] \in Seq(Characters)
    BY <1>1, <1>6, <2>1
  <2>3. all[i] \in Seq(Characters) /\ all[i] # <<>>
    <3>1. all[i] \in Segments
      BY <1>2, ElementOfSeq
    <3>2. QED
      BY <3>1 DEF Segments
  <2>4. fl[i] = fl[i - 1] \o spoken[i] /\ all[i] = Translate(spoken[i])
    BY <1>2, <1>8
  <2>5. Translate(fl[i]) = Translate(fl[i - 1]) \o all[i]
    BY <2>2, <2>4, TranslatedTogether
  <2>6. it[i] = AddSegment(it[i - 1], all[i])
    BY <1>5
  <2> DEFINE new == AddSegment(it[i - 1], all[i])
  <2>7. /\ Good(Translate(fl[i - 1]) \o all[i], new) /\ GoesOn(new, it[i - 1])
        /\ Word(i) => new[Len(it[i - 1]) + 1] = Separator /\ Len(it[i - 1]) + 1 <= Len(new)
    BY <1>10, <2>3, SegmentAdded
  <2> HIDE DEF new
  <2>8. it[i] = new
    BY <2>6 DEF new
  <2>9. QED
    BY <2>5, <2>7, <2>8
<1>11. \A k \in 0..n : Stands(k)
  <2> DEFINE G == {k \in Nat : k <= n => Stands(k)}
  <2>1. 0 \in G
    <3>1. Translate(<<>>) = <<>> /\ Of(<<>>) = <<>> /\ DOMAIN <<>> = {}
      BY DEF Translate, Of
    <3>2. <<>> \in Seq(Characters) /\ <<>> \in Seq(Toks) /\ Len(<<>>) = 0
      BY EmptySeq
    <3>3. Preceded(<<>>)
      BY <3>2 DEF Preceded
    <3>4. Good(<<>>, <<>>)
      BY <3>1, <3>2, <3>3, SpeltStart DEF Good
    <3>5. QED
      BY <1>5, <1>9, <3>1, <3>4
  <2>2. ASSUME NEW k \in Nat, k \in G PROVE k + 1 \in G
    <3> HIDE DEF Stands
    <3>1. SUFFICES ASSUME k + 1 <= n PROVE Stands(k + 1)
      OBVIOUS
    <3>2. k <= n /\ k + 1 \in 1..n /\ (k + 1) - 1 = k
      BY <1>1, <3>1
    <3>3. Stands(k)
      BY <2>2, <3>2
    <3>4. QED
      BY <1>10, <3>2, <3>3
  <2> HIDE DEF G, Stands
  <2>3. \A k \in Nat : k \in G
    BY <2>1, <2>2, NumbersReached
  <2>4. \A k \in 0..n : k \in Nat /\ k <= n
    BY <1>1
  <2>5. QED
    BY <2>3, <2>4 DEF G
<1>12. ASSUME NEW i \in 1..n PROVE i - 1 \in 0..n /\ GoesOn(it[i], it[i - 1]) /\ Set(i)
  <2>1. i - 1 \in 0..n
    BY <1>1
  <2> HIDE DEF Stands, Set
  <2>2. QED
    BY <1>10, <1>11, <2>1
<1>13. \A k \in 0..n : it[k] \in Seq(Toks) /\ Len(it[k]) \in Nat
  <2>1. TAKE k \in 0..n
  <2>2. it[k] \in Seq(Toks)
    BY <1>11 DEF Good
  <2>3. QED
    BY <2>2, LenProperties
<1>14. \A k \in 0..n : GoesOn(it[n], it[k])
  <2> DEFINE G == {m \in Nat : m <= n => \A k \in 0..m : GoesOn(it[m], it[k])}
  <2>1. 0 \in G
    <3>1. SUFFICES ASSUME NEW k \in 0..0 PROVE GoesOn(it[0], it[k])
      OBVIOUS
    <3>2. k = 0 /\ 0 \in 0..n
      BY <1>1
    <3>3. QED
      BY <1>13, <3>2 DEF GoesOn
  <2>2. ASSUME NEW m \in Nat, m \in G PROVE m + 1 \in G
    <3>1. SUFFICES ASSUME m + 1 <= n, NEW k \in 0..(m + 1) PROVE GoesOn(it[m + 1], it[k])
      OBVIOUS
    <3>2. m <= n /\ m + 1 \in 1..n /\ (m + 1) - 1 = m /\ k \in 0..n /\ m \in 0..n /\ m + 1 \in 0..n
      BY <1>1, <3>1
    <3>3. CASE k = m + 1
      BY <1>13, <3>2, <3>3 DEF GoesOn
    <3>4. CASE k # m + 1
      <4>1. k \in 0..m
        BY <3>4
      <4>2. GoesOn(it[m], it[k])
        BY <2>2, <3>2, <4>1
      <4>3. GoesOn(it[m + 1], it[m])
        BY <1>12, <3>2
      <4>4. QED
        BY <1>13, <3>2, <4>2, <4>3, GoesOnFurther
    <3>5. QED
      BY <3>3, <3>4
  <2> HIDE DEF G
  <2>3. \A m \in Nat : m \in G
    BY <2>1, <2>2, NumbersReached
  <2>4. n \in G /\ n <= n
    BY <1>1, <2>3
  <2>5. QED
    BY <2>4 DEF G
<1>15. n \in 0..n
  BY <1>1
<1>16. Spells(spoken, it[n])
  <2>1. Spelt(Translate(FlattenSeq(spoken)), Of(it[n]))
    BY <1>9, <1>11, <1>15 DEF Good
  <2>2. QED
    BY <2>1 DEF Spells, Spelt, Of
<1>17. ASSUME NEW i \in DOMAIN it[n], it[n][i].pinyin
       PROVE  i > 1 /\ it[n][i - 1] = Separator
  <2>1. Preceded(it[n]) /\ DOMAIN it[n] = 1..Len(it[n])
    BY <1>11, <1>13, <1>15, LenProperties DEF Good
  <2>2. QED
    BY <1>17, <2>1 DEF Preceded
<1>18. ASSUME NEW k \in DOMAIN spoken, k > 1, Len(spoken[k]) > 1, IsAscii(spoken[k])
       PROVE  LET before == Tokens(SubSeq(spoken, 1, k - 1))
              IN Last(before).of \in Tight \/ it[n][Len(before) + 1] = Separator
  <2>1. k \in 1..n /\ k - 1 \in 0..n /\ k - 1 \in 1..n
    BY <1>1, <1>18
  <2>2. Tokens(SubSeq(spoken, 1, k - 1)) = it[k - 1]
    BY <1>7, <2>1
  <2>3. it[k - 1] # <<>>
    <3> DEFINE j == k - 1
    <3>1. j \in 1..n /\ j \in 0..n /\ j - 1 \in 0..n
      BY <1>1, <2>1
    <3> HIDE DEF j
    <3>2. fl[j - 1] \in Seq(Characters) /\ spoken[j] \in Seq(Characters) /\ spoken[j] # <<>>
      BY <1>1, <1>6, <3>1
    <3>3. fl[j] = fl[j - 1] \o spoken[j] /\ fl[j] \in Seq(Characters)
      BY <1>6, <1>8, <3>1
    <3>4. fl[j] # <<>>
      BY <3>2, <3>3, ConcatProperties, EmptySeq, LenProperties
    <3>5. Translate(fl[j]) # <<>> /\ Good(Translate(fl[j]), it[j])
      BY <1>11, <3>1, <3>3, <3>4, Translated
    <3>6. it[j] # <<>>
      BY <3>5, SomethingSpelt
    <3>7. QED
      BY <3>6 DEF j
  <2>4. IsAscii(all[k]) /\ Len(all[k]) > 1
    <3>1. all[k] = Translate(spoken[k]) /\ spoken[k] \in Seq(Characters)
      BY <1>1, <1>2, <2>1
    <3>2. QED
      BY <1>18, <3>1, Translated
  <2>5. Set(k) /\ GoesOn(it[n], it[k])
    <3> HIDE DEF Set
    <3>1. k \in 0..n
      BY <1>1, <2>1
    <3>2. QED
      BY <1>12, <1>14, <2>1, <3>1
  <2>6. CASE Last(it[k - 1]).of \in Tight
    BY <2>2, <2>6
  <2>7. CASE Last(it[k - 1]).of \notin Tight
    <3>1. it[k][Len(it[k - 1]) + 1] = Separator /\ Len(it[k - 1]) + 1 <= Len(it[k])
      BY <2>3, <2>4, <2>5, <2>7
    <3>2. k \in 0..n /\ Len(it[k - 1]) \in Nat /\ Len(it[k]) \in Nat
      BY <1>1, <1>13, <2>1
    <3>3. Len(it[k - 1]) + 1 \in 1..Len(it[k])
      BY <3>1, <3>2
    <3>4. it[n][Len(it[k - 1]) + 1] = Separator
      BY <2>5, <3>1, <3>3 DEF GoesOn
    <3>5. QED
      BY <2>2, <3>4
  <2>8. QED
    BY <2>6, <2>7
<1>19. SetApart(spoken, it[n])
  BY <1>17, <1>18 DEF SetApart
<1>20. QED
  BY <1>4, <1>16, <1>19

(***************************************************************************)
(* What the worker spells.                                                 *)
(***************************************************************************)
\* Until the file is written the worker has the tokens of the text it speaks.
TextInHand == at = "save" /\ engine = "f5" => text \in Texts /\ tokens = Tokens(text)

\* Only synth goes to the saving of f5_worker.py, with the tokens it made.
LEMMA TextInHandStep == Places /\ TextInHand /\ [Next]_vars => TextInHand'
<1> SUFFICES ASSUME Places, TextInHand, [Next]_vars PROVE TextInHand'
  OBVIOUS
<1> USE DEF Places, TextInHand, Goes, orchestrator, serving, stream, setup, spelling
<1>1. CASE Load \/ WarmUp \/ Announce \/ Take \/ SeeEnd \/ Answer
  BY <1>1 DEF Load, WarmUp, Announce, Take, SeeEnd, Answer, Served
<1>2. CASE StartPlayer \/ Infer \/ WriteChunk \/ BrokenPipe \/ Close \/ Wait
  BY <1>2 DEF StartPlayer, Infer, WriteChunk, BrokenPipe, Close, Wait
<1>3. CASE Synth
  BY <1>3 DEF Synth
<1>4. CASE Save \/ System \/ WorkerDies
  BY <1>4 DEF Save, System, WorkerDies
<1>5. CASE PlayerOpens \/ PlayerRefused \/ PlayerPlays \/ PlayerEnds \/ PlayerDies
  BY <1>5 DEF PlayerOpens, PlayerRefused, PlayerPlays, PlayerEnds, PlayerDies, PlayerGone
<1>6. CASE Chime \/ Hangup \/ UNCHANGED vars
  BY <1>6 DEF Chime, Hangup, vars
<1>7. ASSUME NEW l \in Lines, Write(l) PROVE TextInHand'
  BY <1>7 DEF Write
<1>8. QED
  BY <1>1, <1>2, <1>3, <1>4, <1>5, <1>6, <1>7 DEF Next, WorkerStep, PlayerStep

\* F5 is given the text it should speak: one token for each character and in
\* order, with a separator before every syllable of Chinese and before every
\* word that no blank, colon or quote precedes. For every text that is made of
\* segments with something in them.
THEOREM AlwaysSpelledOut == Spec => []SpelledOut
<1>1. Init => TypeOK
  BY TypesStart
<1>2. Init => TextInHand
  BY DEF Init, TextInHand
<1>3. TypeOK /\ TextInHand /\ [Next]_vars => TextInHand'
  BY TextInHandStep DEF TypeOK
<1>4. TextInHand => SpelledOut
  <2> SUFFICES ASSUME TextInHand, at = "save", engine = "f5"
               PROVE  Spells(text, tokens) /\ SetApart(text, tokens)
    BY DEF SpelledOut
  <2>1. text \in Seq(Segments) /\ tokens = Tokens(text)
    BY TextsAssumption DEF TextInHand, Segments
  <2>2. QED
    BY <2>1, TextSpelt
<1>5. QED
  BY <1>2, <1>3, <1>4, TypeCorrect, PTL DEF Spec
=============================================================================
