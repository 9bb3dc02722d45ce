----------------------------- MODULE TurnProofs -----------------------------
(***************************************************************************)
(* What module Turn promises, for any number of turns and of processes. A *)
(* process that runs is the one its Subprocess refers to, since whoever    *)
(* loads a model holds the mutex and no process of that model runs while   *)
(* it is not Ready and nobody loads it (Known). Answers stay in step with *)
(* requests, since a Ready worker owes nothing but the answer the turn     *)
(* waits for (Quiet, Owes).                                                *)
(***************************************************************************)
EXTENDS Turn, SequenceTheorems, TLAPS

Doings == {"rest", "acquire", "load", "save", "ask", "read"}
ProcType ==
  [model : Models, at : {"loading", "ready", "busy", "exited"},
   inp : Seq(LineType), out : Seq(LineType), job : LineType]

\* TypeOK in three parts.
Threading ==
  /\ place \in [Threads -> Doings \X Models]
  /\ holder \in Threads \cup {"none"}
  /\ ready \subseteq Models
Processes ==
  /\ handle \in [Models -> 0..Len(proc)]
  /\ proc \in Seq(ProcType)
  /\ Len(proc) <= MaxStarts
Speech ==
  /\ turn \in 0..MaxTurns /\ file \in 0..MaxTurns
  /\ saved \in BOOLEAN
  /\ text \in LineType /\ reply \in LineType

\* The thread that loads holds the mutex.
Lock == \A t \in Threads : holder = t <=> place[t][1] = "load"

\* The turn goes on with a model that is Ready.
Engaged ==
  \A m \in Models :
    place["turn"] \in {<<"save", m>>, <<"ask", m>>, <<"read", m>>} => m \in ready

\* A Subprocess refers to a worker of its model, Ready or not.
Handles ==
  /\ \A m \in Models : handle[m] # 0 => proc[handle[m]].model = m
  /\ \A m \in ready : handle[m] # 0

\* What a process is like until its first line has been read.
StartUp(w) ==
  \/ w.at = "loading" /\ w.inp = <<>> /\ w.out = <<>>
  \/ w.at = "ready" /\ w.inp = <<>> /\ w.out = <<Word("READY")>>
  \/ w.at = "exited" /\ w.inp = <<>> /\ w.out \in {<<>>, <<Word("READY")>>, <<Word("ERR")>>}

Fresh ==
  \A t \in Threads, m \in Models :
    place[t] = <<"load", m>> => m \notin ready /\ handle[m] # 0 /\ StartUp(proc[handle[m]])

\* A process that runs is referred to, and Ready or being loaded.
Known ==
  \A p \in 1..Len(proc) : proc[p].at # "exited" =>
    /\ handle[proc[p].model] = p
    /\ \/ proc[p].model \in ready
       \/ \E t \in Threads : place[t] = <<"load", proc[p].model>>

Types == Threading /\ Processes /\ Speech
Control == Lock /\ Engaged
Care == Handles /\ Fresh /\ Known

(***************************************************************************)
(* Where a thread goes.                                                    *)
(***************************************************************************)
LEMMA AfterPlaces ==
  ASSUME NEW t \in Threads, NEW m \in Models, NEW ok \in BOOLEAN
  PROVE  /\ AfterAcquire(t, m, ok) \in Doings \X Models
         /\ AfterAcquire(t, m, ok)[1] # "load" /\ AfterAcquire(t, m, ok)[1] # "read"
         /\ \A n \in Models :
              AfterAcquire(t, m, ok) \in {<<"save", n>>, <<"ask", n>>, <<"read", n>>}
                => ok /\ n = m /\ t = "turn"
BY DEF AfterAcquire, Rest, Threads, Models, Doings

\* A step from place to place.
LEMMA Moved ==
  ASSUME Threading, NEW t \in Threads, NEW from, NEW to \in Doings \X Models, Goes(t, from, to)
  PROVE  /\ place[t] = from /\ place'[t] = to
         /\ place' \in [Threads -> Doings \X Models]
         /\ \A u \in Threads : u # t => place'[u] = place[u]
BY DEF Goes, Threading

(***************************************************************************)
(* A process that changes.                                                 *)
(***************************************************************************)
LEMMA Changed ==
  ASSUME Processes, NEW p \in 1..Len(proc), NEW r, proc' = [proc EXCEPT ![p] = r]
  PROVE  /\ Len(proc') = Len(proc) /\ proc'[p] = r
         /\ \A q \in 1..Len(proc) : q # p => proc'[q] = proc[q]
         /\ r \in ProcType => proc' \in Seq(ProcType)
<1> DEFINE S == ProcType \cup {r}
<1>1. proc \in Seq(S) /\ r \in S
  BY SeqMonotonic DEF Processes
<1> HIDE DEF S
<1>2. /\ Len(proc') = Len(proc)
      /\ \A q \in 1..Len(proc) : proc'[q] = IF q = p THEN r ELSE proc[q]
  BY <1>1, ExceptSeq
<1>3. r \in ProcType => proc' \in Seq(ProcType)
  BY ExceptSeq DEF Processes
<1>4. QED
  BY <1>2, <1>3

LEMMA Care1 ==
  ASSUME Threading, Processes, Care, UNCHANGED manager,
         NEW p \in 1..Len(proc), NEW r, proc' = [proc EXCEPT ![p] = r],
         r.model = proc[p].model,
         r.at = "exited" \/ proc[p].at # "exited",
         proc[p].model \in ready \/ (StartUp(proc[p]) => StartUp(r)),
         \A t \in Threads, m \in Models : place'[t] = <<"load", m>> <=> place[t] = <<"load", m>>
  PROVE  Care'
<1> USE DEF manager
<1>1. /\ Len(proc') = Len(proc) /\ proc'[p] = r
      /\ \A q \in 1..Len(proc) : q # p => proc'[q] = proc[q]
  BY Changed
<1>2. \A q \in 1..Len(proc) :
        proc'[q].model = proc[q].model /\ (proc'[q].at # "exited" => proc[q].at # "exited")
  BY <1>1
<1>3. \A m \in Models : handle[m] # 0 => handle[m] \in 1..Len(proc)
  BY DEF Processes
<1>4. Handles'
  BY <1>2, <1>3 DEF Care, Handles
<1>5. Fresh'
  <2> SUFFICES ASSUME NEW t \in Threads, NEW m \in Models, place[t] = <<"load", m>>
               PROVE  m \notin ready /\ handle[m] # 0 /\ StartUp(proc'[handle[m]])
    BY DEF Fresh
  <2>1. m \notin ready /\ handle[m] # 0 /\ StartUp(proc[handle[m]]) /\ proc[handle[m]].model = m
    BY DEF Care, Fresh, Handles
  <2>2. CASE handle[m] = p
    BY <1>1, <2>1, <2>2
  <2>3. CASE handle[m] # p
    BY <1>1, <1>3, <2>1, <2>3
  <2>4. QED
    BY <2>2, <2>3
<1>6. Known'
  <2> SUFFICES ASSUME NEW q \in 1..Len(proc), proc'[q].at # "exited"
               PROVE  /\ handle[proc'[q].model] = q
                      /\ \/ proc'[q].model \in ready
                         \/ \E t \in Threads : place'[t] = <<"load", proc'[q].model>>
    BY <1>1 DEF Known
  <2>1. proc[q].model \in Models
    <3>1. proc[q] \in ProcType
      BY ElementOfSeq DEF Processes
    <3>2. QED
      BY <3>1 DEF ProcType
  <2>2. proc'[q].model = proc[q].model /\ proc[q].at # "exited"
    BY <1>2
  <2>3. /\ handle[proc[q].model] = q
        /\ \/ proc[q].model \in ready
           \/ \E t \in Threads : place[t] = <<"load", proc[q].model>>
    BY <2>2 DEF Care, Known
  <2>4. (\E t \in Threads : place[t] = <<"load", proc[q].model>>)
          => \E t \in Threads : place'[t] = <<"load", proc[q].model>>
    BY <2>1
  <2>5. QED
    BY <2>2, <2>3, <2>4
<1>7. QED
  BY <1>4, <1>5, <1>6 DEF Care

(***************************************************************************)
(* The workers.                                                            *)
(***************************************************************************)
Tags == {"", "READY", "ERR", "STT", "GEN", "TXT", "RPL"}

LEMMA LineTypes ==
  ASSUME NEW tag \in Tags, NEW asked \in 0..MaxTurns, NEW about \in 0..MaxTurns,
         NEW words \in Texts
  PROVE  Line(tag, asked, about, words) \in LineType
BY DEF Line, LineType, Tags

LEMMA WordTypes == Nothing \in LineType /\ \A tag \in Tags : Word(tag) \in LineType
<1>1. 0 \in 0..MaxTurns /\ "" \in Texts /\ "" \in Tags
  BY BoundsAssumption DEF Texts, Tags
<1>2. QED
  BY <1>1, LineTypes DEF Nothing, Word

LEMMA RequestType == ASSUME Speech, NEW m \in Models PROVE Request(m) \in LineType
<1>1. "words" \in Texts /\ 0 \in 0..MaxTurns
  BY BoundsAssumption DEF Texts
<1>2. /\ text.about \in 0..MaxTurns /\ text.text \in Texts
      /\ reply.about \in 0..MaxTurns /\ reply.text \in Texts
  BY DEF Speech, LineType
<1>3. QED
  BY <1>1, <1>2, LineTypes DEF Request, Models, Speech, Tags

\* What a worker may become.
Turned(p, r) ==
  /\ proc' = [proc EXCEPT ![p] = r]
  /\ r \in ProcType
  /\ r.model = proc[p].model
  /\ r.at = "exited" \/ proc[p].at # "exited"
  /\ StartUp(proc[p]) => StartUp(r)

LEMMA WorkerTurns ==
  ASSUME Processes, Speech, NEW p \in 1..Len(proc), WorkerProceeds(p) \/ WorkerDies(p)
  PROVE  UNCHANGED <<place, manager, speech>> /\ \E r : Turned(p, r)
<1>0. /\ proc[p] \in ProcType /\ proc[p].model \in Models
      /\ proc[p].inp \in Seq(LineType) /\ proc[p].out \in Seq(LineType) /\ proc[p].job \in LineType
  <2>1. proc[p] \in ProcType
    BY ElementOfSeq DEF Processes
  <2>2. QED
    BY <2>1 DEF ProcType
<1>1. Nothing \in LineType /\ Word("READY") \in LineType /\ Word("ERR") \in LineType
  BY WordTypes DEF Tags
<1>2. <<>> \in Seq(LineType)
  BY EmptySeq
<1>3. CASE WorkerLoads(p)
  <2> DEFINE out == Append(proc[p].out, Word("READY"))
             r == [proc[p] EXCEPT !.at = "ready", !.out = out]
  <2>1. out \in Seq(LineType)
    BY <1>0, <1>1, AppendProperties
  <2>2. proc[p].out = <<>> => out = <<Word("READY")>>
    OBVIOUS
  <2> HIDE DEF out
  <2>3. /\ proc[p].at = "loading"
        /\ proc' = [proc EXCEPT ![p] = r]
        /\ UNCHANGED <<place, manager, speech>>
    BY <1>3 DEF WorkerLoads, Becomes, out
  <2>4. /\ r \in ProcType /\ r.model = proc[p].model /\ r.at = "ready" /\ r.out = out
        /\ r.inp = proc[p].inp
    BY <1>0, <2>1 DEF ProcType
  <2> HIDE DEF r
  <2>5. StartUp(proc[p]) => StartUp(r)
    BY <2>2, <2>3, <2>4 DEF StartUp
  <2>6. Turned(p, r)
    BY <2>3, <2>4, <2>5 DEF Turned
  <2>7. QED
    BY <2>3, <2>6
<1>4. CASE WorkerFails(p)
  <2> DEFINE out == IF proc[p].model = "tts" THEN proc[p].out ELSE Append(proc[p].out, Word("ERR"))
             r == [proc[p] EXCEPT !.at = "exited", !.out = out]
  <2>1. out \in Seq(LineType)
    BY <1>0, <1>1, AppendProperties
  <2>2. proc[p].out = <<>> => out \in {<<>>, <<Word("ERR")>>}
    OBVIOUS
  <2> HIDE DEF out
  <2>3. /\ proc[p].at = "loading"
        /\ proc' = [proc EXCEPT ![p] = r]
        /\ UNCHANGED <<place, manager, speech>>
    BY <1>4 DEF WorkerFails, Becomes, out
  <2>4. /\ r \in ProcType /\ r.model = proc[p].model /\ r.at = "exited" /\ r.out = out
        /\ r.inp = proc[p].inp
    BY <1>0, <2>1 DEF ProcType
  <2> HIDE DEF r
  <2>5. StartUp(proc[p]) => StartUp(r)
    BY <2>2, <2>3, <2>4 DEF StartUp
  <2>6. Turned(p, r)
    BY <2>3, <2>4, <2>5 DEF Turned
  <2>7. QED
    BY <2>3, <2>6
<1>5. CASE WorkerTakes(p)
  <2> DEFINE line == Head(proc[p].inp)
             about == IF proc[p].model = "stt" THEN file ELSE line.about
             inp == Tail(proc[p].inp)
             job == [line EXCEPT !.about = about]
             rest == [proc[p] EXCEPT !.inp = inp]
             r == IF Understood(p, line) THEN [rest EXCEPT !.at = "busy", !.job = job] ELSE rest
  <2>1. proc[p].inp # <<>> /\ inp \in Seq(LineType) /\ line \in LineType
    BY <1>0, <1>5, HeadTailProperties DEF WorkerTakes
  <2>2. about \in 0..MaxTurns
    BY <2>1 DEF Speech, LineType
  <2> HIDE DEF about
  <2>3. job \in LineType
    BY <2>1, <2>2 DEF LineType
  <2>4. /\ proc[p].at = "ready"
        /\ proc' = [proc EXCEPT ![p] = r]
        /\ UNCHANGED <<place, manager, speech>>
    BY <1>5 DEF WorkerTakes, Becomes, about
  <2> HIDE DEF inp, line, job
  <2>5. r \in ProcType /\ r.model = proc[p].model
    BY <1>0, <2>1, <2>3 DEF ProcType
  <2>6. ~StartUp(proc[p])
    BY <2>1, <2>4 DEF StartUp
  <2>7. Turned(p, r)
    BY <2>4, <2>5, <2>6 DEF Turned
  <2>8. QED
    BY <2>4, <2>7
<1>6. ASSUME proc[p].at = "busy",
             \E tag \in {"TXT", "RPL"}, words \in Texts :
               Becomes(p, "busy", Answered(p, tag, words))
      PROVE  UNCHANGED <<place, manager, speech>> /\ \E r : Turned(p, r)
  <2>1. PICK tag \in {"TXT", "RPL"}, words \in Texts : Becomes(p, "busy", Answered(p, tag, words))
    BY <1>6
  <2> DEFINE out == Append(proc[p].out, Line(tag, proc[p].job.asked, proc[p].job.about, words))
             r == [proc[p] EXCEPT !.at = "ready", !.job = Nothing, !.out = out]
  <2>2. proc[p].job.asked \in 0..MaxTurns /\ proc[p].job.about \in 0..MaxTurns
    BY <1>0 DEF LineType
  <2>3. out \in Seq(LineType)
    BY <1>0, <2>2, LineTypes, AppendProperties DEF Tags
  <2>4. proc' = [proc EXCEPT ![p] = r] /\ UNCHANGED <<place, manager, speech>>
    BY <2>1 DEF Becomes, Answered
  <2> HIDE DEF out
  <2>5. r \in ProcType /\ r.model = proc[p].model
    BY <1>0, <1>1, <2>3 DEF ProcType
  <2>6. ~StartUp(proc[p])
    BY <1>6 DEF StartUp
  <2>7. Turned(p, r)
    BY <1>6, <2>4, <2>5, <2>6 DEF Turned
  <2>8. QED
    BY <2>4, <2>7
<1>7. CASE WorkerAnswers(p)
  <2>1. proc[p].at = "busy"
    BY <1>7 DEF WorkerAnswers, Becomes
  <2>2. \E tag \in {"TXT", "RPL"}, words \in Texts : Becomes(p, "busy", Answered(p, tag, words))
    BY <1>7 DEF WorkerAnswers
  <2>3. QED
    BY <1>6, <2>1, <2>2
<1>8. CASE WorkerSpeaks(p)
  <2>1. proc[p].at = "busy"
    BY <1>8 DEF WorkerSpeaks, Becomes
  <2>2. "words" \in Texts /\ Becomes(p, "busy", Answered(p, "RPL", "words"))
    BY <1>8 DEF WorkerSpeaks, Texts
  <2>3. QED
    BY <1>6, <2>1, <2>2
<1>9. CASE WorkerDies(p)
  <2> DEFINE r == [proc[p] EXCEPT !.at = "exited", !.inp = <<>>, !.job = Nothing]
  <2>1. /\ proc[p].at # "exited"
        /\ proc' = [proc EXCEPT ![p] = r]
        /\ UNCHANGED <<place, manager, speech>>
    BY <1>9 DEF WorkerDies, Alive
  <2>2. /\ r \in ProcType /\ r.model = proc[p].model /\ r.at = "exited"
        /\ r.inp = <<>> /\ r.out = proc[p].out
    BY <1>0, <1>1, <1>2 DEF ProcType
  <2> HIDE DEF r
  <2>3. StartUp(proc[p]) => StartUp(r)
    BY <2>1, <2>2 DEF StartUp
  <2>4. Turned(p, r)
    BY <2>1, <2>2, <2>3 DEF Turned
  <2>5. QED
    BY <2>1, <2>4
<1>10. QED
  BY <1>3, <1>4, <1>5, <1>7, <1>8, <1>9 DEF WorkerProceeds

(***************************************************************************)
(* acquire().                                                              *)
(***************************************************************************)
LEMMA Care2 ==
  ASSUME Processes, Care, UNCHANGED <<manager, proc>>,
         \A t \in Threads, m \in Models : place'[t] = <<"load", m>> <=> place[t] = <<"load", m>>
  PROVE  Care'
<1> USE DEF manager
<1>1. Handles'
  BY DEF Care, Handles
<1>2. Fresh'
  BY DEF Care, Fresh
<1>3. Known'
  <2> SUFFICES ASSUME NEW p \in 1..Len(proc), proc[p].at # "exited", proc[p].model \notin ready
               PROVE  /\ handle[proc[p].model] = p
                      /\ \E t \in Threads : place'[t] = <<"load", proc[p].model>>
    BY DEF Known, Care
  <2>1. handle[proc[p].model] = p /\ \E t \in Threads : place[t] = <<"load", proc[p].model>>
    BY DEF Care, Known
  <2>2. proc[p] \in ProcType
    BY ElementOfSeq DEF Processes
  <2>3. proc[p].model \in Models
    BY <2>2 DEF ProcType
  <2>4. QED
    BY <2>1, <2>3
<1>4. QED
  BY <1>1, <1>2, <1>3 DEF Care

\* A thread that leaves acquire() or passes through it.
LEMMA Acquired ==
  ASSUME Types, Control, NEW t \in Threads, NEW m \in Models, NEW ok \in BOOLEAN,
         NEW from, Goes(t, from, AfterAcquire(t, m, ok)),
         holder \in {"none", t}, holder' = "none",
         ready \subseteq ready', ready' \subseteq Models, ok => m \in ready'
  PROVE  Threading' /\ Control'
<1>0. AfterAcquire(t, m, ok) \in Doings \X Models /\ Threading
  BY AfterPlaces DEF Types
<1>1. /\ place'[t] = AfterAcquire(t, m, ok)
      /\ place' \in [Threads -> Doings \X Models]
      /\ \A u \in Threads : u # t => place'[u] = place[u]
  BY <1>0, Moved
<1>2. Threading'
  BY <1>1 DEF Threading
<1>3. Lock'
  <2>1. "none" \notin Threads
    BY DEF Threads
  <2>2. place'[t][1] # "load"
    BY <1>1, AfterPlaces
  <2>3. \A u \in Threads : u # t => place[u][1] # "load"
    BY <2>1 DEF Control, Lock
  <2>4. QED
    BY <1>1, <2>1, <2>2, <2>3 DEF Lock
<1>4. Engaged'
  <2>1. CASE t = "turn"
    BY <1>1, <2>1, AfterPlaces DEF Engaged
  <2>2. CASE t # "turn"
    BY <1>1, <2>2 DEF Engaged, Control, Threads
  <2>3. QED
    BY <2>1, <2>2
<1>5. QED
  BY <1>2, <1>3, <1>4 DEF Control

\* While the mutex is free nobody loads, and only Ready models run.
LEMMA Free ==
  ASSUME Types, Control, Care, holder = "none"
  PROVE  /\ \A t \in Threads, m \in Models : place[t] # <<"load", m>>
         /\ \A p \in 1..Len(proc) : proc[p].at # "exited" =>
              proc[p].model \in ready /\ handle[proc[p].model] = p
<1>1. \A t \in Threads, m \in Models : place[t] # <<"load", m>>
  BY DEF Control, Lock, Threads
<1>2. \A p \in 1..Len(proc) : proc[p].model \in Models
  <2> TAKE p \in 1..Len(proc)
  <2>1. proc[p] \in ProcType
    BY ElementOfSeq DEF Types, Processes
  <2>2. QED
    BY <2>1 DEF ProcType
<1>3. QED
  BY <1>1, <1>2 DEF Care, Known

Inv == Types /\ Control /\ Care

LEMMA AcquireReadyInv ==
  ASSUME Inv, NEW t \in Threads, NEW m \in Models, AcquireReady(t, m)
  PROVE  Inv'
<1>1. /\ holder = "none" /\ holder' = "none" /\ m \in ready /\ ready' = ready /\ ready \subseteq Models
      /\ Goes(t, <<"acquire", m>>, AfterAcquire(t, m, TRUE))
      /\ UNCHANGED <<manager, proc, speech>>
  BY DEF AcquireReady, manager, Inv, Types, Threading
<1>2. Threading' /\ Control'
  BY <1>1, Acquired DEF Inv
<1>3. /\ \A u \in Threads, n \in Models : place[u] # <<"load", n>>
      /\ \A u \in Threads, n \in Models : place'[u] # <<"load", n>>
  <2>1. \A u \in Threads : place'[u][1] # "load"
    BY <1>1, <1>2 DEF Control, Lock, Threads
  <2>2. QED
    BY <1>1, <2>1, Free DEF Inv
<1>4. Care'
  BY <1>1, <1>3, Care2 DEF Inv, Types
<1>5. (Processes /\ Speech)'
  BY <1>1 DEF Inv, Types, Processes, Speech, manager, speech
<1>6. QED
  BY <1>2, <1>4, <1>5 DEF Inv, Types

LEMMA StartFailsInv ==
  ASSUME Inv, NEW t \in Threads, NEW m \in Models, StartFails(t, m)
  PROVE  Inv'
<1>1. /\ holder = "none" /\ holder' = "none" /\ m \notin ready /\ ready' = ready /\ ready \subseteq Models
      /\ Goes(t, <<"acquire", m>>, AfterAcquire(t, m, FALSE))
      /\ UNCHANGED <<proc, speech>>
  BY DEF StartFails, Inv, Types, Threading
<1>2. Threading' /\ Control'
  BY <1>1, Acquired DEF Inv
<1>3. PICK h \in {0, handle[m]} : handle' = [handle EXCEPT ![m] = h]
  BY DEF StartFails
<1>4. handle \in [Models -> 0..Len(proc)] /\ Len(proc) \in Nat
  BY LenProperties DEF Inv, Types, Processes
<1>5. /\ handle' \in [Models -> 0..Len(proc)]
      /\ handle'[m] \in {0, handle[m]} /\ \A n \in Models : n # m => handle'[n] = handle[n]
  BY <1>3, <1>4
<1>6. (Processes /\ Speech)'
  BY <1>1, <1>5 DEF Inv, Types, Processes, Speech, speech
<1>7. Handles'
  BY <1>1, <1>5 DEF Inv, Care, Handles
<1>8. \A u \in Threads, n \in Models : place'[u] # <<"load", n>>
  BY <1>1, <1>2 DEF Control, Lock, Threads
<1>9. Known'
  <2>1. \A p \in 1..Len(proc) : proc[p].at # "exited" =>
          proc[p].model \in ready /\ handle[proc[p].model] = p
    BY <1>1, Free DEF Inv
  <2>2. \A p \in 1..Len(proc) : proc[p].at # "exited" => handle'[proc[p].model] = p
    BY <1>1, <1>5, <2>1
  <2>3. QED
    BY <1>1, <2>1, <2>2 DEF Known
<1>10. Fresh'
  BY <1>8 DEF Fresh
<1>11. QED
  BY <1>2, <1>6, <1>7, <1>9, <1>10 DEF Inv, Types, Care

LEMMA StartInv ==
  ASSUME Inv, NEW t \in Threads, NEW m \in Models, Start(t, m)
  PROVE  Inv'
<1> DEFINE n == Len(proc)
<1>1. /\ holder = "none" /\ holder' = t /\ m \notin ready /\ ready' = ready /\ ready \subseteq Models
      /\ n < MaxStarts
      /\ Goes(t, <<"acquire", m>>, <<"load", m>>)
      /\ proc' = Append(proc, Process(m))
      /\ handle' = [handle EXCEPT ![m] = Len(proc')]
      /\ UNCHANGED speech
  BY DEF Start, Inv, Types, Threading
<1>2. Process(m) \in ProcType /\ Process(m).model = m /\ Process(m).at = "loading"
      /\ StartUp(Process(m))
  BY WordTypes, EmptySeq DEF Process, ProcType, StartUp
<1>3. /\ proc \in Seq(ProcType) /\ n \in Nat /\ MaxStarts \in Nat
      /\ handle \in [Models -> 0..n]
  BY LenProperties, BoundsAssumption DEF Inv, Types, Processes
<1>4. /\ proc' \in Seq(ProcType) /\ Len(proc') = n + 1
      /\ \A p \in 1..n : proc'[p] = proc[p]
      /\ proc'[n + 1] = Process(m)
  BY <1>1, <1>2, <1>3, AppendProperties
<1> HIDE DEF n
<1>5. /\ handle' \in [Models -> 0..(n + 1)] /\ handle'[m] = n + 1
      /\ \A k \in Models : k # m => handle'[k] = handle[k]
  BY <1>1, <1>3, <1>4
<1>6. (Processes /\ Speech)'
  BY <1>1, <1>3, <1>4, <1>5 DEF Inv, Types, Processes, Speech, speech
<1>7. /\ place'[t] = <<"load", m>>
      /\ place' \in [Threads -> Doings \X Models]
      /\ \A u \in Threads : u # t => place'[u] = place[u]
  <2>1. <<"load", m>> \in Doings \X Models /\ Threading
    BY DEF Doings, Inv, Types
  <2>2. QED
    BY <1>1, <2>1, Moved
<1>8. \A u \in Threads : place[u][1] # "load"
  BY <1>1 DEF Inv, Control, Lock, Threads
<1>9. Threading'
  BY <1>1, <1>7 DEF Threading
<1>10. Lock'
  BY <1>1, <1>7, <1>8 DEF Lock
<1>11. Engaged'
  BY <1>1, <1>7 DEF Engaged, Inv, Control, Threads
<1>12. Handles'
  <2>1. \A k \in Models : k # m /\ handle[k] # 0 => proc'[handle[k]] = proc[handle[k]]
    BY <1>3, <1>4
  <2>2. \A k \in Models : handle'[k] # 0 => proc'[handle'[k]].model = k
    BY <1>2, <1>4, <1>5, <2>1 DEF Inv, Care, Handles
  <2>3. \A k \in ready : handle'[k] # 0
    BY <1>1, <1>5 DEF Inv, Care, Handles
  <2>4. QED
    BY <1>1, <2>2, <2>3 DEF Handles
<1>13. Fresh'
  <2>1. \A u \in Threads, k \in Models : place'[u] = <<"load", k>> => u = t /\ k = m
    BY <1>7, <1>8
  <2>2. handle'[m] # 0 /\ StartUp(proc'[handle'[m]])
    BY <1>2, <1>3, <1>4, <1>5
  <2>3. QED
    BY <1>1, <2>1, <2>2 DEF Fresh
<1>14. Known'
  <2> SUFFICES ASSUME NEW p \in 1..(n + 1), proc'[p].at # "exited"
               PROVE  /\ handle'[proc'[p].model] = p
                      /\ \/ proc'[p].model \in ready'
                         \/ \E u \in Threads : place'[u] = <<"load", proc'[p].model>>
    BY <1>4 DEF Known
  <2>1. CASE p = n + 1
    BY <1>2, <1>4, <1>5, <1>7, <2>1
  <2>2. CASE p # n + 1
    <3>1. p \in 1..n
      BY <1>3, <2>2
    <3>2. proc'[p] = proc[p]
      BY <1>4, <3>1
    <3>3. proc[p].model \in ready /\ handle[proc[p].model] = p
      BY <1>1, <3>1, <3>2, Free DEF Inv, n
    <3>4. QED
      BY <1>1, <1>5, <3>2, <3>3
  <2>3. QED
    BY <2>1, <2>2
<1>15. QED
  BY <1>6, <1>9, <1>10, <1>11, <1>12, <1>13, <1>14 DEF Inv, Types, Control, Care

(***************************************************************************)
(* Lines read and written.                                                 *)
(***************************************************************************)
\* readLine() of a worker that there is takes a line, or finds the end.
LEMMA Read ==
  ASSUME Processes, NEW m \in Models, handle[m] # 0, ReadLine(m)
  PROVE  /\ handle[m] \in 1..Len(proc)
         /\ NextLine(m) \in LineType
         /\ \/ /\ proc' = proc /\ NextLine(m) = Nothing /\ Out(m) = <<>>
               /\ proc[handle[m]].at = "exited"
            \/ /\ Out(m) # <<>> /\ NextLine(m) = Head(Out(m))
               /\ proc' = [proc EXCEPT ![handle[m]] = [proc[handle[m]] EXCEPT !.out = Tail(Out(m))]]
               /\ [proc[handle[m]] EXCEPT !.out = Tail(Out(m))] \in ProcType
<1>1. handle[m] \in 1..Len(proc)
  BY LenProperties DEF Processes
<1>2. proc[handle[m]] \in ProcType /\ Out(m) \in Seq(LineType)
  <2>1. proc[handle[m]] \in ProcType
    BY <1>1, ElementOfSeq DEF Processes
  <2>2. QED
    BY <2>1 DEF ProcType, Out
<1>3. CASE Out(m) = <<>>
  <2>1. proc' = proc /\ proc[handle[m]].at = "exited"
    BY <1>3 DEF ReadLine, Alive
  <2>2. NextLine(m) = Nothing /\ Nothing \in LineType
    BY <1>3, WordTypes DEF NextLine
  <2>3. QED
    BY <1>1, <1>3, <2>1, <2>2
<1>4. CASE Out(m) # <<>>
  <2>1. NextLine(m) = Head(Out(m)) /\ Head(Out(m)) \in LineType /\ Tail(Out(m)) \in Seq(LineType)
    BY <1>2, <1>4, HeadTailProperties DEF NextLine
  <2>2. proc' = [proc EXCEPT ![handle[m]] = [proc[handle[m]] EXCEPT !.out = Tail(Out(m))]]
    BY <1>4 DEF ReadLine, Out
  <2>3. [proc[handle[m]] EXCEPT !.out = Tail(Out(m))] \in ProcType
    BY <1>2, <2>1 DEF ProcType
  <2>4. QED
    BY <1>1, <1>4, <2>1, <2>2, <2>3
<1>5. QED
  BY <1>3, <1>4

LEMMA LoadedInv ==
  ASSUME Inv, NEW t \in Threads, NEW m \in Models, Loaded(t, m)
  PROVE  Inv'
<1> DEFINE ok == NextLine(m).tag = "READY"
           h == handle[m]
<1>1. /\ place[t] = <<"load", m>> /\ ReadLine(m)
      /\ Goes(t, <<"load", m>>, AfterAcquire(t, m, ok))
      /\ ready' = (IF ok THEN ready \cup {m} ELSE ready)
      /\ holder' = "none" /\ UNCHANGED <<handle, speech>>
  BY DEF Loaded
<1>2. ok \in BOOLEAN /\ holder = t /\ ready \subseteq Models
  BY <1>1 DEF Inv, Control, Lock, Types, Threading
<1>3. Threading' /\ Control'
  BY <1>1, <1>2, Acquired DEF Inv
<1>4. m \notin ready /\ h # 0 /\ StartUp(proc[h]) /\ proc[h].model = m
  BY <1>1 DEF Inv, Care, Fresh, Handles
<1>5. /\ h \in 1..Len(proc)
      /\ \/ proc' = proc /\ NextLine(m) = Nothing /\ proc[h].at = "exited"
         \/ /\ Out(m) # <<>> /\ NextLine(m) = Head(Out(m))
            /\ proc' = [proc EXCEPT ![h] = [proc[h] EXCEPT !.out = Tail(Out(m))]]
            /\ [proc[h] EXCEPT !.out = Tail(Out(m))] \in ProcType
  BY <1>1, <1>4, Read DEF Inv, Types
<1>6. proc[h].at # "exited" => ok
  <2> SUFFICES ASSUME proc[h].at # "exited" PROVE NextLine(m).tag = "READY"
    OBVIOUS
  <2>1. Out(m) # <<>> /\ NextLine(m) = Head(Out(m))
    BY <1>5
  <2>2. Out(m) = <<Word("READY")>>
    BY <1>4, <2>1 DEF StartUp, Out
  <2>3. Head(Out(m)) = Word("READY")
    BY <2>2
  <2>4. Word("READY").tag = "READY"
    BY DEF Word, Line
  <2>5. QED
    BY <2>1, <2>3, <2>4
<1> HIDE DEF ok
<1>7. /\ Len(proc') = Len(proc) /\ proc' \in Seq(ProcType)
      /\ \A p \in 1..Len(proc) : proc'[p].model = proc[p].model /\ proc'[p].at = proc[p].at
  <2>1. CASE proc' = proc
    BY <2>1 DEF Inv, Types, Processes
  <2>2. CASE /\ proc' = [proc EXCEPT ![h] = [proc[h] EXCEPT !.out = Tail(Out(m))]]
             /\ [proc[h] EXCEPT !.out = Tail(Out(m))] \in ProcType
    <3> DEFINE r == [proc[h] EXCEPT !.out = Tail(Out(m))]
    <3>1. proc[h] \in ProcType
      BY <1>5, ElementOfSeq DEF Inv, Types, Processes
    <3>2. r.model = proc[h].model /\ r.at = proc[h].at
      BY <3>1 DEF ProcType
    <3> HIDE DEF r
    <3>3. /\ Len(proc') = Len(proc) /\ proc'[h] = r /\ proc' \in Seq(ProcType)
          /\ \A p \in 1..Len(proc) : p # h => proc'[p] = proc[p]
      BY <1>5, <2>2, Changed DEF r, Inv, Types
    <3>4. QED
      BY <3>2, <3>3
  <2>3. QED
    BY <1>5, <2>1, <2>2
<1>8. (Processes /\ Speech)'
  BY <1>1, <1>7 DEF Inv, Types, Processes, Speech, speech
<1>9. Handles'
  <2>1. \A k \in Models : handle[k] # 0 => handle[k] \in 1..Len(proc)
    BY LenProperties DEF Inv, Types, Processes
  <2>2. QED
    BY <1>1, <1>4, <1>7, <2>1 DEF Inv, Care, Handles
<1>10. \A u \in Threads, n \in Models : place'[u] # <<"load", n>>
  BY <1>1, <1>3 DEF Control, Lock, Threads
<1>11. Fresh'
  BY <1>10 DEF Fresh
<1>12. Known'
  <2> SUFFICES ASSUME NEW p \in 1..Len(proc), proc[p].at # "exited"
               PROVE  handle[proc[p].model] = p /\ proc[p].model \in ready'
    BY <1>1, <1>7 DEF Known
  <2>1. /\ handle[proc[p].model] = p
        /\ \/ proc[p].model \in ready
           \/ \E u \in Threads : place[u] = <<"load", proc[p].model>>
    BY DEF Inv, Care, Known
  <2>2. \A u \in Threads : u # t => place[u][1] # "load"
    BY <1>2 DEF Inv, Control, Lock
  <2>3. proc[p].model \in ready \/ proc[p].model = m
    BY <1>1, <2>1, <2>2
  <2>4. proc[p].model = m => ok
    BY <1>6, <2>1
  <2>5. QED
    BY <1>1, <2>1, <2>3, <2>4
<1>13. QED
  BY <1>3, <1>8, <1>9, <1>11, <1>12 DEF Inv, Types, Care

(***************************************************************************)
(* The turn, and a step of a worker.                                       *)
(***************************************************************************)
LEMMA TurnMoves ==
  ASSUME Types, Control, NEW from, NEW to \in Doings \X Models, Goes("turn", from, to),
         UNCHANGED <<holder, ready>>, from[1] # "load", to[1] # "load",
         \A m \in Models : to \in {<<"save", m>>, <<"ask", m>>, <<"read", m>>} => m \in ready
  PROVE  /\ Threading' /\ Control'
         /\ \A t \in Threads, m \in Models : place'[t] = <<"load", m>> <=> place[t] = <<"load", m>>
<1>1. /\ place["turn"] = from /\ place'["turn"] = to
      /\ place' \in [Threads -> Doings \X Models]
      /\ \A u \in Threads : u # "turn" => place'[u] = place[u]
  BY Moved DEF Types, Threads
<1>2. Threading'
  BY <1>1 DEF Types, Threading
<1>3. Lock'
  BY <1>1 DEF Control, Lock
<1>4. Engaged'
  BY <1>1 DEF Engaged
<1>5. \A t \in Threads, m \in Models : place'[t] = <<"load", m>> <=> place[t] = <<"load", m>>
  BY <1>1
<1>6. QED
  BY <1>2, <1>3, <1>4, <1>5 DEF Control

\* The turn does something with the worker of a Ready model.
LEMMA WithReady ==
  ASSUME Inv, NEW m \in ready, NEW r \in ProcType,
         \/ proc' = proc
         \/ proc' = [proc EXCEPT ![handle[m]] = r] /\ r.model = proc[handle[m]].model
              /\ r.at = proc[handle[m]].at,
         UNCHANGED manager,
         \A t \in Threads, n \in Models : place'[t] = <<"load", n>> <=> place[t] = <<"load", n>>
  PROVE  Care' /\ Processes'
<1>1. CASE proc' = proc
  BY <1>1, Care2 DEF Inv, Types, Processes, manager
<1>2. CASE proc' = [proc EXCEPT ![handle[m]] = r] /\ r.model = proc[handle[m]].model
             /\ r.at = proc[handle[m]].at
  <2>1. m \in Models /\ handle[m] # 0 /\ handle[m] \in 1..Len(proc) /\ proc[handle[m]].model = m
    BY LenProperties DEF Inv, Types, Threading, Processes, Care, Handles
  <2>2. Care'
    BY <1>2, <2>1, Care1 DEF Inv, Types
  <2>3. Len(proc') = Len(proc) /\ proc' \in Seq(ProcType)
    BY <1>2, <2>1, Changed DEF Inv, Types
  <2>4. QED
    BY <2>2, <2>3 DEF Inv, Types, Processes, manager
<1>3. QED
  BY <1>1, <1>2

\* What readLine() does to the worker of a Ready model.
LEMMA ReadReady ==
  ASSUME Inv, NEW m \in ready, ReadLine(m), UNCHANGED manager,
         \A t \in Threads, n \in Models : place'[t] = <<"load", n>> <=> place[t] = <<"load", n>>
  PROVE  Care' /\ Processes' /\ NextLine(m) \in LineType
<1>1. m \in Models /\ handle[m] # 0
  BY DEF Inv, Types, Threading, Care, Handles
<1>2. /\ handle[m] \in 1..Len(proc) /\ NextLine(m) \in LineType
      /\ \/ proc' = proc
         \/ /\ proc' = [proc EXCEPT ![handle[m]] = [proc[handle[m]] EXCEPT !.out = Tail(Out(m))]]
            /\ [proc[handle[m]] EXCEPT !.out = Tail(Out(m))] \in ProcType
  BY <1>1, Read DEF Inv, Types
<1>3. proc[handle[m]] \in ProcType
  BY <1>2, ElementOfSeq DEF Inv, Types, Processes
<1>4. CASE proc' = proc
  BY <1>2, <1>3, <1>4, WithReady
<1>5. CASE /\ proc' = [proc EXCEPT ![handle[m]] = [proc[handle[m]] EXCEPT !.out = Tail(Out(m))]]
           /\ [proc[handle[m]] EXCEPT !.out = Tail(Out(m))] \in ProcType
  <2> DEFINE r == [proc[handle[m]] EXCEPT !.out = Tail(Out(m))]
  <2>1. r.model = proc[handle[m]].model /\ r.at = proc[handle[m]].at
    BY <1>3 DEF ProcType
  <2> HIDE DEF r
  <2>2. QED
    BY <1>2, <1>5, <2>1, WithReady DEF r
<1>6. QED
  BY <1>2, <1>4, <1>5

LEMMA RestTypes ==
  /\ Rest \in Doings \X Models /\ Rest[1] # "load"
  /\ \A m \in Models : Rest \notin {<<"save", m>>, <<"ask", m>>, <<"read", m>>}
BY DEF Rest, Doings, Models

LEMMA BeginInv == ASSUME Inv, Begin PROVE Inv'
<1>1. /\ turn < MaxTurns /\ turn' = turn + 1 /\ saved' = FALSE /\ text' = Nothing /\ reply' = Nothing
      /\ UNCHANGED <<manager, proc, file>>
      /\ Goes("turn", Rest, <<"acquire", "stt">>)
  BY DEF Begin
<1>2. Speech'
  <2>1. turn' \in 0..MaxTurns
    BY <1>1, BoundsAssumption DEF Inv, Types, Speech
  <2>2. QED
    BY <1>1, <2>1, WordTypes DEF Inv, Types, Speech
<1>3. /\ Threading' /\ Control'
      /\ \A t \in Threads, m \in Models : place'[t] = <<"load", m>> <=> place[t] = <<"load", m>>
  <2>1. /\ <<"acquire", "stt">> \in Doings \X Models /\ <<"acquire", "stt">>[1] # "load"
        /\ \A m \in Models : <<"acquire", "stt">> \notin {<<"save", m>>, <<"ask", m>>, <<"read", m>>}
    BY DEF Doings, Models
  <2>2. QED
    BY <1>1, <2>1, RestTypes, TurnMoves DEF Inv, manager
<1>4. Care' /\ Processes'
  BY <1>1, <1>3, Care2 DEF Inv, Types, Processes, manager
<1>5. QED
  BY <1>2, <1>3, <1>4 DEF Inv, Types

LEMMA SaveInv == ASSUME Inv, Save PROVE Inv'
<1>1. /\ file' \in {turn, file} /\ saved' = (file' = turn)
      /\ UNCHANGED <<manager, proc, turn, text, reply>>
      /\ Goes("turn", <<"save", "stt">>, <<"ask", "stt">>)
  BY DEF Save
<1>2. Speech'
  BY <1>1 DEF Inv, Types, Speech
<1>3. /\ Threading' /\ Control'
      /\ \A t \in Threads, m \in Models : place'[t] = <<"load", m>> <=> place[t] = <<"load", m>>
  <2>1. "stt" \in ready
    BY <1>1 DEF Goes, Inv, Control, Engaged, Models
  <2>2. /\ <<"ask", "stt">> \in Doings \X Models /\ <<"ask", "stt">>[1] # "load"
        /\ <<"save", "stt">>[1] # "load"
        /\ \A m \in Models : <<"ask", "stt">> \in {<<"save", m>>, <<"ask", m>>, <<"read", m>>} => m = "stt"
    BY DEF Doings, Models
  <2>3. QED
    BY <1>1, <2>1, <2>2, TurnMoves DEF Inv, manager
<1>4. Care' /\ Processes'
  BY <1>1, <1>3, Care2 DEF Inv, Types, Processes, manager
<1>5. QED
  BY <1>2, <1>3, <1>4 DEF Inv, Types

LEMMA AskInv == ASSUME Inv, NEW m \in Models, Ask(m) PROVE Inv'
<1>1. /\ Goes("turn", <<"ask", m>>, <<"read", m>>) /\ UNCHANGED <<manager, speech>>
      /\ proc' = IF Alive(handle[m])
                 THEN [proc EXCEPT ![handle[m]].inp = Append(@, Request(m))] ELSE proc
  BY DEF Ask
<1>2. m \in ready
  BY <1>1 DEF Goes, Inv, Control, Engaged
<1>3. /\ Threading' /\ Control'
      /\ \A t \in Threads, n \in Models : place'[t] = <<"load", n>> <=> place[t] = <<"load", n>>
  <2>1. /\ <<"read", m>> \in Doings \X Models /\ <<"read", m>>[1] # "load" /\ <<"ask", m>>[1] # "load"
        /\ \A n \in Models : <<"read", m>> \in {<<"save", n>>, <<"ask", n>>, <<"read", n>>} => n = m
    BY DEF Doings
  <2>2. QED
    BY <1>1, <1>2, <2>1, TurnMoves DEF Inv, manager
<1>4. handle[m] \in 1..Len(proc) /\ proc[handle[m]] \in ProcType
  <2>1. handle[m] \in 1..Len(proc)
    BY <1>2, LenProperties DEF Inv, Types, Processes, Care, Handles
  <2>2. QED
    BY <2>1, ElementOfSeq DEF Inv, Types, Processes
<1> DEFINE inp == Append(proc[handle[m]].inp, Request(m))
           r == [proc[handle[m]] EXCEPT !.inp = inp]
<1>5. inp \in Seq(LineType)
  BY <1>4, RequestType, AppendProperties DEF ProcType, Inv, Types
<1>6. proc' = proc \/ proc' = [proc EXCEPT ![handle[m]] = r]
  BY <1>1
<1> HIDE DEF inp
<1>7. r \in ProcType /\ r.model = proc[handle[m]].model /\ r.at = proc[handle[m]].at
  BY <1>4, <1>5 DEF ProcType
<1> HIDE DEF r
<1>8. Care' /\ Processes'
  BY <1>1, <1>2, <1>3, <1>6, <1>7, WithReady
<1>9. Speech'
  BY <1>1 DEF Inv, Types, Speech, speech
<1>10. QED
  BY <1>3, <1>8, <1>9 DEF Inv, Types

\* The turn reads a line of the worker of m and goes on to another place.
LEMMA HearInv ==
  ASSUME Inv, NEW m \in Models, NEW to \in {Rest, <<"acquire", "llm">>, <<"acquire", "tts">>},
         Goes("turn", <<"read", m>>, to), ReadLine(m), UNCHANGED manager,
         UNCHANGED <<turn, file, saved>>,
         text' \in {text, NextLine(m), Nothing}, reply' \in {reply, NextLine(m), Nothing}
  PROVE  Inv'
<1>1. m \in ready
  BY DEF Goes, Inv, Control, Engaged
<1>2. /\ Threading' /\ Control'
      /\ \A t \in Threads, n \in Models : place'[t] = <<"load", n>> <=> place[t] = <<"load", n>>
  <2>1. /\ to \in Doings \X Models /\ to[1] # "load" /\ <<"read", m>>[1] # "load"
        /\ \A n \in Models : to \notin {<<"save", n>>, <<"ask", n>>, <<"read", n>>}
    BY DEF Rest, Doings, Models
  <2>2. QED
    BY <2>1, TurnMoves DEF Inv, manager
<1>3. Care' /\ Processes' /\ NextLine(m) \in LineType
  BY <1>1, <1>2, ReadReady
<1>4. Speech'
  BY <1>3, WordTypes DEF Inv, Types, Speech
<1>5. QED
  BY <1>2, <1>3, <1>4 DEF Inv, Types

LEMMA WorkerInv ==
  ASSUME Inv, NEW p \in DOMAIN proc, WorkerProceeds(p) \/ WorkerDies(p)
  PROVE  Inv'
<1>1. p \in 1..Len(proc)
  BY LenProperties DEF Inv, Types, Processes
<1>2. UNCHANGED <<place, manager, speech>> /\ \E r : Turned(p, r)
  BY <1>1, WorkerTurns DEF Inv, Types
<1>3. PICK r : Turned(p, r)
  BY <1>2
<1>4. Care'
  BY <1>1, <1>2, <1>3, Care1 DEF Turned, Inv, Types
<1>5. Len(proc') = Len(proc) /\ proc' \in Seq(ProcType)
  BY <1>1, <1>3, Changed DEF Turned, Inv, Types
<1>6. Types'
  BY <1>2, <1>5 DEF Inv, Types, Threading, Processes, Speech, manager, speech
<1>7. Control'
  BY <1>2 DEF Inv, Control, Lock, Engaged, manager
<1>8. QED
  BY <1>4, <1>6, <1>7 DEF Inv

LEMMA InitInv == Init => Inv
<1> SUFFICES ASSUME Init PROVE Inv
  OBVIOUS
<1>1. Threading /\ Control
  BY DEF Init, Threading, Control, Lock, Engaged, Rest, Threads, Doings, Models
<1>2. Processes /\ Care
  <2>1. proc = <<>> /\ Len(proc) = 0 /\ proc \in Seq(ProcType) /\ ready = {}
        /\ \A m \in Models : handle[m] = 0
    BY EmptySeq DEF Init
  <2>2. \A t \in Threads, m \in Models : place[t] # <<"load", m>>
    BY DEF Init, Rest, Threads
  <2>3. Processes
    BY <2>1, BoundsAssumption DEF Init, Processes
  <2>4. QED
    BY <2>1, <2>2, <2>3 DEF Care, Handles, Fresh, Known
<1>3. Speech
  <2>1. turn = 0 /\ file = 0 /\ saved = FALSE /\ text = Nothing /\ reply = Nothing
    BY DEF Init
  <2>2. 0 \in 0..MaxTurns
    BY BoundsAssumption
  <2>3. QED
    BY <2>1, <2>2, WordTypes DEF Speech
<1>4. QED
  BY <1>1, <1>2, <1>3 DEF Inv, Types

LEMMA NextInv == Inv /\ [Next]_vars => Inv'
<1> SUFFICES ASSUME Inv, [Next]_vars PROVE Inv'
  OBVIOUS
<1>1. CASE Begin
  BY <1>1, BeginInv
<1>2. ASSUME NEW t \in Threads, AcquireStep(t) PROVE Inv'
  <2>1. PICK m \in Models : AcquireReady(t, m) \/ Start(t, m) \/ StartFails(t, m) \/ Loaded(t, m)
    BY <1>2 DEF AcquireStep
  <2>2. QED
    BY <2>1, AcquireReadyInv, StartInv, StartFailsInv, LoadedInv
<1>3. CASE Save
  BY <1>3, SaveInv
<1>4. ASSUME NEW m \in Models, Ask(m) PROVE Inv'
  BY <1>4, AskInv
<1>5. CASE HearText
  <2>1. PICK to \in {Rest, <<"acquire", "llm">>, <<"acquire", "tts">>} :
          Goes("turn", <<"read", "stt">>, to)
    BY <1>5 DEF HearText
  <2>2. /\ ReadLine("stt") /\ UNCHANGED manager /\ UNCHANGED <<turn, file, saved>>
        /\ text' \in {text, NextLine("stt"), Nothing} /\ reply' = reply /\ "stt" \in Models
    BY <1>5 DEF HearText, Models
  <2>3. QED
    BY <2>1, <2>2, HearInv
<1>6. CASE HearReply
  <2>1. /\ Goes("turn", <<"read", "llm">>, <<"acquire", "tts">>)
        /\ ReadLine("llm") /\ UNCHANGED manager /\ UNCHANGED <<turn, file, saved>>
        /\ reply' \in {reply, NextLine("llm"), Nothing} /\ text' = text /\ "llm" \in Models
    BY <1>6 DEF HearReply, Models
  <2>2. QED
    BY <2>1, HearInv
<1>7. CASE Spoken
  <2>1. /\ Goes("turn", <<"read", "tts">>, Rest)
        /\ ReadLine("tts") /\ UNCHANGED manager /\ UNCHANGED <<turn, file, saved, text, reply>>
        /\ "tts" \in Models
    BY <1>7 DEF Spoken, Models, speech
  <2>2. QED
    BY <2>1, HearInv
<1>8. ASSUME NEW p \in DOMAIN proc, WorkerProceeds(p) \/ WorkerDies(p) PROVE Inv'
  BY <1>8, WorkerInv
<1>9. CASE UNCHANGED vars
  BY <1>9 DEF vars, manager, speech, Inv, Types, Control, Care, Threading, Processes, Speech,
    Lock, Engaged, Handles, Fresh, Known
<1>10. QED
  BY <1>1, <1>2, <1>3, <1>4, <1>5, <1>6, <1>7, <1>8, <1>9 DEF Next, TurnProceeds, Threads

(***************************************************************************)
(* In step.                                                                *)
(***************************************************************************)
\* A line of this turn, and about its samples if they were saved.
Good(line) == line.asked = turn /\ (saved => line.about = turn)

\* A worker that owes nothing, or, to the turn, the answer it waits for.
Quiet(w) == w.inp = <<>> /\ w.out = <<>> /\ w.at \in {"ready", "exited"}
Asked(m, w) ==
  /\ w.at = "ready" /\ w.out = <<>>
  /\ \E l \in LineType : w.inp = <<l>> /\ l.asked = turn /\ (m # "stt" => Good(l))
Busy(w) == w.at = "busy" /\ w.inp = <<>> /\ w.out = <<>> /\ Good(w.job)
Answering(w) ==
  /\ w.at \in {"ready", "exited"} /\ w.inp = <<>>
  /\ \E l \in LineType : w.out = <<l>> /\ Good(l)
Owes(m, w) == Quiet(w) \/ Asked(m, w) \/ Busy(w) \/ Answering(w)

Dialogue ==
  \A m \in ready :
    IF place["turn"] = <<"read", m>> THEN Owes(m, proc[handle[m]]) ELSE Quiet(proc[handle[m]])

\* What the turn has heard, at each of its places.
Said(line) == line.tag # ""
Heard ==
  /\ saved => file = turn
  /\ text = Nothing \/ Said(text)
  /\ reply = Nothing \/ Said(reply)
  /\ Said(text) => Good(text)
  /\ Said(reply) => Good(reply)
At ==
  /\ \A d \in Doings \ {"rest"} : place["turn"] = <<d, "stt">> => text = Nothing /\ reply = Nothing
  /\ \A d \in Doings : place["turn"] = <<d, "llm">> => Said(text)
  /\ place["turn"] = <<"ask", "tts">> => Said(reply)

\* A step of a worker.
LEMMA WorkerOwes ==
  ASSUME Processes, Speech, Heard, NEW p \in 1..Len(proc), WorkerProceeds(p) \/ WorkerDies(p)
  PROVE  /\ Quiet(proc[p]) => Quiet(proc'[p])
         /\ Owes(proc[p].model, proc[p]) => Owes(proc[p].model, proc[p])'
<1>0. /\ proc[p] \in ProcType /\ proc[p].model \in Models
      /\ proc[p].inp \in Seq(LineType) /\ proc[p].out \in Seq(LineType) /\ proc[p].job \in LineType
  <2>1. proc[p] \in ProcType
    BY ElementOfSeq DEF Processes
  <2>2. QED
    BY <2>1 DEF ProcType
<1>1. PICK r : Turned(p, r)
  BY WorkerTurns
<1>2. proc'[p] = r /\ UNCHANGED speech /\ r.model = proc[p].model
  BY <1>1, Changed, WorkerTurns DEF Turned
<1>3. turn' = turn /\ saved' = saved
  BY <1>2 DEF speech
<1>4. ASSUME Quiet(r) \/ Asked(proc[p].model, r) \/ Busy(r) \/ Answering(r)
      PROVE  Owes(proc[p].model, proc[p])'
  BY <1>2, <1>3, <1>4 DEF Owes, Quiet, Asked, Busy, Answering, Good
<1>5. CASE WorkerLoads(p) \/ WorkerFails(p)
  <2>1. proc[p].at = "loading"
    BY <1>5 DEF WorkerLoads, WorkerFails, Becomes
  <2>2. QED
    BY <2>1 DEF Owes, Quiet, Asked, Busy, Answering
<1>6. CASE WorkerDies(p)
  <2>1. r.at = "exited" /\ r.inp = <<>> /\ r.out = proc[p].out
    <3>1. proc' = [proc EXCEPT ![p] = [proc[p] EXCEPT !.at = "exited", !.inp = <<>>, !.job = Nothing]]
      BY <1>6 DEF WorkerDies
    <3> DEFINE q == [proc[p] EXCEPT !.at = "exited", !.inp = <<>>, !.job = Nothing]
    <3>2. q.at = "exited" /\ q.inp = <<>> /\ q.out = proc[p].out
      BY <1>0 DEF ProcType
    <3> HIDE DEF q
    <3>3. proc'[p] = q
      BY <3>1, Changed DEF q
    <3>4. QED
      BY <1>2, <3>2, <3>3
  <2>2. Quiet(proc[p]) => Quiet(r)
    BY <2>1 DEF Quiet
  <2>3. Asked(proc[p].model, proc[p]) \/ Busy(proc[p]) => Quiet(r)
    BY <2>1 DEF Asked, Busy, Quiet
  <2>4. Answering(proc[p]) => Answering(r)
    BY <2>1 DEF Answering
  <2>5. QED
    BY <1>2, <1>4, <2>2, <2>3, <2>4 DEF Owes
<1>7. CASE WorkerTakes(p)
  <2> DEFINE line == Head(proc[p].inp)
             about == IF proc[p].model = "stt" THEN file ELSE line.about
             rest == [proc[p] EXCEPT !.inp = Tail(proc[p].inp)]
             busy == [rest EXCEPT !.at = "busy", !.job = [line EXCEPT !.about = about]]
  <2>1. /\ proc[p].inp # <<>> /\ proc[p].at = "ready"
        /\ proc' = [proc EXCEPT ![p] = IF Understood(p, line) THEN busy ELSE rest]
    BY <1>7 DEF WorkerTakes, Becomes
  <2>2. ~Quiet(proc[p]) /\ ~Busy(proc[p]) /\ ~Answering(proc[p])
    BY <2>1 DEF Quiet, Busy, Answering
  <2>3. SUFFICES ASSUME Asked(proc[p].model, proc[p]) PROVE Owes(proc[p].model, proc[p])'
    BY <2>2 DEF Owes
  <2>4. PICK l \in LineType : /\ proc[p].inp = <<l>> /\ l.asked = turn
                              /\ proc[p].model # "stt" => Good(l)
    BY <2>3 DEF Asked
  <2>5. line = l /\ Tail(proc[p].inp) = <<>> /\ proc[p].out = <<>>
    BY <2>3, <2>4 DEF Asked
  <2> HIDE DEF line
  <2>6. saved => about = turn
    BY <2>4, <2>5 DEF Good, Heard
  <2> HIDE DEF about
  <2>7. [line EXCEPT !.about = about].asked = turn /\ [line EXCEPT !.about = about].about = about
    BY <2>4, <2>5 DEF LineType
  <2>8. rest.inp = <<>> /\ rest.out = <<>> /\ rest.at = "ready"
    BY <1>0, <2>1, <2>5 DEF ProcType
  <2>9. /\ busy.inp = <<>> /\ busy.out = <<>> /\ busy.at = "busy"
        /\ busy.job = [line EXCEPT !.about = about]
    BY <1>0, <2>5 DEF ProcType
  <2>10. Quiet(rest)
    BY <2>8 DEF Quiet
  <2>11. Busy(busy)
    BY <2>6, <2>7, <2>9 DEF Busy, Good
  <2> HIDE DEF rest, busy
  <2>12. r = busy \/ r = rest
    BY <1>2, <2>1, Changed
  <2>13. QED
    BY <1>4, <2>10, <2>11, <2>12
<1>8. CASE WorkerAnswers(p) \/ WorkerSpeaks(p)
  <2>1. PICK tag \in {"TXT", "RPL"}, words \in Texts : Becomes(p, "busy", Answered(p, tag, words))
    BY <1>8 DEF WorkerAnswers, WorkerSpeaks, Texts
  <2>2. proc[p].at = "busy" /\ proc' = [proc EXCEPT ![p] = Answered(p, tag, words)]
    BY <2>1 DEF Becomes
  <2>3. ~Quiet(proc[p]) /\ ~Asked(proc[p].model, proc[p]) /\ ~Answering(proc[p])
    BY <2>2 DEF Quiet, Asked, Answering
  <2>4. SUFFICES ASSUME Busy(proc[p]) PROVE Owes(proc[p].model, proc[p])'
    BY <2>3 DEF Owes
  <2> DEFINE l == Line(tag, proc[p].job.asked, proc[p].job.about, words)
  <2>5. l \in LineType /\ l.asked = proc[p].job.asked /\ l.about = proc[p].job.about
    <3>1. proc[p].job.asked \in 0..MaxTurns /\ proc[p].job.about \in 0..MaxTurns
      BY <1>0 DEF LineType
    <3>2. l \in LineType
      BY <3>1, LineTypes DEF Tags
    <3>3. QED
      BY <3>2 DEF Line
  <2> HIDE DEF l
  <2>6. Good(l)
    BY <2>4, <2>5 DEF Busy, Good
  <2>7. r = [proc[p] EXCEPT !.at = "ready", !.job = Nothing, !.out = Append(@, l)]
    BY <1>2, <2>2, Changed DEF Answered, l
  <2>8. r.at = "ready" /\ r.inp = <<>> /\ r.out = Append(<<>>, l)
    BY <1>0, <2>4, <2>7 DEF ProcType, Busy
  <2>9. r.out = <<l>>
    BY <2>8
  <2>10. Answering(r)
    BY <2>5, <2>6, <2>8, <2>9 DEF Answering
  <2>11. QED
    BY <1>4, <2>10
<1>9. QED
  BY <1>5, <1>6, <1>7, <1>8 DEF WorkerProceeds

\* What the turn reads is of this turn, and then its worker owes nothing.
LEMMA NextGood ==
  ASSUME Inv, Dialogue, NEW m \in Models, place["turn"] = <<"read", m>>, ReadLine(m)
  PROVE  /\ NextLine(m).tag # "" => Good(NextLine(m))
         /\ m \in ready /\ Quiet(proc'[handle[m]])
<1>1. m \in ready /\ handle[m] # 0 /\ Owes(m, proc[handle[m]])
  BY DEF Inv, Control, Engaged, Care, Handles, Dialogue
<1>2. /\ handle[m] \in 1..Len(proc)
      /\ \/ /\ proc' = proc /\ NextLine(m) = Nothing /\ Out(m) = <<>>
            /\ proc[handle[m]].at = "exited"
         \/ /\ Out(m) # <<>> /\ NextLine(m) = Head(Out(m))
            /\ proc' = [proc EXCEPT ![handle[m]] = [proc[handle[m]] EXCEPT !.out = Tail(Out(m))]]
  BY <1>1, Read DEF Inv, Types
<1>3. CASE /\ proc' = proc /\ NextLine(m) = Nothing /\ Out(m) = <<>>
           /\ proc[handle[m]].at = "exited"
  <2>1. Nothing.tag = ""
    BY DEF Nothing, Line
  <2>2. ~Asked(m, proc[handle[m]]) /\ ~Busy(proc[handle[m]])
    BY <1>3 DEF Asked, Busy
  <2>3. ~Answering(proc[handle[m]])
    <3>1. \A l : <<>> # <<l>>
      OBVIOUS
    <3>2. QED
      BY <1>3, <3>1 DEF Answering, Out
  <2>4. QED
    BY <1>1, <1>3, <2>1, <2>2, <2>3 DEF Owes
<1>4. CASE /\ Out(m) # <<>> /\ NextLine(m) = Head(Out(m))
           /\ proc' = [proc EXCEPT ![handle[m]] = [proc[handle[m]] EXCEPT !.out = Tail(Out(m))]]
  <2>1. Answering(proc[handle[m]])
    BY <1>1, <1>4 DEF Owes, Quiet, Asked, Busy, Out
  <2>2. PICK l \in LineType : Out(m) = <<l>> /\ Good(l)
    BY <2>1 DEF Answering, Out
  <2>3. NextLine(m) = l /\ Tail(Out(m)) = <<>>
    BY <1>4, <2>2
  <2> DEFINE r == [proc[handle[m]] EXCEPT !.out = Tail(Out(m))]
  <2>4. proc[handle[m]] \in ProcType
    BY <1>2, ElementOfSeq DEF Inv, Types, Processes
  <2>5. r.out = <<>> /\ r.inp = <<>> /\ r.at \in {"ready", "exited"}
    BY <2>1, <2>3, <2>4 DEF ProcType, Answering
  <2> HIDE DEF r
  <2>6. proc'[handle[m]] = r
    BY <1>2, <1>4, Changed DEF r, Inv, Types
  <2>7. QED
    BY <1>1, <2>2, <2>3, <2>5, <2>6 DEF Quiet
<1>5. QED
  BY <1>2, <1>3, <1>4

LEMMA TurnPlaces ==
  ASSUME NEW m \in Models, NEW ok \in BOOLEAN
  PROVE  \/ AfterAcquire("turn", m, ok) = Rest
         \/ m = "stt" /\ AfterAcquire("turn", m, ok) = <<"save", "stt">>
         \/ m = "llm" /\ AfterAcquire("turn", m, ok) = <<"ask", "llm">>
         \/ /\ m = "tts" /\ reply.text # ""
            /\ AfterAcquire("turn", m, ok) = <<"ask", "tts">>
<1>1. CASE m = "stt"
  BY <1>1 DEF AfterAcquire
<1>2. CASE m = "llm"
  BY <1>2 DEF AfterAcquire
<1>3. CASE m = "tts"
  BY <1>3 DEF AfterAcquire
<1>4. QED
  BY <1>1, <1>2, <1>3 DEF Models

\* acquire() changes neither what was heard nor what is known at a place.
LEMMA AcquireHears ==
  ASSUME Inv, Heard, At, NEW t \in Threads, AcquireStep(t)
  PROVE  Heard' /\ At'
<1>1. PICK m \in Models : AcquireReady(t, m) \/ Start(t, m) \/ StartFails(t, m) \/ Loaded(t, m)
  BY DEF AcquireStep
<1>2. UNCHANGED speech
  BY <1>1 DEF AcquireReady, Start, StartFails, Loaded
<1>3. Heard'
  BY <1>2 DEF speech, Heard, Good
<1>4. PICK from \in {<<"acquire", m>>, <<"load", m>>}, ok \in BOOLEAN :
        Goes(t, from, AfterAcquire(t, m, ok)) \/ Goes(t, from, <<"load", m>>)
  BY <1>1 DEF AcquireReady, Start, StartFails, Loaded
<1>5. PICK to : to \in {AfterAcquire(t, m, ok), <<"load", m>>} /\ Goes(t, from, to)
  BY <1>4
<1>6. to \in Doings \X Models
  BY <1>5, AfterPlaces DEF Doings
<1>7. /\ place[t] = from /\ place'[t] = to
      /\ \A u \in Threads : u # t => place'[u] = place[u]
  BY <1>5, <1>6, Moved DEF Inv, Types
<1>8. CASE t = "turn"
  <2>1. \/ to \in {Rest, <<"load", m>>}
        \/ m = "stt" /\ to = <<"save", "stt">>
        \/ m = "llm" /\ to = <<"ask", "llm">>
        \/ m = "tts" /\ reply.text # "" /\ to = <<"ask", "tts">>
    BY <1>5, <1>8, TurnPlaces
  <2>2. /\ m = "stt" => text = Nothing /\ reply = Nothing
        /\ m = "llm" => Said(text)
    BY <1>7, <1>8 DEF At, Doings
  <2>3. reply.text # "" => Said(reply)
    <3>1. Nothing.text = ""
      BY DEF Nothing, Line
    <3>2. reply = Nothing \/ Said(reply)
      BY DEF Heard
    <3>3. QED
      BY <3>1, <3>2
  <2>4. UNCHANGED <<text, reply>>
    BY <1>2 DEF speech
  <2>5. At'
    <3>1. place'["turn"] = to
      BY <1>7, <1>8
    <3>2. CASE to = Rest
      BY <3>1, <3>2 DEF At, Rest, Doings
    <3>3. CASE to = <<"load", m>>
      BY <2>2, <2>4, <3>1, <3>3 DEF At, Doings
    <3>4. CASE m = "stt" /\ to = <<"save", "stt">>
      BY <2>2, <2>4, <3>1, <3>4 DEF At, Doings
    <3>5. CASE m = "llm" /\ to = <<"ask", "llm">>
      BY <2>2, <2>4, <3>1, <3>5 DEF At, Doings
    <3>6. CASE m = "tts" /\ reply.text # "" /\ to = <<"ask", "tts">>
      <4>1. Said(reply) /\ to = <<"ask", "tts">>
        BY <2>3, <3>6
      <4>2. QED
        BY <2>4, <3>1, <4>1 DEF At, Doings
    <3>7. QED
      BY <2>1, <3>2, <3>3, <3>4, <3>5, <3>6
  <2>6. QED
    BY <1>3, <2>5
<1>9. CASE t # "turn"
  BY <1>2, <1>3, <1>7, <1>9 DEF speech, At, Rest, Threads
<1>10. QED
  BY <1>8, <1>9

LEMMA HeardStep == Inv /\ Heard /\ At /\ Dialogue /\ [Next]_vars => Heard' /\ At'
<1> SUFFICES ASSUME Inv, Heard, At, Dialogue, [Next]_vars PROVE Heard' /\ At'
  OBVIOUS
<1>0. /\ ~Said(Nothing)
      /\ \A from, to : to \in Doings \X Models /\ Goes("turn", from, to)
           => place["turn"] = from /\ place'["turn"] = to
  <2>1. ~Said(Nothing)
    BY DEF Said, Nothing, Line
  <2>2. QED
    BY <2>1, Moved DEF Inv, Types, Threads
<1>1. CASE Begin
  <2>1. /\ saved' = FALSE /\ text' = Nothing /\ reply' = Nothing
        /\ Goes("turn", Rest, <<"acquire", "stt">>)
    BY <1>1 DEF Begin
  <2>2. place'["turn"] = <<"acquire", "stt">>
    BY <1>0, <2>1 DEF Doings, Models
  <2>3. QED
    BY <1>0, <2>1, <2>2 DEF Heard, At, Doings
<1>2. ASSUME NEW t \in Threads, AcquireStep(t) PROVE Heard' /\ At'
  BY <1>2, AcquireHears
<1>3. CASE Save
  <2>1. /\ file' \in {turn, file} /\ saved' = (file' = turn) /\ UNCHANGED <<turn, text, reply>>
        /\ Goes("turn", <<"save", "stt">>, <<"ask", "stt">>)
    BY <1>3 DEF Save
  <2>2. place["turn"] = <<"save", "stt">> /\ place'["turn"] = <<"ask", "stt">>
    BY <1>0, <2>1 DEF Doings, Models
  <2>3. text = Nothing /\ reply = Nothing
    BY <2>2 DEF At, Rest, Doings
  <2>4. Heard'
    BY <1>0, <2>1, <2>3 DEF Heard
  <2>5. At'
    BY <2>1, <2>2, <2>3 DEF At, Doings
  <2>6. QED
    BY <2>4, <2>5
<1>4. ASSUME NEW m \in Models, Ask(m) PROVE Heard' /\ At'
  <2>1. UNCHANGED speech /\ Goes("turn", <<"ask", m>>, <<"read", m>>)
    BY <1>4 DEF Ask
  <2>2. place["turn"] = <<"ask", m>> /\ place'["turn"] = <<"read", m>>
    BY <1>0, <2>1 DEF Doings
  <2>3. Heard'
    BY <2>1 DEF speech, Heard, Good
  <2>4. At'
    BY <2>1, <2>2 DEF speech, At, Rest, Doings
  <2>5. QED
    BY <2>3, <2>4
<1>5. CASE HearText
  <2>1. /\ place["turn"] = <<"read", "stt">> /\ ReadLine("stt")
        /\ text' = IF NextLine("stt").tag = "TXT" THEN NextLine("stt") ELSE Nothing
        /\ Goes("turn", <<"read", "stt">>, IF text'.text = "words" THEN <<"acquire", "llm">> ELSE Rest)
        /\ UNCHANGED <<turn, file, saved, reply>>
    BY <1>5 DEF HearText
  <2>2. Said(NextLine("stt")) => Good(NextLine("stt"))
    BY <2>1, NextGood DEF Models, Said
  <2>3. text' = Nothing \/ (Said(text') /\ Good(text'))
    BY <2>1, <2>2 DEF Said
  <2>4. reply = Nothing
    BY <2>1 DEF At, Rest, Doings
  <2>5. Heard'
    BY <1>0, <2>1, <2>3, <2>4 DEF Heard, Good
  <2>6. place'["turn"] = IF text'.text = "words" THEN <<"acquire", "llm">> ELSE Rest
    BY <1>0, <2>1, RestTypes DEF Doings, Models
  <2>7. At'
    <3>1. Nothing.text # "words"
      BY DEF Nothing, Line
    <3>2. CASE text'.text = "words"
      <4>1. Said(text') /\ place'["turn"] = <<"acquire", "llm">>
        BY <2>3, <2>6, <3>1, <3>2
      <4>2. QED
        BY <4>1 DEF At, Doings
    <3>3. CASE text'.text # "words"
      <4>1. place'["turn"] = Rest
        BY <2>6, <3>3
      <4>2. QED
        BY <4>1 DEF At, Rest, Doings
    <3>4. QED
      BY <3>2, <3>3
  <2>8. QED
    BY <2>5, <2>7
<1>6. CASE HearReply
  <2>1. /\ place["turn"] = <<"read", "llm">> /\ ReadLine("llm")
        /\ reply' = IF NextLine("llm").tag = "RPL" THEN NextLine("llm") ELSE Nothing
        /\ Goes("turn", <<"read", "llm">>, <<"acquire", "tts">>)
        /\ UNCHANGED <<turn, file, saved, text>>
    BY <1>6 DEF HearReply
  <2>2. Said(NextLine("llm")) => Good(NextLine("llm"))
    BY <2>1, NextGood DEF Models, Said
  <2>3. reply' = Nothing \/ (Said(reply') /\ Good(reply'))
    BY <2>1, <2>2 DEF Said
  <2>4. Heard'
    BY <1>0, <2>1, <2>3 DEF Heard, Good
  <2>5. place'["turn"] = <<"acquire", "tts">>
    BY <1>0, <2>1 DEF Doings, Models
  <2>6. At'
    BY <2>5 DEF At, Doings
  <2>7. QED
    BY <2>4, <2>6
<1>7. CASE Spoken
  <2>1. UNCHANGED speech /\ Goes("turn", <<"read", "tts">>, Rest)
    BY <1>7 DEF Spoken
  <2>2. place'["turn"] = Rest
    BY <1>0, <2>1, RestTypes
  <2>3. Heard'
    BY <2>1 DEF speech, Heard, Good
  <2>4. At'
    BY <2>2 DEF At, Rest, Doings
  <2>5. QED
    BY <2>3, <2>4
<1>8. ASSUME NEW p \in DOMAIN proc, WorkerProceeds(p) \/ WorkerDies(p) PROVE Heard' /\ At'
  <2>1. p \in 1..Len(proc)
    BY <1>8, LenProperties DEF Inv, Types, Processes
  <2>2. UNCHANGED <<place, speech>>
    BY <1>8, <2>1, WorkerTurns DEF Inv, Types
  <2>3. QED
    BY <2>2 DEF speech, Heard, At, Good, Rest
<1>9. CASE UNCHANGED vars
  BY <1>9 DEF vars, speech, Heard, At, Good, Rest
<1>10. QED
  BY <1>1, <1>2, <1>3, <1>4, <1>5, <1>6, <1>7, <1>8, <1>9 DEF Next, TurnProceeds, Threads

(***************************************************************************)
(* The dialogue.                                                           *)
(***************************************************************************)
\* Where a step leaves the workers alone, or leaves one quiet.
LEMMA Steady ==
  ASSUME Dialogue,
         UNCHANGED <<turn, saved>> \/ \A m \in Models : place["turn"] # <<"read", m>>,
         ready' \subseteq Models,
         \A k \in ready' :
           \/ Quiet(proc'[handle'[k]])
           \/ /\ k \in ready /\ proc'[handle'[k]] = proc[handle[k]]
              /\ place'["turn"] = <<"read", k>> <=> place["turn"] = <<"read", k>>
  PROVE  Dialogue'
<1> SUFFICES ASSUME NEW k \in ready', ~Quiet(proc'[handle'[k]])
             PROVE  place'["turn"] = <<"read", k>> /\ Owes(k, proc[handle[k]])'
  BY DEF Dialogue, Owes, Quiet
<1>1. /\ k \in ready /\ proc'[handle'[k]] = proc[handle[k]]
      /\ place'["turn"] = <<"read", k>> <=> place["turn"] = <<"read", k>>
  OBVIOUS
<1>2. place["turn"] = <<"read", k>> /\ Owes(k, proc[handle[k]])
  BY <1>1 DEF Dialogue
<1>3. UNCHANGED <<turn, saved>>
  BY <1>2
<1>4. QED
  BY <1>1, <1>2, <1>3 DEF Owes, Quiet, Asked, Busy, Answering, Good

\* The workers of two models are two processes.
LEMMA Apart ==
  ASSUME Inv
  PROVE  /\ \A k \in Models : handle[k] # 0 => handle[k] \in 1..Len(proc)
         /\ \A k, m \in Models : handle[k] # 0 /\ handle[m] # 0 /\ k # m => handle[k] # handle[m]
         /\ ready \subseteq Models /\ \A k \in ready : handle[k] # 0
<1>1. \A k \in Models : handle[k] # 0 => handle[k] \in 1..Len(proc)
  BY LenProperties DEF Inv, Types, Processes
<1>2. QED
  BY <1>1 DEF Inv, Types, Threading, Care, Handles

\* The first line of a worker is all it had to say, when it is READY.
LEMMA LoadedQuiet ==
  ASSUME Inv, NEW t \in Threads, NEW m \in Models, Loaded(t, m), m \in ready'
  PROVE  Quiet(proc'[handle[m]])
<1> DEFINE h == handle[m]
           r == [proc[h] EXCEPT !.out = Tail(Out(m))]
<1>1. /\ place[t] = <<"load", m>> /\ ReadLine(m)
      /\ ready' = IF NextLine(m).tag = "READY" THEN ready \cup {m} ELSE ready
  BY DEF Loaded
<1>2. m \notin ready /\ h # 0 /\ StartUp(proc[h])
  BY <1>1 DEF Inv, Care, Fresh
<1>3. NextLine(m).tag = "READY"
  BY <1>1, <1>2
<1>4. Nothing.tag # "READY"
  BY DEF Nothing, Line
<1>5. h \in 1..Len(proc) /\ Out(m) # <<>> /\ proc' = [proc EXCEPT ![h] = r]
  BY <1>1, <1>2, <1>3, <1>4, Read DEF Inv, Types
<1>6. /\ proc[h].at \in {"ready", "exited"} /\ proc[h].inp = <<>>
      /\ proc[h].out \in {<<Word("READY")>>, <<Word("ERR")>>}
  BY <1>2, <1>5 DEF StartUp, Out
<1>7. Tail(Out(m)) = <<>>
  <2>1. \A l : Tail(<<l>>) = <<>>
    OBVIOUS
  <2>2. QED
    BY <1>6, <2>1 DEF Out
<1>8. proc[h] \in ProcType
  BY <1>5, ElementOfSeq DEF Inv, Types, Processes
<1>9. r.at = proc[h].at /\ r.inp = proc[h].inp /\ r.out = <<>>
  BY <1>7, <1>8 DEF ProcType
<1> HIDE DEF r
<1>10. proc'[h] = r
  BY <1>5, Changed DEF Inv, Types
<1>11. QED
  BY <1>6, <1>9, <1>10 DEF Quiet

LEMMA AcquireDialogue ==
  ASSUME Inv, Dialogue, NEW t \in Threads, AcquireStep(t)
  PROVE  Dialogue'
<1>1. PICK m \in Models : AcquireReady(t, m) \/ Start(t, m) \/ StartFails(t, m) \/ Loaded(t, m)
  BY DEF AcquireStep
<1>2. UNCHANGED <<turn, saved>>
  BY <1>1 DEF AcquireReady, Start, StartFails, Loaded, speech
<1>3. \A k : place'["turn"] = <<"read", k>> <=> place["turn"] = <<"read", k>>
  <2>1. PICK from \in {<<"acquire", m>>, <<"load", m>>}, ok \in BOOLEAN :
          Goes(t, from, AfterAcquire(t, m, ok)) \/ Goes(t, from, <<"load", m>>)
    BY <1>1 DEF AcquireReady, Start, StartFails, Loaded
  <2>2. PICK to : to \in {AfterAcquire(t, m, ok), <<"load", m>>} /\ Goes(t, from, to)
    BY <2>1
  <2>3. to \in Doings \X Models
    BY <2>2, AfterPlaces DEF Doings
  <2>4. /\ place[t] = from /\ place'[t] = to
        /\ \A u \in Threads : u # t => place'[u] = place[u]
    BY <2>2, <2>3, Moved DEF Inv, Types
  <2>5. \A k : from # <<"read", k>> /\ to # <<"read", k>>
    <3>1. from[1] # "read" /\ to[1] # "read"
      BY <2>2, AfterPlaces
    <3>2. QED
      BY <3>1
  <2>6. QED
    BY <2>4, <2>5 DEF Threads
<1>4. ready' \subseteq Models /\ \A k \in ready' : k \in ready \/ k = m
  <2>1. ready' = ready \/ ready' = ready \cup {m}
    BY <1>1 DEF AcquireReady, Start, StartFails, Loaded, manager
  <2>2. QED
    BY <2>1, Apart
<1>5. ASSUME NEW k \in ready', k = m => k \in ready,
             \/ AcquireReady(t, m) \/ Start(t, m) \/ StartFails(t, m) \/ Loaded(t, m)
      PROVE  k \in ready /\ proc'[handle'[k]] = proc[handle[k]]
  <2>1. k \in ready /\ k \in Models /\ handle[k] \in 1..Len(proc)
    BY <1>4, <1>5, Apart
  <2>2. handle \in [Models -> 0..Len(proc)]
    BY DEF Inv, Types, Processes
  <2>3. CASE AcquireReady(t, m)
    BY <2>1, <2>3 DEF AcquireReady, manager
  <2>4. CASE Start(t, m)
    <3>1. /\ k # m /\ proc' = Append(proc, Process(m))
          /\ handle' = [handle EXCEPT ![m] = Len(proc')]
      BY <2>1, <2>4 DEF Start
    <3>2. handle'[k] = handle[k]
      BY <2>1, <2>2, <3>1
    <3>3. proc \in Seq(ProcType \cup {Process(m)})
      BY SeqMonotonic DEF Inv, Types, Processes
    <3>4. proc'[handle[k]] = proc[handle[k]]
      BY <2>1, <3>1, <3>3, AppendProperties
    <3>5. QED
      BY <2>1, <3>2, <3>4
  <2>5. CASE StartFails(t, m)
    <3>1. k # m /\ proc' = proc /\ \E p : handle' = [handle EXCEPT ![m] = p]
      BY <2>1, <2>5 DEF StartFails
    <3>2. handle'[k] = handle[k]
      BY <2>1, <2>2, <3>1
    <3>3. QED
      BY <2>1, <3>1, <3>2
  <2>6. CASE Loaded(t, m)
    <3>1. handle' = handle /\ ReadLine(m) /\ place[t] = <<"load", m>>
      BY <2>6 DEF Loaded
    <3>2. m \notin ready /\ handle[m] # 0
      BY <3>1 DEF Inv, Care, Fresh
    <3>3. handle[k] # handle[m] /\ handle[m] \in 1..Len(proc)
      BY <2>1, <3>2, Apart
    <3>4. proc' = proc \/ \E r : proc' = [proc EXCEPT ![handle[m]] = r]
      BY <3>1, <3>2, Read DEF Inv, Types
    <3>5. proc'[handle[k]] = proc[handle[k]]
      BY <2>1, <3>3, <3>4, Changed DEF Inv, Types
    <3>6. QED
      BY <2>1, <3>1, <3>5
  <2>7. QED
    BY <1>5, <2>3, <2>4, <2>5, <2>6
<1>6. ASSUME NEW k \in ready', k = m, k \notin ready PROVE Quiet(proc'[handle'[k]])
  <2>1. Loaded(t, m)
    BY <1>1, <1>6 DEF AcquireReady, Start, StartFails, manager
  <2>2. handle' = handle
    BY <2>1 DEF Loaded
  <2>3. QED
    BY <1>6, <2>1, <2>2, LoadedQuiet
<1>7. \A k \in ready' :
        \/ Quiet(proc'[handle'[k]])
        \/ k \in ready /\ proc'[handle'[k]] = proc[handle[k]]
  BY <1>1, <1>5, <1>6
<1>8. QED
  BY <1>2, <1>3, <1>4, <1>7, Steady

LEMMA AskDialogue ==
  ASSUME Inv, Heard, At, Dialogue, NEW m \in Models, Ask(m)
  PROVE  Dialogue'
<1> DEFINE h == handle[m]
<1>1. /\ Goes("turn", <<"ask", m>>, <<"read", m>>)
      /\ UNCHANGED <<manager, speech>>
      /\ proc' = IF Alive(h) THEN [proc EXCEPT ![h].inp = Append(@, Request(m))] ELSE proc
  BY DEF Ask
<1>2. place["turn"] = <<"ask", m>> /\ place'["turn"] = <<"read", m>>
  BY <1>1, Moved DEF Inv, Types, Threads, Doings
<1>3. m \in ready /\ h \in 1..Len(proc) /\ \A k \in ready : k # m => handle[k] # h
  BY <1>2, Apart DEF Inv, Control, Engaged
<1>4. \A k \in ready : Quiet(proc[handle[k]]) /\ handle[k] \in 1..Len(proc)
  BY <1>2, Apart DEF Dialogue
<1>5. /\ Request(m) \in LineType /\ Request(m).asked = turn
      /\ m # "stt" => Good(Request(m))
  <2>1. Request(m).asked = turn
    BY DEF Request, Line, Models
  <2>2. m = "llm" => Good(text) /\ Request(m).about = text.about
    <3>1. m = "llm" => Said(text)
      BY <1>2 DEF At, Doings
    <3>2. m = "llm" => Request(m).about = text.about
      BY DEF Request, Line
    <3>3. QED
      BY <3>1, <3>2 DEF Heard
  <2>3. m = "tts" => Good(reply) /\ Request(m).about = reply.about
    <3>1. m = "tts" => Said(reply)
      BY <1>2 DEF At
    <3>2. m = "tts" => Request(m).about = reply.about
      BY DEF Request, Line
    <3>3. QED
      BY <3>1, <3>2 DEF Heard
  <2>4. QED
    BY <2>1, <2>2, <2>3, RequestType DEF Good, Models, Inv, Types
<1>6. Owes(m, proc'[h])
  <2>1. CASE ~Alive(h)
    BY <1>1, <1>3, <1>4, <2>1 DEF Owes
  <2>2. CASE Alive(h)
    <3> DEFINE r == [proc[h] EXCEPT !.inp = Append(proc[h].inp, Request(m))]
    <3>1. proc[h] \in ProcType
      BY <1>3, ElementOfSeq DEF Inv, Types, Processes
    <3>2. r.at = proc[h].at /\ r.out = proc[h].out /\ r.inp = Append(proc[h].inp, Request(m))
      BY <3>1 DEF ProcType
    <3> HIDE DEF r
    <3>3. proc'[h] = r
      BY <1>1, <1>3, <2>2, Changed DEF r, Inv, Types
    <3>4. proc[h].at = "ready" /\ proc[h].out = <<>> /\ proc[h].inp = <<>>
      BY <1>3, <1>4, <2>2 DEF Quiet, Alive
    <3>5. r.inp = <<Request(m)>>
      BY <3>2, <3>4
    <3>6. Asked(m, r)
      BY <1>5, <3>2, <3>4, <3>5 DEF Asked
    <3>7. QED
      BY <3>3, <3>6 DEF Owes
  <2>3. QED
    BY <2>1, <2>2
<1>7. \A k \in ready : k # m => proc'[handle[k]] = proc[handle[k]]
  <2>1. CASE ~Alive(h)
    BY <1>1, <2>1
  <2>2. CASE Alive(h)
    <3>1. proc' = [proc EXCEPT ![h] = [proc[h] EXCEPT !.inp = Append(proc[h].inp, Request(m))]]
      BY <1>1, <2>2
    <3>2. QED
      BY <1>3, <1>4, <3>1, Changed DEF Inv, Types
  <2>3. QED
    BY <2>1, <2>2
<1>8. ready' = ready /\ handle' = handle /\ turn' = turn /\ saved' = saved
  BY <1>1 DEF manager, speech
<1>9. Owes(m, proc[handle[m]])'
  BY <1>6, <1>8 DEF Owes, Quiet, Asked, Busy, Answering, Good
<1>10. ASSUME NEW k \in ready', k # m PROVE Quiet(proc'[handle'[k]])
  BY <1>4, <1>7, <1>8, <1>10
<1>11. QED
  BY <1>2, <1>9, <1>10 DEF Dialogue, Owes, Quiet

\* The turn reads a line, or sees that the worker is gone.
LEMMA HearDialogue ==
  ASSUME Inv, Dialogue, NEW m \in Models, place["turn"] = <<"read", m>>, ReadLine(m),
         UNCHANGED <<manager, turn, saved>>,
         \A k \in Models : place'["turn"] # <<"read", k>>
  PROVE  Dialogue'
<1>1. m \in ready /\ Quiet(proc'[handle[m]])
  BY NextGood
<1>2. \A k \in ready : k # m => Quiet(proc[handle[k]])
  BY DEF Dialogue
<1>3. \A k \in ready : k # m => proc'[handle[k]] = proc[handle[k]]
  <2>1. proc' = proc \/ \E r : proc' = [proc EXCEPT ![handle[m]] = r]
    BY <1>1, Apart, Read DEF Inv, Types
  <2>2. \A k \in ready : k # m => handle[k] \in 1..Len(proc) /\ handle[k] # handle[m]
    BY <1>1, Apart
  <2>3. handle[m] \in 1..Len(proc)
    BY <1>1, Apart
  <2>4. QED
    BY <2>1, <2>2, <2>3, Changed DEF Inv, Types
<1>4. \A k \in ready' : Quiet(proc'[handle'[k]])
  BY <1>1, <1>2, <1>3 DEF manager
<1>5. QED
  BY <1>4, Apart, Steady DEF manager

LEMMA DialogueStep == Inv /\ Heard /\ At /\ Dialogue /\ [Next]_vars => Dialogue'
<1> SUFFICES ASSUME Inv, Heard, At, Dialogue, [Next]_vars PROVE Dialogue'
  OBVIOUS
<1>0. /\ \A from, to : to \in Doings \X Models /\ Goes("turn", from, to)
           => place["turn"] = from /\ place'["turn"] = to
      /\ \A k : Rest # <<"read", k>>
      /\ \A k, n : <<"acquire", n>> # <<"read", k>>
  BY Moved DEF Inv, Types, Threads, Rest
<1>1. CASE Begin
  <2>1. /\ place["turn"] = Rest /\ place'["turn"] = <<"acquire", "stt">>
        /\ proc' = proc /\ handle' = handle /\ ready' = ready
    BY <1>0, <1>1 DEF Begin, manager, Doings, Models
  <2>2. QED
    BY <1>0, <2>1, Apart, Steady
<1>2. ASSUME NEW t \in Threads, AcquireStep(t) PROVE Dialogue'
  BY <1>2, AcquireDialogue
<1>3. CASE Save
  <2>1. /\ place["turn"] = <<"save", "stt">> /\ place'["turn"] = <<"ask", "stt">>
        /\ proc' = proc /\ handle' = handle /\ ready' = ready
    BY <1>0, <1>3 DEF Save, manager, Doings, Models
  <2>2. \A k : <<"save", "stt">> # <<"read", k>> /\ <<"ask", "stt">> # <<"read", k>>
    OBVIOUS
  <2>3. QED
    BY <2>1, <2>2, Apart, Steady
<1>4. ASSUME NEW m \in Models, Ask(m) PROVE Dialogue'
  BY <1>4, AskDialogue
<1>5. CASE HearText
  <2>1. /\ place["turn"] = <<"read", "stt">> /\ ReadLine("stt")
        /\ UNCHANGED <<manager, turn, saved>>
        /\ \E to \in {Rest, <<"acquire", "llm">>} : Goes("turn", <<"read", "stt">>, to)
    BY <1>5 DEF HearText
  <2>2. place'["turn"] \in {Rest, <<"acquire", "llm">>}
    BY <1>0, <2>1, RestTypes DEF Doings, Models
  <2>3. QED
    BY <1>0, <2>1, <2>2, HearDialogue DEF Models
<1>6. CASE HearReply
  <2>1. /\ place["turn"] = <<"read", "llm">> /\ ReadLine("llm")
        /\ UNCHANGED <<manager, turn, saved>>
        /\ Goes("turn", <<"read", "llm">>, <<"acquire", "tts">>)
    BY <1>6 DEF HearReply
  <2>2. place'["turn"] = <<"acquire", "tts">>
    BY <1>0, <2>1 DEF Doings, Models
  <2>3. QED
    BY <1>0, <2>1, <2>2, HearDialogue DEF Models
<1>7. CASE Spoken
  <2>1. /\ Goes("turn", <<"read", "tts">>, Rest) /\ ReadLine("tts")
        /\ UNCHANGED <<manager, turn, saved>>
    BY <1>7 DEF Spoken, speech
  <2>2. place["turn"] = <<"read", "tts">> /\ place'["turn"] = Rest
    BY <1>0, <2>1, RestTypes
  <2>3. QED
    BY <1>0, <2>1, <2>2, HearDialogue DEF Models
<1>8. ASSUME NEW p \in DOMAIN proc, WorkerProceeds(p) \/ WorkerDies(p) PROVE Dialogue'
  <2>1. p \in 1..Len(proc)
    BY <1>8, LenProperties DEF Inv, Types, Processes
  <2>2. UNCHANGED <<place, manager, speech>> /\ \E r : proc' = [proc EXCEPT ![p] = r]
    BY <1>8, <2>1, WorkerTurns DEF Inv, Types, Turned
  <2>3. /\ Quiet(proc[p]) => Quiet(proc'[p])
        /\ Owes(proc[p].model, proc[p]) => Owes(proc[p].model, proc[p])'
    BY <1>8, <2>1, WorkerOwes DEF Inv, Types
  <2>4. \A q \in 1..Len(proc) : q # p => proc'[q] = proc[q]
    BY <2>1, <2>2, Changed DEF Inv, Types
  <2>5. UNCHANGED <<place, ready, handle, turn, saved>>
    BY <2>2 DEF manager, speech
  <2> SUFFICES ASSUME NEW k \in ready
               PROVE  IF place["turn"] = <<"read", k>> THEN Owes(k, proc[handle[k]])'
                      ELSE Quiet(proc'[handle[k]])
    BY <2>5 DEF Dialogue, Quiet
  <2>6. /\ handle[k] \in 1..Len(proc) /\ proc[handle[k]].model = k
        /\ IF place["turn"] = <<"read", k>> THEN Owes(k, proc[handle[k]]) ELSE Quiet(proc[handle[k]])
    BY Apart DEF Dialogue, Inv, Care, Handles
  <2>7. CASE handle[k] = p
    <3>1. Owes(k, proc[p])' => Owes(k, proc[handle[k]])'
      BY <2>5, <2>7
    <3>2. Quiet(proc[p]) => Quiet(proc'[p])
      BY <2>3
    <3>3. Owes(k, proc[p]) => Owes(k, proc[p])'
      <4>1. proc[p].model = k
        BY <2>6, <2>7
      <4>2. proc'[p].model = k
        BY <1>8, <2>1, <4>1, WorkerTurns, Changed DEF Inv, Types, Turned
      <4>3. QED
        BY <2>3, <4>1, <4>2
    <3>4. QED
      BY <2>6, <2>7, <3>1, <3>2, <3>3
  <2>8. CASE handle[k] # p
    <3>1. proc'[handle[k]] = proc[handle[k]]
      BY <2>4, <2>6, <2>8
    <3>2. Owes(k, proc[handle[k]]) => Owes(k, proc[handle[k]])'
      BY <2>5, <3>1 DEF Owes, Quiet, Asked, Busy, Answering, Good
    <3>3. QED
      BY <2>6, <3>1, <3>2
  <2>9. QED
    BY <2>7, <2>8
<1>9. CASE UNCHANGED vars
  BY <1>9 DEF vars, manager, speech, Dialogue, Owes, Quiet, Asked, Busy, Answering, Good
<1>10. QED
  BY <1>1, <1>2, <1>3, <1>4, <1>5, <1>6, <1>7, <1>8, <1>9 DEF Next, TurnProceeds, Threads

(***************************************************************************)
(* Theorems.                                                               *)
(***************************************************************************)
LEMMA Inductive == Spec => []Inv
BY InitInv, NextInv, PTL DEF Spec

\* Every variable keeps its type, with any number of turns and processes.
THEOREM TypeCorrect == Spec => []TypeOK
<1>1. Inv => TypeOK
  BY DEF Inv, Types, Threading, Processes, Speech, Care, Handles, TypeOK, Doings, ProcType
<1>2. QED
  BY <1>1, Inductive, PTL

\* A worker process that runs is one its Subprocess refers to, however often
\* loads fail and workers die.
THEOREM AlwaysNoOrphans == Spec => []NoOrphans
<1>1. Inv => NoOrphans
  <2> SUFFICES ASSUME Inv, NEW p \in DOMAIN proc, Alive(p) PROVE handle[proc[p].model] = p
    BY DEF NoOrphans
  <2>1. p \in 1..Len(proc)
    BY LenProperties DEF Inv, Types, Processes
  <2>2. QED
    BY <2>1 DEF Inv, Care, Known, Alive
<1>2. QED
  BY <1>1, Inductive, PTL

LEMMA HearsInductive == Spec => [](Inv /\ Heard /\ At /\ Dialogue)
<1>1. Init => Heard /\ At /\ Dialogue
  <2> SUFFICES ASSUME Init PROVE Heard /\ At /\ Dialogue
    OBVIOUS
  <2>1. ~Said(Nothing)
    BY DEF Said, Nothing, Line
  <2>2. QED
    BY <2>1 DEF Init, Heard, At, Dialogue, Rest
<1>2. QED
  BY <1>1, InitInv, NextInv, HeardStep, DialogueStep, PTL DEF Spec

\* Whatever the turn reads was asked for in this turn, and at rest no worker
\* that runs owes it a line.
THEOREM AlwaysInStep == Spec => []InStep
<1>1. Inv /\ Heard /\ At /\ Dialogue => InStep
  <2> SUFFICES ASSUME Inv, Heard, At, Dialogue PROVE InStep
    OBVIOUS
  <2>1. \A line \in {text, reply} : line.tag # "" => line.asked = turn /\ (saved => line.about = turn)
    BY DEF Heard, Good, Said
  <2>2. ASSUME place["turn"] = Rest, NEW m \in ready, Alive(handle[m])
        PROVE  proc[handle[m]].inp = <<>> /\ proc[handle[m]].out = <<>> /\ proc[handle[m]].at = "ready"
    <3>1. Quiet(proc[handle[m]])
      BY <2>2 DEF Dialogue, Rest
    <3>2. QED
      BY <2>2, <3>1 DEF Quiet, Alive
  <2>3. QED
    BY <2>1, <2>2 DEF InStep
<1>2. QED
  BY <1>1, HearsInductive, PTL
=============================================================================
