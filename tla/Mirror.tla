------------------------------- MODULE Mirror -------------------------------
(***************************************************************************)
(* How a caption gets to a reader: the orchestrator sends lines over its  *)
(* socket, in what pieces the kernel likes; the reader thread of           *)
(* ptt_bridge.py puts them together again and keeps the latest of each     *)
(* kind; a page asks for them twice a second. Connections break with the  *)
(* orchestrator, and the bridge connects again. What a connection is sent  *)
(* is what IpcServer shows: the snapshot, then every later line.           *)
(*                                                                         *)
(* A caption is known by its number. A line is two pieces.                 *)
(***************************************************************************)
EXTENDS Naturals, Sequences, FiniteSets, SequencesExt

CONSTANTS Kinds,        \* "state", "reply", ...
          Replayed,     \* those the snapshot keeps
          Greeting,     \* the one broadcast when the orchestrator has started
          MaxLines,     \* bound: how many lines of each kind
          MaxLives      \* bound: starts of the orchestrator

ASSUME KindsAssumption ==
  /\ Replayed \subseteq Kinds
  /\ Greeting \in Replayed
  /\ IsFiniteSet(Kinds)
ASSUME LinesAssumption == MaxLines \in [Kinds -> Nat] /\ MaxLives \in Nat

VARIABLES up,           \* the orchestrator runs
          life,         \* how often it has been started
          said,         \* the number of the latest caption of each kind
          garbled,      \* captions that make no JSON: see esc
          snapshot,     \* snapshot_: the numbers of this life, 0 for none
          feed,         \* pieces sent and not received
          cut,          \* the other end of the connection is closed
          reader,       \* where the reader thread is
          buf,          \* pieces of a line that is not complete
          state,        \* state: the latest of each kind
          reported,     \* state["connected"]
          answers,      \* answers to the page on their way
          page          \* what the page shows

orchestrator == <<up, life, said, garbled, snapshot>>
socket == <<feed, cut>>
mirror == <<reader, buf, state, reported>>
browser == <<answers, page>>
mirrorVars == <<orchestrator, socket, mirror, browser>>

None == [k \in Kinds |-> 0]
Caption(k, n) == [kind |-> k, number |-> n]

MirrorInit ==
  /\ up = FALSE /\ life = 0 /\ said = None /\ garbled = {} /\ snapshot = None
  /\ feed = <<>> /\ cut = FALSE
  /\ reader = "connect" /\ buf = <<>> /\ state = None /\ reported = FALSE
  /\ answers = <<>> /\ page = [state |-> None, connected |-> FALSE]

(***************************************************************************)
(* The orchestrator.                                                       *)
(***************************************************************************)
Pieces(c) == <<[c |-> c, last |-> FALSE], [c |-> c, last |-> TRUE]>>

\* A caption of kind k to the client, if there is one, and to the snapshot.
Say(k, kept) ==
  /\ said[k] < MaxLines[k]
  /\ said' = [said EXCEPT ![k] = @ + 1]
  /\ snapshot' = IF k \in Replayed THEN [kept EXCEPT ![k] = said'[k]] ELSE kept
  /\ feed' = IF reader = "recv" /\ ~cut THEN feed \o Pieces(Caption(k, said'[k])) ELSE feed

Start ==
  /\ ~up /\ life < MaxLives
  /\ up' = TRUE
  /\ life' = life + 1
  /\ Say(Greeting, None)
  /\ UNCHANGED <<garbled, cut, mirror, browser>>

Broadcast(k) ==
  /\ up
  /\ Say(k, snapshot)
  /\ garbled' \in {garbled, garbled \cup {Caption(k, said'[k])}}
  /\ UNCHANGED <<up, life, cut, mirror, browser>>

\* What was sent stays readable, or is lost when the connection is reset.
Stop ==
  /\ up
  /\ up' = FALSE
  /\ cut' = (reader = "recv")
  /\ feed' \in {feed, <<>>}
  /\ UNCHANGED <<life, said, garbled, snapshot, mirror, browser>>

(***************************************************************************)
(* ptt_bridge.py: reader.                                                  *)
(***************************************************************************)
\* The snapshot is a map ordered by kind.
Replay ==
  LET kept == SetToSeq({k \in Replayed : snapshot[k] > 0})
  IN FlattenSeq([i \in DOMAIN kept |-> Pieces(Caption(kept[i], snapshot[kept[i]]))])

Connect ==
  /\ reader = "connect" /\ up
  /\ reader' = "recv"
  /\ reported' = TRUE
  /\ buf' = <<>>
  /\ feed' = Replay /\ cut' = FALSE
  /\ UNCHANGED <<orchestrator, state, browser>>

\* The end of the connection and one that is refused; then it sleeps 2 s.
LoseSocket ==
  /\ \/ reader = "connect" /\ ~up
     \/ reader = "recv" /\ feed = <<>> /\ cut
  /\ reader' = "sleep"
  /\ reported' = FALSE
  /\ UNCHANGED <<orchestrator, socket, buf, state, browser>>

Sleep ==
  /\ reader = "sleep"
  /\ reader' = "connect"
  /\ UNCHANGED <<orchestrator, socket, buf, state, reported, browser>>

\* The pieces up to a newline make a caption when they are one line's.
Whole(line) == Len(line) = 2 /\ line[1].c = line[2].c
Learn(s, c) == IF c \in garbled THEN s ELSE [s EXCEPT ![c.kind] = c.number]

\* Mutant: a line that is no JSON ends the loop.
RecvStrict ==
  /\ reader = "recv" /\ feed # <<>>
  /\ LET line == Append(buf, Head(feed))
         bad == Head(feed).last /\ Head(feed).c \in garbled
     IN /\ buf' = IF Head(feed).last THEN <<>> ELSE line
        /\ state' = IF Head(feed).last /\ Whole(line) THEN Learn(state, Head(feed).c) ELSE state
        /\ reader' = IF bad THEN "ended" ELSE "recv"
        /\ feed' = Tail(feed)
  /\ UNCHANGED <<orchestrator, cut, reported, browser>>

\* A piece more; recv may return several, which is several of these steps.
\* With a newline the line is parsed, and one that is no JSON passed over.
Recv ==
  /\ reader = "recv" /\ feed # <<>>
  /\ LET line == Append(buf, Head(feed))
     IN /\ buf' = IF Head(feed).last THEN <<>> ELSE line
        /\ state' = IF Head(feed).last /\ Whole(line) THEN Learn(state, Head(feed).c) ELSE state
  /\ feed' = Tail(feed)
  /\ UNCHANGED <<orchestrator, cut, reader, reported, browser>>

ReaderStep == Connect \/ LoseSocket \/ Sleep \/ Recv

(***************************************************************************)
(* The page: poll(), and status() at the bridge.                           *)
(***************************************************************************)
\* Mutant: polls at fixed times, whether the last was answered or not.
PollAnyway ==
  /\ Len(answers) < 2
  /\ answers' = Append(answers, [state |-> state, connected |-> reported])
  /\ UNCHANGED <<orchestrator, socket, mirror, page>>

\* The next poll is made after the answer to the last.
Poll ==
  /\ answers = <<>>
  /\ answers' = <<[state |-> state, connected |-> reported]>>
  /\ UNCHANGED <<orchestrator, socket, mirror, page>>

\* Answers of different requests come in any order.
Show ==
  /\ \E i \in DOMAIN answers :
       /\ page' = answers[i]
       /\ answers' = RemoveAt(answers, i)
  /\ UNCHANGED <<orchestrator, socket, mirror>>

\* A request that fails is not repeated before the next poll.
Lose ==
  /\ answers # <<>>
  /\ answers' = Tail(answers)
  /\ UNCHANGED <<orchestrator, socket, mirror, page>>

PageStep == Poll \/ Show

MirrorNext ==
  \/ Start \/ Stop \/ (\E k \in Kinds : Broadcast(k))
  \/ ReaderStep
  \/ PageStep \/ Lose

\* Threads are scheduled, and not every request fails.
MirrorSpec ==
  /\ MirrorInit
  /\ [][MirrorNext]_mirrorVars
  /\ WF_mirrorVars(ReaderStep)
  /\ WF_mirrorVars(Poll)
  /\ SF_mirrorVars(Show)

(***************************************************************************)
(* Properties.                                                             *)
(***************************************************************************)
\* The page shows captions that were current once and never goes back to an
\* older one: not through a line cut in two by a crash, a replay after a
\* reconnection, or answers on their way.
Reading == INSTANCE Caption WITH current <- said, seen <- page.state
NeverGoesBack == Reading!Spec

\* The page gets to what is current, and to say that the orchestrator is
\* offline. A caption the snapshot keeps is seen, that or a later one,
\* unless the orchestrator stops; one that makes no JSON is not.
CatchesUp ==
  /\ \A k \in Replayed : \A n \in 1..MaxLines[k] :
       (up /\ snapshot[k] = n)
         ~> \/ page.state[k] >= n
            \/ ~up
            \/ Caption(k, snapshot[k]) \in garbled
  /\ ~up ~> (up \/ ~page.connected)
=============================================================================
