--------------------------- MODULE WorkerService ---------------------------
(***************************************************************************)
(* What a speech worker promises the orchestrator, without the engine,    *)
(* the player and the sound card: first it says READY, then it answers    *)
(* every request it is sent, each once and in the order they came, until   *)
(* it has left, which the orchestrator sees as the end of a file. Lines   *)
(* that are no requests are passed over.                                   *)
(***************************************************************************)
EXTENDS Naturals, Sequences

CONSTANTS Lines,        \* what the orchestrator may write
          Requests      \* those that ask for an answer

VARIABLES phase,        \* "loading", "ready", "gone"
          written,      \* the lines written so far
          answered      \* the last one that was answered

serviceVars == <<phase, written, answered>>

Init ==
  /\ phase = "loading"
  /\ written = <<>>
  /\ answered = 0

Announce ==
  /\ phase = "loading"
  /\ phase' = "ready"
  /\ UNCHANGED <<written, answered>>

Write(l) ==
  /\ phase # "gone"
  /\ written' = Append(written, l)
  /\ UNCHANGED <<phase, answered>>

Answer ==
  /\ phase = "ready"
  /\ \E n \in (answered + 1)..Len(written) :
       /\ written[n] \in Requests
       /\ \A i \in (answered + 1)..(n - 1) : written[i] \notin Requests
       /\ answered' = n
  /\ UNCHANGED <<phase, written>>

Leave ==
  /\ phase # "gone"
  /\ phase' = "gone"
  /\ UNCHANGED <<written, answered>>

Next == Announce \/ (\E l \in Lines : Write(l)) \/ Answer \/ Leave

SafeSpec == Init /\ [][Next]_serviceVars

\* A worker loads or gives up, and a request is answered or the worker gone.
Settle == phase = "loading" /\ (Announce \/ Leave)
Spec == SafeSpec /\ WF_serviceVars(Settle) /\ WF_serviceVars(Answer)
=============================================================================
