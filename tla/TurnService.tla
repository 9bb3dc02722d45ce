---------------------------- MODULE TurnService ----------------------------
(***************************************************************************)
(* What the voice pipeline promises the rest of the orchestrator, without *)
(* its threads, its mutex and its condition variable: a first-in first-   *)
(* out service that answers one utterance at a time, that takes no new    *)
(* utterance while it is answering one, and that keeps at most Backlog    *)
(* utterances waiting.                                                    *)
(***************************************************************************)
EXTENDS Naturals, Sequences

CONSTANTS Utterances,   \* what a speaker can say
          Nothing,      \* no utterance
          Backlog       \* how many accepted utterances may wait

VARIABLES waiting,      \* accepted, not yet begun, oldest first
          serving,      \* the utterance being answered, or Nothing
          open          \* the service still begins turns

serviceVars == <<waiting, serving, open>>

Init ==
  /\ waiting = <<>>
  /\ serving = Nothing
  /\ open = TRUE

Accept(u) ==
  /\ serving = Nothing
  /\ Len(waiting) < Backlog
  /\ waiting' = Append(waiting, u)
  /\ UNCHANGED <<serving, open>>

Begin ==
  /\ open
  /\ serving = Nothing
  /\ waiting # <<>>
  /\ serving' = Head(waiting)
  /\ waiting' = Tail(waiting)
  /\ UNCHANGED open

End ==
  /\ serving # Nothing
  /\ serving' = Nothing
  /\ UNCHANGED <<waiting, open>>

Close ==
  /\ open
  /\ open' = FALSE
  /\ UNCHANGED <<waiting, serving>>

Next ==
  \/ \E u \in Utterances : Accept(u)
  \/ Begin
  \/ End
  \/ Close

SafeSpec == Init /\ [][Next]_serviceVars

\* Every accepted utterance is begun while the service is open, and every
\* turn that was begun ends.
Spec == SafeSpec /\ WF_serviceVars(Begin) /\ WF_serviceVars(End)
=============================================================================
