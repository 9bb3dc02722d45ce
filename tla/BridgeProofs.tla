---------------------------- MODULE BridgeProofs ----------------------------
(***************************************************************************)
(* What modules PushToTalk and Mirror promise of ptt_bridge.py: talking   *)
(* through it and reading what is said.                                    *)
(*                                                                         *)
(* PushToTalk, for any number of pages and presses and for clips of any    *)
(* length: what is in a clip rests on counting the frames of the press in  *)
(* the buffer together with the one in the hand of the capture thread      *)
(* (OneStale, NearlyAll); that the microphone is released, on the last     *)
(* command on its way being a ptt_stop (EndsInStop).                       *)
(*                                                                         *)
(* Mirror, for any kinds of captions and any number of them: that a page   *)
(* never goes back rests on the order of what is on its way, from what is  *)
(* said over the pieces on the socket (Sent) and the answers (Shown) to    *)
(* the page.                                                               *)
(***************************************************************************)
EXTENDS PushToTalk, Mirror, FiniteSetTheorems, SequenceTheorems,
        WellFoundedInduction, TLAPS

Commands == {"ptt_start", "ptt_stop"}

\* Types, as far as the proofs need them.
OnTheWay == requests \in Seq(Commands) /\ wire \in Seq(Commands)
Audio ==
  /\ buffer \in Seq(Nat) /\ clip \in Seq(Nat)
  /\ epoch \in Nat /\ frame \in Nat /\ heard \in Nat

(***************************************************************************)
(* Sequences and counts.                                                   *)
(***************************************************************************)
\* r is s without its i-th element.
Without(r, s, i) ==
  /\ Len(r) = Len(s) - 1
  /\ \A j \in 1..(Len(s) - 1) : r[j] = IF j < i THEN s[j] ELSE s[j + 1]

LEMMA Removed ==
  ASSUME NEW S, NEW s \in Seq(S), NEW i \in 1..Len(s)
  PROVE  RemoveAt(s, i) \in Seq(S) /\ Without(RemoveAt(s, i), s, i)
<1> DEFINE a == SubSeq(s, 1, i - 1)
           b == SubSeq(s, i + 1, Len(s))
<1>0. Len(s) \in Nat /\ i \in Nat /\ 1 <= i /\ i <= Len(s) /\ \A j \in 1..Len(s) : s[j] \in S
  BY ElementOfSeq, LenProperties
<1>1. a \in Seq(S) /\ Len(a) = i - 1 /\ \A j \in 1..(i - 1) : a[j] = s[j]
  <2>1. \A j \in 1..(i - 1) : s[j] \in S
    BY <1>0
  <2>2. /\ SubSeq(s, 1, i - 1) \in Seq(S)
        /\ Len(SubSeq(s, 1, i - 1)) = IF 1 <= i - 1 THEN (i - 1) - 1 + 1 ELSE 0
        /\ \A j \in 1..((i - 1) - 1 + 1) : SubSeq(s, 1, i - 1)[j] = s[1 + j - 1]
    BY <1>0, <2>1, SubSeqProperties
  <2> HIDE DEF a
  <2>3. QED
    BY <1>0, <2>2 DEF a
<1>2. b \in Seq(S) /\ Len(b) = Len(s) - i /\ \A j \in 1..(Len(s) - i) : b[j] = s[i + j]
  <2>1. \A j \in (i + 1)..Len(s) : s[j] \in S
    BY <1>0
  <2>2. /\ SubSeq(s, i + 1, Len(s)) \in Seq(S)
        /\ Len(SubSeq(s, i + 1, Len(s))) = IF i + 1 <= Len(s) THEN Len(s) - (i + 1) + 1 ELSE 0
        /\ \A j \in 1..(Len(s) - (i + 1) + 1) : SubSeq(s, i + 1, Len(s))[j] = s[(i + 1) + j - 1]
    BY <1>0, <2>1, SubSeqProperties
  <2> HIDE DEF b
  <2>3. QED
    BY <1>0, <2>2 DEF b
<1> HIDE DEF a, b
<1>3. /\ a \o b \in Seq(S) /\ Len(a \o b) = Len(a) + Len(b)
      /\ \A j \in 1..(Len(a) + Len(b)) : (a \o b)[j] = IF j <= Len(a) THEN a[j] ELSE b[j - Len(a)]
  BY <1>1, <1>2, ConcatProperties
<1>4. RemoveAt(s, i) = a \o b
  BY DEF RemoveAt, a, b
<1>5. ASSUME NEW j \in 1..(Len(s) - 1)
      PROVE  (a \o b)[j] = IF j < i THEN s[j] ELSE s[j + 1]
  <2>1. CASE j < i
    BY <1>0, <1>1, <1>2, <1>3, <2>1
  <2>2. CASE ~(j < i)
    <3>1. j - (i - 1) \in 1..(Len(s) - i) /\ ~(j <= i - 1) /\ i + (j - (i - 1)) = j + 1
      BY <1>0, <2>2
    <3>2. (a \o b)[j] = b[j - (i - 1)]
      BY <1>0, <1>1, <1>2, <1>3, <3>1
    <3>3. b[j - (i - 1)] = s[i + (j - (i - 1))]
      BY <1>2, <3>1
    <3>4. QED
      BY <2>2, <3>1, <3>2, <3>3
  <2>3. QED
    BY <2>1, <2>2
<1>6. Len(a \o b) = Len(s) - 1
  BY <1>0, <1>1, <1>2, <1>3
<1>7. Without(a \o b, s, i)
  BY <1>5, <1>6 DEF Without
<1>8. QED
  BY <1>3, <1>4, <1>7

\* One frame, or one command, more.
LEMMA CountAppend ==
  ASSUME NEW S, NEW s \in Seq(S), NEW e \in S, NEW F
  PROVE  /\ Count(s, F) \in Nat
         /\ Count(Append(s, e), F) = IF e \in F THEN Count(s, F) + 1 ELSE Count(s, F)
<1> DEFINE old == {i \in 1..Len(s) : s[i] \in F}
           new == {i \in 1..(Len(s) + 1) : Append(s, e)[i] \in F}
<1>1. Count(s, F) = Cardinality(old) /\ Count(Append(s, e), F) = Cardinality(new)
  <2>1. DOMAIN s = 1..Len(s)
    BY LenProperties
  <2>2. DOMAIN Append(s, e) = 1..(Len(s) + 1)
    BY LenProperties, AppendProperties
  <2>3. QED
    BY <2>1, <2>2 DEF Count
<1>2. Len(s) \in Nat /\ IsFiniteSet(old)
  <2>1. IsFiniteSet(1..Len(s)) /\ Len(s) \in Nat
    BY FS_Interval, LenProperties
  <2>2. old \subseteq 1..Len(s)
    OBVIOUS
  <2>3. QED
    BY <2>1, <2>2, FS_Subset
<1>3. Cardinality(old) \in Nat /\ Len(s) + 1 \notin old
  BY <1>2, FS_CardinalityType
<1>4. /\ \A i \in 1..Len(s) : Append(s, e)[i] = s[i]
      /\ Append(s, e)[Len(s) + 1] = e
  BY AppendProperties
<1>5. CASE e \in F
  <2>1. new = old \cup {Len(s) + 1}
    BY <1>2, <1>4, <1>5
  <2> HIDE DEF old, new
  <2>2. Cardinality(old \cup {Len(s) + 1}) = Cardinality(old) + 1
    BY <1>2, <1>3, FS_AddElement
  <2>3. QED
    BY <1>1, <1>3, <1>5, <2>1, <2>2
<1>6. CASE e \notin F
  <2>1. new = old
    BY <1>2, <1>4, <1>6
  <2>2. QED
    BY <1>1, <1>3, <1>6, <2>1
<1>7. QED
  BY <1>5, <1>6

\* One fewer.
LEMMA CountRemoved ==
  ASSUME NEW S, NEW s \in Seq(S), NEW r \in Seq(S), NEW i \in 1..Len(s), NEW F,
         Without(r, s, i)
  PROVE  /\ Count(r, F) \in Nat
         /\ s[i] \in F => Count(s, F) = Count(r, F) + 1
         /\ s[i] \notin F => Count(s, F) = Count(r, F)
<1> DEFINE n == Len(s)
           old == {j \in 1..n : s[j] \in F}
           new == {j \in 1..(n - 1) : r[j] \in F}
           f == [j \in new |-> IF j < i THEN j ELSE j + 1]
<1>0. Len(r) = n - 1
  BY DEF Without
<1>1. n \in Nat /\ i \in 1..n
  BY LenProperties
<1>2. Count(s, F) = Cardinality(old) /\ Count(r, F) = Cardinality(new)
  <2>1. DOMAIN s = 1..n /\ DOMAIN r = 1..(n - 1)
    BY <1>0, LenProperties
  <2>2. QED
    BY <2>1 DEF Count
<1>3. \A j \in 1..(n - 1) : r[j] = IF j < i THEN s[j] ELSE s[j + 1]
  BY DEF Without
<1> HIDE DEF n
<1>4. IsFiniteSet(old) /\ IsFiniteSet(new)
  <2>1. IsFiniteSet(1..n) /\ IsFiniteSet(1..(n - 1))
    BY <1>1, FS_Interval
  <2>2. old \subseteq 1..n /\ new \subseteq 1..(n - 1)
    OBVIOUS
  <2> HIDE DEF old, new
  <2>3. QED
    BY <2>1, <2>2, FS_Subset
<1>5. f \in Bijection(new, old \ {i})
  <2>1. \A j \in new : f[j] \in old \ {i}
    BY <1>1, <1>3
  <2>2. \A j, k \in new : f[j] = f[k] => j = k
    BY <1>1
  <2>3. ASSUME NEW k \in old \ {i} PROVE \E j \in new : f[j] = k
    <3>1. CASE k < i
      <4>1. k \in new /\ f[k] = k
        BY <1>1, <1>3, <3>1
      <4>2. QED
        BY <4>1
    <3>2. CASE ~(k < i)
      <4>1. k - 1 \in 1..(n - 1) /\ ~(k - 1 < i) /\ (k - 1) + 1 = k
        BY <1>1, <3>2
      <4>2. k - 1 \in new /\ f[k - 1] = k
        BY <1>3, <4>1
      <4>3. QED
        BY <4>2
    <3>3. QED
      BY <3>1, <3>2
  <2>4. f \in [new -> old \ {i}]
    BY <2>1
  <2> HIDE DEF f, old, new
  <2>5. QED
    BY <2>2, <2>3, <2>4 DEF Bijection, Injection, Surjection, IsInjective
<1>6. i \in old <=> s[i] \in F
  BY <1>1
<1> HIDE DEF f, old, new
<1>7. Cardinality(old \ {i}) = Cardinality(new)
  BY <1>4, <1>5, FS_Bijection DEF ExistsBijection
<1>8. Cardinality(old \ {i}) = IF i \in old THEN Cardinality(old) - 1 ELSE Cardinality(old)
  BY <1>4, FS_RemoveElement
<1>9. Cardinality(old) \in Nat /\ Cardinality(new) \in Nat
  BY <1>4, FS_CardinalityType
<1>10. QED
  BY <1>2, <1>6, <1>7, <1>8, <1>9

LEMMA CountTail ==
  ASSUME NEW S, NEW s \in Seq(S), s # <<>>, NEW F
  PROVE  /\ Count(Tail(s), F) \in Nat
         /\ Head(s) \in F => Count(s, F) = Count(Tail(s), F) + 1
         /\ Head(s) \notin F => Count(s, F) = Count(Tail(s), F)
<1>1. /\ Tail(s) \in Seq(S) /\ Len(Tail(s)) = Len(s) - 1
      /\ \A j \in 1..Len(Tail(s)) : Tail(s)[j] = s[j + 1]
      /\ Len(s) \in Nat \ {0}
  BY HeadTailProperties, EmptySeq, LenProperties
<1>2. 1 \in 1..Len(s) /\ \A j \in 1..(Len(s) - 1) : ~(j < 1)
  BY <1>1
<1>3. Without(Tail(s), s, 1)
  BY <1>1, <1>2 DEF Without
<1>4. Head(s) = s[1]
  BY HeadTailProperties
<1>5. /\ Count(Tail(s), F) \in Nat
      /\ s[1] \in F => Count(s, F) = Count(Tail(s), F) + 1
      /\ s[1] \notin F => Count(s, F) = Count(Tail(s), F)
  <2>1. Tail(s) \in Seq(S) /\ 1 \in 1..Len(s)
    BY <1>1, <1>2
  <2>2. QED
    BY <1>3, <2>1, CountRemoved
<1>6. QED
  BY <1>4, <1>5

\* No more frames of a kind than frames.
LEMMA CountAtMost ==
  ASSUME NEW S, NEW s \in Seq(S), NEW F
  PROVE  Count(s, F) \in Nat /\ Count(s, F) <= Len(s)
<1>1. Len(s) \in Nat /\ DOMAIN s = 1..Len(s)
  BY LenProperties
<1>2. IsFiniteSet(1..Len(s)) /\ Cardinality(1..Len(s)) = Len(s)
  BY <1>1, FS_Interval
<1> DEFINE A == {i \in 1..Len(s) : s[i] \in F}
<1>3. A \in SUBSET (1..Len(s)) /\ Count(s, F) = Cardinality(A)
  BY <1>1 DEF Count
<1> HIDE DEF A
<1>4. IsFiniteSet(A) /\ Cardinality(A) <= Cardinality(1..Len(s))
  BY <1>2, <1>3, FS_Subset
<1>5. Cardinality(A) \in Nat
  BY <1>4, FS_CardinalityType
<1>6. QED
  BY <1>2, <1>3, <1>4, <1>5

LEMMA CountEmpty == ASSUME NEW F PROVE Count(<<>>, F) = 0
BY FS_EmptySet DEF Count

(***************************************************************************)
(* Types.                                                                  *)
(***************************************************************************)
\* What may happen to the commands on their way.
LEMMA Deliveries ==
  ASSUME [Next]_vars
  PROVE  \/ UNCHANGED <<requests, wire>>
         \/ \E p \in Pages : Press(p) \/ Release(p)
         \/ Forward
         \/ UNCHANGED requests /\ wire' = <<>> /\ Disconnect
         \/ Receive
<1>1. ASSUME NEW p \in Pages, LeavePage(p) PROVE UNCHANGED <<requests, wire>>
  BY <1>1 DEF LeavePage, bridge
<1>2. CASE Disconnect
  BY <1>2 DEF Disconnect
<1>3. CASE Reconnect
  BY <1>3 DEF Reconnect, web
<1>4. CASE StartClear \/ StartRaise \/ StopLower \/ StopSwap \/ StopUse \/ CaptureStep
  BY <1>4 DEF StartClear, StartRaise, StopLower, StopSwap, StopUse, CaptureStep,
    CaptureRead, TestHeld, TestFree, CapturePush, web, bridge
<1>5. CASE UNCHANGED vars
  BY <1>5 DEF vars, web, bridge
<1>6. QED
  BY <1>1, <1>2, <1>3, <1>4, <1>5 DEF Next, HandlerStep

LEMMA OnTheWayStep == OnTheWay /\ [Next]_vars => OnTheWay'
<1> SUFFICES ASSUME OnTheWay, [Next]_vars PROVE OnTheWay'
  OBVIOUS
<1>0. "ptt_start" \in Commands /\ "ptt_stop" \in Commands /\ <<>> \in Seq(Commands)
  BY EmptySeq DEF Commands
<1>1. ASSUME NEW p \in Pages, Press(p) \/ Release(p) PROVE OnTheWay'
  <2>1. /\ requests' = Append(requests, "ptt_start") \/ requests' = Append(requests, "ptt_stop")
        /\ wire' = wire
    BY <1>1 DEF Press, Release, bridge
  <2>2. QED
    BY <1>0, <2>1, AppendProperties DEF OnTheWay
<1>2. CASE Forward
  <2>1. PICK i \in DOMAIN requests :
          /\ requests' = RemoveAt(requests, i)
          /\ wire' = wire \/ wire' = Append(wire, requests[i])
    BY <1>2 DEF Forward
  <2>2. i \in 1..Len(requests) /\ requests[i] \in Commands
    BY <2>1, LenProperties, ElementOfSeq DEF OnTheWay
  <2>3. requests' \in Seq(Commands)
    BY <2>1, <2>2, Removed DEF OnTheWay
  <2>4. wire' \in Seq(Commands)
    BY <2>1, <2>2, AppendProperties DEF OnTheWay
  <2>5. QED
    BY <2>3, <2>4 DEF OnTheWay
<1>3. CASE Receive
  <2>1. wire # <<>> /\ wire' = Tail(wire) /\ requests' = requests
    BY <1>3 DEF Receive, web
  <2>2. QED
    BY <2>1, HeadTailProperties DEF OnTheWay
<1>4. CASE UNCHANGED requests /\ wire' = <<>>
  BY <1>0, <1>4 DEF OnTheWay
<1>5. CASE UNCHANGED <<requests, wire>>
  BY <1>5 DEF OnTheWay
<1>6. QED
  BY <1>1, <1>2, <1>3, <1>4, <1>5, Deliveries

(***************************************************************************)
(* The clip.                                                               *)
(***************************************************************************)
Others == 0..MaxPress \ {epoch}
Stale == IF capture # "read" /\ frame # epoch THEN 1 ELSE 0
Fresh == IF capture = "push" /\ frame = epoch THEN 1 ELSE 0

\* While the clip is taken, nothing more of the press is heard.
Lowered == handler \in {"swap", "use"} => ~active

\* One frame of before the press, in the buffer or on its way there.
OneStale ==
  /\ Count(buffer, Others) + Stale <= 1
  /\ handler = "use" => Count(clip, Others) <= 1

\* What was heard of the press is in the buffer, or on its way there.
NearlyAll ==
  /\ handler # "use" => Count(buffer, {epoch}) + Fresh >= heard
  /\ handler = "use" => Count(clip, {epoch}) + 1 >= heard

\* Steps that leave alone what a clip is made of.
Silent ==
  /\ UNCHANGED <<buffer, clip, epoch, heard, capture, frame>>
  /\ handler' = "use" <=> handler = "use"

LEMMA ClipSteps ==
  ASSUME [Next]_vars, OnTheWay
  PROVE  Silent \/ StartClear \/ StopSwap \/ StopUse \/ CaptureStep
<1>1. ASSUME NEW p \in Pages, Press(p) \/ Release(p) \/ LeavePage(p) PROVE Silent
  BY <1>1 DEF Press, Release, LeavePage, daemon, Silent
<1>2. CASE Forward
  BY <1>2 DEF Forward, daemon, Silent
<1>3. CASE Disconnect \/ Reconnect
  BY <1>3 DEF Disconnect, Reconnect, daemon, Silent
<1>4. CASE Receive
  <2>1. wire # <<>> /\ handler = "recv" /\ handler' = Head(wire)
    BY <1>4 DEF Receive, Handler
  <2>2. Head(wire) \in Commands
    BY <2>1, HeadTailProperties DEF OnTheWay
  <2>3. QED
    BY <1>4, <2>1, <2>2 DEF Receive, Silent, Commands
<1>5. CASE StartRaise \/ StopLower
  BY <1>5 DEF StartRaise, StopLower, Handler, Silent
<1>6. CASE UNCHANGED vars
  BY <1>6 DEF vars, daemon, Silent
<1>7. QED
  BY <1>1, <1>2, <1>3, <1>4, <1>5, <1>6 DEF Next, HandlerStep

LEMMA AudioStep == OnTheWay /\ Audio /\ [Next]_vars => Audio'
<1> SUFFICES ASSUME OnTheWay, Audio, [Next]_vars PROVE Audio'
  OBVIOUS
<1>0. <<>> \in Seq(Nat) /\ epoch + 1 \in Nat /\ heard + 1 \in Nat /\ 0 \in Nat
  BY EmptySeq DEF Audio
<1>1. CASE Silent
  BY <1>1 DEF Silent, Audio
<1>2. CASE StartClear
  BY <1>0, <1>2 DEF StartClear, Audio
<1>3. CASE StopSwap
  BY <1>0, <1>3 DEF StopSwap, Audio
<1>4. CASE StopUse
  BY <1>0, <1>4 DEF StopUse, Audio
<1>5. CASE CaptureRead \/ TestFree
  BY <1>5 DEF CaptureRead, TestFree, Audio
<1>6. CASE TestHeld
  <2>1. heard' = heard \/ heard' = heard + 1
    BY <1>6 DEF TestHeld
  <2>2. QED
    BY <1>0, <1>6, <2>1 DEF TestHeld, Audio
<1>7. CASE CapturePush
  BY <1>7, AppendProperties DEF CapturePush, Audio
<1>8. QED
  BY <1>1, <1>2, <1>3, <1>4, <1>5, <1>6, <1>7, ClipSteps DEF CaptureStep

LEMMA LoweredStep == OnTheWay /\ Lowered /\ [Next]_vars => Lowered'
<1> SUFFICES ASSUME OnTheWay, Lowered, [Next]_vars PROVE Lowered'
  OBVIOUS
<1>1. ASSUME NEW p \in Pages, Press(p) \/ Release(p) \/ LeavePage(p) PROVE Lowered'
  BY <1>1 DEF Press, Release, LeavePage, daemon, Lowered
<1>2. CASE Forward
  BY <1>2 DEF Forward, daemon, Lowered
<1>3. CASE Disconnect \/ Reconnect
  BY <1>3 DEF Disconnect, Reconnect, daemon, Lowered
<1>4. CASE Receive
  <2>1. wire # <<>> /\ handler' = Head(wire)
    BY <1>4 DEF Receive, Handler
  <2>2. Head(wire) \in Commands
    BY <2>1, HeadTailProperties DEF OnTheWay
  <2>3. QED
    BY <2>1, <2>2 DEF Lowered, Commands
<1>5. CASE StartClear \/ StartRaise \/ StopUse
  BY <1>5 DEF StartClear, StartRaise, StopUse, Handler, Lowered
<1>6. CASE StopLower
  BY <1>6 DEF StopLower, Lowered
<1>7. CASE StopSwap
  BY <1>7 DEF StopSwap, Handler, Lowered
<1>8. CASE CaptureStep
  BY <1>8 DEF CaptureStep, CaptureRead, TestHeld, TestFree, CapturePush, Lowered
<1>9. CASE UNCHANGED vars
  BY <1>9 DEF vars, daemon, Lowered
<1>10. QED
  BY <1>1, <1>2, <1>3, <1>4, <1>5, <1>6, <1>7, <1>8, <1>9 DEF Next, HandlerStep

LEMMA ClipStep == OnTheWay /\ Audio /\ Lowered /\ OneStale /\ NearlyAll /\ [Next]_vars
                  => OneStale' /\ NearlyAll'
<1> SUFFICES ASSUME OnTheWay, Audio, Lowered, OneStale, NearlyAll, [Next]_vars
             PROVE  OneStale' /\ NearlyAll'
  OBVIOUS
<1>0. /\ Count(buffer, Others) \in Nat /\ Count(buffer, {epoch}) \in Nat
      /\ Stale \in {0, 1} /\ Fresh \in {0, 1} /\ heard \in Nat
  BY CountAppend DEF Audio, Stale, Fresh
<1>1. CASE Silent
  BY <1>1 DEF Silent, OneStale, NearlyAll, Others, Stale, Fresh
<1>2. CASE StartClear
  <2>1. Count(buffer', Others') = 0 /\ Count(buffer', {epoch'}) = 0
    BY <1>2, CountEmpty DEF StartClear
  <2>2. heard' = 0 /\ handler' # "use"
    BY <1>2 DEF StartClear, Handler
  <2>3. /\ Stale' \in Nat /\ Stale' <= 1
        /\ Fresh' \in Nat
    BY DEF Stale, Fresh
  <2>4. OneStale'
    <3>1. Count(buffer', Others') + Stale' <= 1
      <4>1. \A n \in Nat : n <= 1 => 0 + n <= 1
        OBVIOUS
      <4>2. QED
        BY <2>1, <2>3, <4>1, Zenon
    <3>2. QED
      BY <2>2, <3>1 DEF OneStale
  <2>5. NearlyAll'
    <3>1. Count(buffer', {epoch'}) + Fresh' >= heard'
      <4>1. \A n \in Nat : 0 + n >= 0
        OBVIOUS
      <4>2. QED
        BY <2>1, <2>2, <2>3, <4>1, Zenon
    <3>2. QED
      BY <2>2, <3>1 DEF NearlyAll
  <2>6. QED
    BY <2>4, <2>5
<1>3. CASE StopSwap
  <2>1. /\ clip' = buffer /\ Others' = Others /\ epoch' = epoch /\ heard' = heard
        /\ Stale' = Stale /\ handler # "use" /\ handler' = "use"
    BY <1>3 DEF StopSwap, Handler, Others, Stale
  <2>2. Count(buffer', Others') = 0
    BY <1>3, CountEmpty DEF StopSwap
  <2>3. OneStale'
    BY <1>0, <2>1, <2>2 DEF OneStale
  <2>4. NearlyAll'
    BY <1>0, <2>1 DEF NearlyAll
  <2>5. QED
    BY <2>3, <2>4
<1>4. CASE StopUse
  <2>1. /\ UNCHANGED <<buffer, epoch>> /\ Others' = Others /\ Stale' = Stale /\ Fresh' = Fresh
        /\ heard' = 0 /\ handler' # "use"
    BY <1>4 DEF StopUse, Handler, Others, Stale, Fresh
  <2>2. QED
    BY <1>0, <2>1 DEF OneStale, NearlyAll
<1>5. CASE CaptureStep
  <2>1. UNCHANGED <<handler, clip, epoch>> /\ Others' = Others
    BY <1>5 DEF CaptureStep, CaptureRead, TestHeld, TestFree, CapturePush, Others
  <2>2. CASE CaptureRead \/ TestFree
    <3>1. UNCHANGED <<buffer, heard>> /\ Stale' = 0 /\ Fresh = 0 /\ Fresh' = 0
      BY <2>1, <2>2 DEF CaptureRead, TestFree, Stale, Fresh
    <3>2. QED
      BY <1>0, <2>1, <3>1 DEF OneStale, NearlyAll
  <2>3. CASE TestHeld
    <3>1. handler # "use"
      BY <2>3 DEF TestHeld, Lowered
    <3>2. /\ buffer' = buffer /\ Stale' = Stale /\ Fresh = 0
          /\ heard' = heard + Fresh'
      BY <1>0, <2>1, <2>3 DEF TestHeld, Stale, Fresh
    <3>3. Fresh' \in {0, 1}
      BY DEF Fresh
    <3>4. QED
      BY <1>0, <2>1, <3>1, <3>2, <3>3 DEF OneStale, NearlyAll
  <2>4. CASE CapturePush
    <3>1. /\ buffer' = Append(buffer, frame) /\ heard' = heard /\ capture = "push"
          /\ Stale' = 0 /\ Fresh' = 0
      BY <2>4 DEF CapturePush, Stale, Fresh
    <3>2. Count(buffer', Others) <= Count(buffer, Others) + Stale
      <4>1. Count(buffer', Others)
              = IF frame \in Others THEN Count(buffer, Others) + 1 ELSE Count(buffer, Others)
        BY <3>1, CountAppend DEF Audio
      <4>2. frame \in Others => Stale = 1
        BY <3>1 DEF Others, Stale
      <4>3. QED
        BY <1>0, <4>1, <4>2
    <3>3. Count(buffer', {epoch}) = Count(buffer, {epoch}) + Fresh
      <4>1. Count(buffer', {epoch})
              = IF frame \in {epoch} THEN Count(buffer, {epoch}) + 1 ELSE Count(buffer, {epoch})
        BY <3>1, CountAppend DEF Audio
      <4>2. QED
        BY <1>0, <3>1, <4>1 DEF Fresh
    <3>4. Count(buffer', Others) \in Nat
      <4>1. buffer' \in Seq(Nat)
        BY <3>1, AppendProperties DEF Audio
      <4>2. QED
        BY <4>1, CountAppend
    <3>5. OneStale'
      BY <1>0, <2>1, <3>1, <3>2, <3>4 DEF OneStale
    <3>6. NearlyAll'
      BY <1>0, <2>1, <3>1, <3>3 DEF NearlyAll
    <3>7. QED
      BY <3>5, <3>6
  <2>5. QED
    BY <1>5, <2>2, <2>3, <2>4 DEF CaptureStep
<1>6. QED
  BY <1>1, <1>2, <1>3, <1>4, <1>5, ClipSteps

(***************************************************************************)
(* The microphone.                                                         *)
(***************************************************************************)
AllUp == \A p \in Pages : ~down[p]

\* With every button up the last command on its way is a ptt_stop, and
\* without one the handler has lowered the flag or is about to.
EndsInStop ==
  ~mishap /\ AllUp =>
    /\ requests # <<>> => Last(requests) = "ptt_stop"
    /\ requests = <<>> /\ wire # <<>> => Last(wire) = "ptt_stop"
    /\ requests = <<>> /\ wire = <<>> =>
         handler \notin {"ptt_start", "raise"} /\ (handler = "ptt_stop" \/ ~active)

Buttons == down \in [Pages -> BOOLEAN]

LEMMA ButtonsStep == Buttons /\ [Next]_vars => Buttons'
<1> SUFFICES ASSUME Buttons, [Next]_vars PROVE Buttons'
  OBVIOUS
<1>1. ASSUME NEW p \in Pages, Press(p) \/ Release(p) \/ LeavePage(p) PROVE Buttons'
  BY <1>1 DEF Press, Release, LeavePage, Buttons
<1>2. CASE Forward \/ Disconnect \/ Reconnect
  BY <1>2 DEF Forward, Disconnect, Reconnect, web, Buttons
<1>3. CASE HandlerStep
  BY <1>3 DEF HandlerStep, Receive, StartClear, StartRaise, StopLower, StopSwap, StopUse, web, Buttons
<1>4. CASE CaptureStep
  BY <1>4 DEF CaptureStep, CaptureRead, TestHeld, TestFree, CapturePush, web, Buttons
<1>5. CASE UNCHANGED vars
  BY <1>5 DEF vars, web, Buttons
<1>6. QED
  BY <1>1, <1>2, <1>3, <1>4, <1>5 DEF Next

\* A request that was neither lost nor overtaken reaches the socket, and one
\* like the last of those behind it, if there is one, is left.
LEMMA ForwardInOrder ==
  ASSUME OnTheWay, requests # <<>>, Last(requests) = "ptt_stop", Forward, ~mishap'
  PROVE  /\ requests' # <<>> => Last(requests') = "ptt_stop"
         /\ requests' = <<>> => wire' # <<>> /\ Last(wire') = "ptt_stop"
<1>1. PICK i \in DOMAIN requests :
        /\ requests' = RemoveAt(requests, i)
        /\ wire' = IF connected THEN Append(wire, requests[i]) ELSE wire
        /\ mishap' = (mishap \/ ~connected \/ \E j \in 1..(i - 1) : requests[j] # requests[i])
  BY DEF Forward
<1>2. connected /\ \A j \in 1..(i - 1) : requests[j] = requests[i]
  BY <1>1
<1>3. wire' = Append(wire, requests[i])
  BY <1>1, <1>2
<1> DEFINE n == Len(requests)
<1>4. n \in Nat /\ i \in 1..n /\ requests[n] = "ptt_stop" /\ requests[i] \in Commands
  BY <1>1, LenProperties, ElementOfSeq DEF OnTheWay, Last
<1>5. /\ requests' \in Seq(Commands) /\ Len(requests') = n - 1
      /\ \A j \in 1..(n - 1) :
           requests'[j] = IF j < i THEN requests[j] ELSE requests[j + 1]
  BY <1>1, <1>4, Removed DEF OnTheWay, Without
<1> HIDE DEF n
<1>6. CASE n = 1
  <2>1. i = 1 /\ Len(requests') = 0
    BY <1>4, <1>5, <1>6
  <2>2. requests' = <<>>
    BY <1>5, <2>1, EmptySeq
  <2>3. requests[i] = "ptt_stop"
    BY <1>4, <1>6, <2>1
  <2>4. wire' # <<>> /\ Len(wire') = Len(wire) + 1 /\ wire'[Len(wire) + 1] = requests[i]
    BY <1>3, <1>4, AppendProperties DEF OnTheWay
  <2>5. QED
    BY <2>2, <2>3, <2>4 DEF Last
<1>7. CASE n # 1
  <2>1. n - 1 \in 1..(n - 1) /\ Len(requests') # 0 /\ (n - 1) + 1 = n
    BY <1>4, <1>5, <1>7
  <2>2. requests' # <<>>
    BY <2>1, EmptySeq
  <2>3. requests'[n - 1] = IF n - 1 < i THEN requests[n - 1] ELSE requests[n]
    BY <1>5, <2>1
  <2>4. n - 1 < i => i = n
    BY <1>4
  <2>5. i = n => requests[n - 1] = requests[n]
    BY <1>2, <2>1
  <2>6. requests'[n - 1] = "ptt_stop"
    BY <1>4, <2>3, <2>4, <2>5
  <2>7. QED
    BY <1>5, <2>2, <2>6 DEF Last
<1>8. QED
  BY <1>6, <1>7

LEMMA EndsInStopStep == OnTheWay /\ Buttons /\ EndsInStop /\ [Next]_vars => EndsInStop'
<1> SUFFICES ASSUME OnTheWay, Buttons, EndsInStop, [Next]_vars, ~mishap', AllUp'
             PROVE  /\ requests' # <<>> => Last(requests') = "ptt_stop"
                    /\ requests' = <<>> /\ wire' # <<>> => Last(wire') = "ptt_stop"
                    /\ requests' = <<>> /\ wire' = <<>> =>
                         handler' \notin {"ptt_start", "raise"} /\ (handler' = "ptt_stop" \/ ~active')
  BY DEF EndsInStop
<1>1. ASSUME NEW p \in Pages, Press(p) PROVE FALSE
  <2>1. down'[p] = TRUE
    BY <1>1 DEF Press, Buttons
  <2>2. QED
    BY <2>1 DEF AllUp
<1>2. ASSUME NEW p \in Pages, Release(p)
      PROVE  requests' # <<>> /\ Last(requests') = "ptt_stop"
  <2>1. requests' = Append(requests, "ptt_stop") /\ "ptt_stop" \in Commands
    BY <1>2 DEF Release, Commands
  <2>2. QED
    BY <2>1, AppendProperties DEF OnTheWay, Last
<1>3. ASSUME NEW p \in Pages, LeavePage(p) PROVE FALSE
  BY <1>3 DEF LeavePage
<1>4. CASE Forward
  <2>1. ~mishap /\ AllUp /\ requests # <<>>
    <3>1. mishap => mishap'
      BY <1>4 DEF Forward
    <3>2. down' = down
      BY <1>4 DEF Forward
    <3>3. PICK i \in DOMAIN requests : TRUE
      BY <1>4 DEF Forward
    <3>4. requests # <<>>
      BY <3>3
    <3>5. QED
      BY <3>1, <3>2, <3>4 DEF AllUp
  <2>2. Last(requests) = "ptt_stop"
    BY <2>1 DEF EndsInStop
  <2>3. QED
    BY <1>4, <2>1, <2>2, ForwardInOrder
<1>5. CASE Disconnect
  <2>1. ~mishap /\ wire' = wire /\ UNCHANGED <<down, requests, handler, active>>
    BY <1>5 DEF Disconnect, daemon
  <2>2. QED
    BY <2>1 DEF EndsInStop, AllUp
<1>6. CASE Reconnect \/ CaptureStep \/ UNCHANGED vars
  <2>1. UNCHANGED <<mishap, down, requests, wire, handler, active>>
    BY <1>6 DEF Reconnect, CaptureStep, CaptureRead, TestHeld, TestFree, CapturePush,
      vars, web, bridge, daemon
  <2>2. QED
    BY <2>1 DEF EndsInStop, AllUp
<1>7. CASE Receive
  <2>1. UNCHANGED <<mishap, down, requests, active>> /\ wire # <<>> /\ wire' = Tail(wire)
        /\ handler' = Head(wire)
    BY <1>7 DEF Receive, Handler, web
  <2>2. ~mishap /\ AllUp
    BY <2>1 DEF AllUp
  <2>3. CASE requests = <<>>
    <3>1. Last(wire) = "ptt_stop"
      BY <2>1, <2>2, <2>3 DEF EndsInStop
    <3>2. /\ wire \in Seq(Commands) /\ Len(wire) \in Nat \ {0}
          /\ wire' \in Seq(Commands) /\ Len(wire') = Len(wire) - 1
          /\ \A i \in 1..Len(wire') : wire'[i] = wire[i + 1]
      BY <2>1, HeadTailProperties, EmptySeq DEF OnTheWay
    <3>3. CASE Len(wire) = 1
      <4>1. wire' = <<>>
        BY <3>2, <3>3, EmptySeq
      <4>2. Head(wire) = "ptt_stop"
        BY <3>1, <3>2, <3>3 DEF Last
      <4>3. QED
        BY <2>1, <2>3, <4>1, <4>2
    <3>4. CASE Len(wire) # 1
      <4>1. Len(wire') \in 1..Len(wire') /\ Len(wire') # 0 /\ Len(wire') + 1 = Len(wire)
        BY <3>2, <3>4
      <4>2. wire' # <<>>
        BY <4>1, EmptySeq
      <4>3. wire'[Len(wire')] = wire[Len(wire)]
        BY <3>2, <4>1
      <4>4. Last(wire') = "ptt_stop"
        BY <3>1, <4>3 DEF Last
      <4>5. QED
        BY <2>1, <2>3, <4>2, <4>4
    <3>5. QED
      BY <3>3, <3>4
  <2>4. CASE requests # <<>>
    BY <2>1, <2>2, <2>4 DEF EndsInStop
  <2>5. QED
    BY <2>3, <2>4
<1>8. CASE StartClear \/ StartRaise \/ StopLower \/ StopSwap \/ StopUse
  <2>1. UNCHANGED <<mishap, down, requests, wire>>
    BY <1>8 DEF StartClear, StartRaise, StopLower, StopSwap, StopUse, web, bridge
  <2>2. ~mishap /\ AllUp
    BY <2>1 DEF AllUp
  <2>3. /\ handler \notin {"ptt_start", "raise"} => handler' \notin {"ptt_start", "raise", "ptt_stop"}
        /\ handler \in {"ptt_start", "raise", "ptt_stop"} \/ active' = active
        /\ handler = "ptt_stop" => ~active'
    BY <1>8 DEF StartClear, StartRaise, StopLower, StopSwap, StopUse, Handler
  <2>4. QED
    BY <2>1, <2>2, <2>3 DEF EndsInStop
<1>9. QED
  BY <1>1, <1>2, <1>3, <1>4, <1>5, <1>6, <1>7, <1>8 DEF Next, HandlerStep

(***************************************************************************)
(* Bounds: a ptt_start is one press, on its way or counted in epoch; and   *)
(* a frame is read only if there is room for it.                           *)
(***************************************************************************)
Starts(s) == Count(s, {"ptt_start"})
Taking == IF handler = "ptt_start" THEN 1 ELSE 0
Booked == presses \in 0..MaxPress /\ epoch + Taking + Starts(wire) + Starts(requests) <= presses

InHand == IF capture = "read" THEN 0 ELSE 1
Room == Len(buffer) + InHand <= MaxFrames /\ Len(clip) <= MaxFrames

Stamps == 0..MaxPress
Stamped == epoch \in Stamps /\ frame \in Stamps /\ buffer \in Seq(Stamps) /\ clip \in Seq(Stamps)

Modes ==
  /\ mishap \in BOOLEAN /\ connected \in BOOLEAN /\ active \in BOOLEAN
  /\ handler \in Places
  /\ outcome \in {"none", "offered", "idle"}
  /\ capture \in {"read", "test", "push"}

LEMMA StartsType == ASSUME OnTheWay PROVE Starts(wire) \in Nat /\ Starts(requests) \in Nat
BY CountAtMost DEF OnTheWay, Starts

\* No other step changes what is counted.
LEMMA Unbooked ==
  ASSUME OnTheWay, Audio, Booked, UNCHANGED <<presses, epoch, requests>>, Taking' = Taking,
         wire' = wire \/ wire' = <<>>
  PROVE  Booked'
<1>1. Starts(wire') = Starts(wire) \/ Starts(wire') = 0
  BY CountEmpty DEF Starts
<1>2. Starts(requests') = Starts(requests)
  OBVIOUS
<1>3. epoch \in Nat /\ Taking \in Nat /\ presses \in Nat
  BY BoundsAssumption DEF Audio, Taking, Booked
<1>4. epoch' + Taking' + Starts(wire') + Starts(requests') <= presses'
  BY <1>1, <1>2, <1>3, StartsType DEF Booked
<1>5. QED
  BY <1>4 DEF Booked

LEMMA BookedStep == OnTheWay /\ Audio /\ Booked /\ [Next]_vars => Booked'
<1> SUFFICES ASSUME OnTheWay, Audio, Booked, [Next]_vars PROVE Booked'
  OBVIOUS
<1>0. /\ Starts(wire) \in Nat /\ Starts(requests) \in Nat /\ Taking \in {0, 1}
      /\ presses \in Nat /\ MaxPress \in Nat /\ epoch \in Nat
  BY StartsType, BoundsAssumption DEF Booked, Taking, Audio
<1>1. ASSUME NEW p \in Pages, Press(p) PROVE Booked'
  <2>1. /\ presses' = presses + 1 /\ presses < MaxPress
        /\ UNCHANGED <<wire, handler, epoch>> /\ requests' = Append(requests, "ptt_start")
    BY <1>1 DEF Press, bridge, daemon
  <2>2. Starts(requests') = Starts(requests) + 1
    <3>1. "ptt_start" \in Commands
      BY DEF Commands
    <3>2. QED
      BY <2>1, <3>1, CountAppend DEF OnTheWay, Starts
  <2>3. Taking' = Taking /\ Starts(wire') = Starts(wire)
    BY <2>1 DEF Taking
  <2>4. QED
    BY <1>0, <2>1, <2>2, <2>3 DEF Booked
<1>2. ASSUME NEW p \in Pages, Release(p) PROVE Booked'
  <2>1. /\ UNCHANGED <<presses, wire, handler, epoch>>
        /\ requests' = Append(requests, "ptt_stop") /\ "ptt_stop" \in Commands
    BY <1>2 DEF Release, bridge, daemon, Commands
  <2>2. Starts(requests') = Starts(requests)
    BY <2>1, CountAppend DEF OnTheWay, Starts
  <2>3. Taking' = Taking /\ Starts(wire') = Starts(wire)
    BY <2>1 DEF Taking
  <2>4. QED
    BY <1>0, <2>1, <2>2, <2>3 DEF Booked
<1>3. CASE Forward
  <2>1. PICK i \in DOMAIN requests :
          /\ requests' = RemoveAt(requests, i)
          /\ wire' = wire \/ wire' = Append(wire, requests[i])
    BY <1>3 DEF Forward
  <2>2. UNCHANGED <<presses, handler, epoch>>
    BY <1>3 DEF Forward, daemon
  <2>3. i \in 1..Len(requests) /\ requests[i] \in Commands
    BY <2>1, LenProperties, ElementOfSeq DEF OnTheWay
  <2>4. requests' \in Seq(Commands) /\ Without(requests', requests, i)
    BY <2>1, <2>3, Removed DEF OnTheWay
  <2>5. /\ Starts(requests') \in Nat
        /\ requests[i] \in {"ptt_start"} => Starts(requests) = Starts(requests') + 1
        /\ requests[i] \notin {"ptt_start"} => Starts(requests) = Starts(requests')
    BY <2>3, <2>4, CountRemoved DEF OnTheWay, Starts
  <2>6. Starts(wire') <= IF requests[i] \in {"ptt_start"} THEN Starts(wire) + 1 ELSE Starts(wire)
    <3>1. CASE wire' = wire
      BY <1>0, <3>1
    <3>2. CASE wire' = Append(wire, requests[i])
      <4>1. Starts(wire')
              = IF requests[i] \in {"ptt_start"} THEN Starts(wire) + 1 ELSE Starts(wire)
        BY <2>3, <3>2, CountAppend DEF OnTheWay, Starts
      <4>2. QED
        BY <1>0, <4>1
    <3>3. QED
      BY <2>1, <3>1, <3>2
  <2>7. Starts(wire') \in Nat /\ Taking' = Taking
    <3>1. wire' \in Seq(Commands)
      BY OnTheWayStep DEF OnTheWay
    <3>2. Starts(wire') \in Nat
      BY <3>1, CountAtMost DEF Starts
    <3>3. QED
      BY <2>2, <3>2 DEF Taking
  <2>8. QED
    BY <1>0, <2>2, <2>5, <2>6, <2>7 DEF Booked
<1>4. CASE Receive
  <2>1. /\ UNCHANGED <<presses, requests, epoch>> /\ wire # <<>> /\ wire' = Tail(wire)
        /\ handler = "recv" /\ handler' = Head(wire)
    BY <1>4 DEF Receive, Handler, web
  <2>2. /\ Starts(wire') \in Nat
        /\ Head(wire) \in {"ptt_start"} => Starts(wire) = Starts(wire') + 1
        /\ Head(wire) \notin {"ptt_start"} => Starts(wire) = Starts(wire')
    BY <2>1, CountTail DEF OnTheWay, Starts
  <2>3. Taking = 0 /\ Taking' = IF Head(wire) \in {"ptt_start"} THEN 1 ELSE 0
    BY <2>1 DEF Taking
  <2>4. Starts(requests') = Starts(requests)
    BY <2>1
  <2>5. QED
    BY <1>0, <2>1, <2>2, <2>3, <2>4 DEF Booked
<1>5. CASE StartClear
  <2>1. /\ UNCHANGED <<presses, requests, wire>> /\ epoch' = epoch + 1
        /\ Taking = 1 /\ Taking' = 0
    BY <1>5 DEF StartClear, Handler, web, bridge, Taking
  <2>2. Starts(requests') = Starts(requests) /\ Starts(wire') = Starts(wire)
    BY <2>1
  <2>3. QED
    BY <1>0, <2>1, <2>2 DEF Booked
<1>6. ASSUME UNCHANGED <<presses, requests, epoch, handler>>, wire' = wire \/ wire' = <<>>
      PROVE  Booked'
  <2>1. Taking' = Taking
    BY <1>6 DEF Taking
  <2>2. QED
    BY <1>6, <2>1, Unbooked
<1>7. ASSUME NEW p \in Pages, LeavePage(p) PROVE Booked'
  BY <1>6, <1>7 DEF LeavePage, bridge, daemon
<1>8. CASE Disconnect \/ Reconnect \/ CaptureStep \/ UNCHANGED vars
  BY <1>6, <1>8 DEF Disconnect, Reconnect, CaptureStep, CaptureRead, TestHeld, TestFree,
    CapturePush, vars, web, bridge, daemon
<1>9. CASE StartRaise \/ StopLower \/ StopSwap \/ StopUse
  <2>1. UNCHANGED <<presses, requests, wire, epoch>> /\ Taking' = Taking
    BY <1>9 DEF StartRaise, StopLower, StopSwap, StopUse, Handler, web, bridge, Taking
  <2>2. QED
    BY <2>1, Unbooked
<1>10. QED
  BY <1>1, <1>2, <1>3, <1>4, <1>5, <1>7, <1>8, <1>9 DEF Next, HandlerStep

LEMMA RoomStep == OnTheWay /\ Audio /\ Room /\ [Next]_vars => Room'
<1> SUFFICES ASSUME OnTheWay, Audio, Room, [Next]_vars PROVE Room'
  OBVIOUS
<1>0. /\ Len(buffer) \in Nat /\ Len(clip) \in Nat /\ InHand \in {0, 1} /\ MaxFrames \in Nat
      /\ Len(<<>>) = 0
  BY LenProperties, EmptySeq, BoundsAssumption DEF Audio, InHand
<1>1. CASE Silent
  BY <1>1 DEF Silent, Room, InHand
<1>2. CASE StartClear
  <2>1. Len(buffer') = 0 /\ clip' = clip /\ InHand' = InHand
    BY <1>0, <1>2 DEF StartClear, InHand
  <2>2. QED
    BY <1>0, <2>1 DEF Room
<1>3. CASE StopSwap
  <2>1. Len(buffer') = 0 /\ clip' = buffer /\ InHand' = InHand
    BY <1>0, <1>3 DEF StopSwap, InHand
  <2>2. QED
    BY <1>0, <2>1 DEF Room
<1>4. CASE StopUse
  <2>1. buffer' = buffer /\ Len(clip') = 0 /\ InHand' = InHand
    BY <1>0, <1>4 DEF StopUse, InHand
  <2>2. QED
    BY <1>0, <2>1 DEF Room
<1>5. CASE CaptureRead
  BY <1>0, <1>5 DEF CaptureRead, Room, InHand
<1>6. CASE TestHeld \/ TestFree
  BY <1>0, <1>6 DEF TestHeld, TestFree, Room, InHand
<1>7. CASE CapturePush
  <2>1. Len(buffer') = Len(buffer) + 1 /\ clip' = clip /\ InHand = 1 /\ InHand' = 0
    BY <1>7, AppendProperties DEF CapturePush, Audio, InHand
  <2>2. QED
    BY <1>0, <2>1 DEF Room
<1>8. QED
  BY <1>1, <1>2, <1>3, <1>4, <1>5, <1>6, <1>7, ClipSteps DEF CaptureStep

LEMMA StampedStep == OnTheWay /\ Audio' /\ Booked' /\ Stamped /\ [Next]_vars => Stamped'
<1> SUFFICES ASSUME OnTheWay, Audio', Booked', Stamped, [Next]_vars PROVE Stamped'
  OBVIOUS
<1>0. epoch' \in Stamps /\ <<>> \in Seq(Stamps)
  <2>1. /\ Starts(wire') \in Nat /\ Starts(requests') \in Nat
        /\ Taking' \in Nat /\ epoch' \in Nat /\ presses' \in 0..MaxPress
        /\ epoch' + Taking' + Starts(wire') + Starts(requests') <= presses'
    <3>1. OnTheWay'
      BY OnTheWayStep
    <3>2. wire' \in Seq(Commands) /\ requests' \in Seq(Commands)
      BY <3>1 DEF OnTheWay
    <3>3. Starts(wire') \in Nat /\ Starts(requests') \in Nat
      BY <3>2, CountAtMost DEF Starts
    <3>4. Taking' \in Nat
      BY DEF Taking
    <3>5. QED
      BY <3>3, <3>4 DEF Booked, Audio
  <2>2. MaxPress \in Nat
    BY BoundsAssumption
  <2>3. epoch' \in 0..MaxPress
    BY <2>1, <2>2
  <2>4. QED
    BY <2>3, EmptySeq DEF Stamps
<1>1. CASE Silent
  BY <1>1 DEF Silent, Stamped, Stamps
<1>2. CASE StartClear \/ StopSwap \/ StopUse
  BY <1>0, <1>2 DEF StartClear, StopSwap, StopUse, Stamped, Stamps
<1>3. CASE CaptureRead \/ TestHeld \/ TestFree
  BY <1>0, <1>3 DEF CaptureRead, TestHeld, TestFree, Stamped, Stamps
<1>4. CASE CapturePush
  BY <1>0, <1>4, AppendProperties DEF CapturePush, Stamped, Stamps
<1>5. QED
  BY <1>1, <1>2, <1>3, <1>4, ClipSteps DEF CaptureStep

LEMMA ModesStep == OnTheWay /\ Modes /\ [Next]_vars => Modes'
<1> SUFFICES ASSUME OnTheWay, Modes, [Next]_vars PROVE Modes'
  OBVIOUS
<1>1. ASSUME NEW p \in Pages, Press(p) \/ Release(p) \/ LeavePage(p) PROVE Modes'
  BY <1>1 DEF Press, Release, LeavePage, bridge, daemon, Modes
<1>2. CASE Forward \/ Disconnect \/ Reconnect
  BY <1>2 DEF Forward, Disconnect, Reconnect, web, daemon, Modes
<1>3. CASE Receive
  <2>1. handler' \in Places
    BY <1>3, HeadTailProperties DEF Receive, Handler, OnTheWay, Commands, Places
  <2>2. QED
    BY <1>3, <2>1 DEF Receive, web, Modes
<1>4. CASE StartClear \/ StartRaise \/ StopLower \/ StopSwap
  BY <1>4 DEF StartClear, StartRaise, StopLower, StopSwap, Handler, web, bridge, Modes, Places
<1>5. CASE StopUse
  <2>1. outcome' \in {"none", "offered", "idle"}
    BY <1>5 DEF StopUse
  <2>2. QED
    BY <1>5, <2>1 DEF StopUse, Handler, web, bridge, Modes, Places
<1>6. CASE CaptureStep
  BY <1>6 DEF CaptureStep, CaptureRead, TestHeld, TestFree, CapturePush, web, bridge, Modes
<1>7. CASE UNCHANGED vars
  BY <1>7 DEF vars, web, bridge, daemon, Modes
<1>8. QED
  BY <1>1, <1>2, <1>3, <1>4, <1>5, <1>6, <1>7 DEF Next, HandlerStep

(***************************************************************************)
(* Theorems.                                                               *)
(***************************************************************************)
IInv ==
  /\ OnTheWay /\ Audio /\ Buttons /\ Modes /\ Booked /\ Room /\ Stamped
  /\ Lowered /\ OneStale /\ NearlyAll /\ EndsInStop

LEMMA InitIInv == Init => IInv
<1> SUFFICES ASSUME Init PROVE IInv
  OBVIOUS
<1>1. OnTheWay /\ Audio
  BY EmptySeq DEF Init, OnTheWay, Audio
<1>2. Buttons /\ Lowered /\ EndsInStop
  BY DEF Init, Buttons, Lowered, EndsInStop
<1>3. Count(buffer, Others) = 0 /\ Count(buffer, {epoch}) = 0
  BY CountEmpty DEF Init
<1>4. Stale = 0 /\ Fresh = 0 /\ heard = 0 /\ handler # "use"
  BY DEF Init, Stale, Fresh
<1>5. OneStale /\ NearlyAll
  BY <1>3, <1>4 DEF OneStale, NearlyAll
<1>6. Modes
  BY DEF Init, Modes, Places
<1>7. Booked /\ Room
  <2>1. Starts(wire) = 0 /\ Starts(requests) = 0 /\ epoch = 0 /\ presses = 0 /\ Taking = 0
    BY CountEmpty DEF Init, Starts, Taking
  <2>2. Len(buffer) = 0 /\ Len(clip) = 0 /\ InHand = 0
    BY EmptySeq DEF Init, InHand
  <2>3. QED
    BY <2>1, <2>2, BoundsAssumption DEF Booked, Room
<1>8. Stamped
  BY EmptySeq, BoundsAssumption DEF Init, Stamped, Stamps
<1>9. QED
  BY <1>1, <1>2, <1>5, <1>6, <1>7, <1>8 DEF IInv

LEMMA Inductive == SafeSpec => []IInv
<1>1. IInv /\ [Next]_vars => IInv'
  BY OnTheWayStep, AudioStep, ButtonsStep, ModesStep, BookedStep, RoomStep, StampedStep,
    LoweredStep, ClipStep, EndsInStopStep DEF IInv
<1>2. QED
  BY InitIInv, <1>1, PTL DEF SafeSpec

\* Every variable keeps its type: the presses counted and the frames heard
\* stay within the bounds of the model, whatever the bounds are.
THEOREM TypeCorrect == SafeSpec => []TypeOK
<1>1. IInv => TypeOK
  <2> SUFFICES ASSUME IInv PROVE TypeOK
    OBVIOUS
  <2>1. heard \in 0..MaxFrames + 1
    <3>1. /\ Count(buffer, {epoch}) \in Nat /\ Count(buffer, {epoch}) <= Len(buffer)
          /\ Count(clip, {epoch}) \in Nat /\ Count(clip, {epoch}) <= Len(clip)
          /\ Len(buffer) \in Nat /\ Len(clip) \in Nat
      BY CountAtMost, LenProperties DEF IInv, Audio
    <3>2. /\ Fresh \in {0, 1} /\ InHand \in {0, 1} /\ Fresh <= InHand
      BY DEF Fresh, InHand
    <3>3. /\ heard \in Nat /\ MaxFrames \in Nat
          /\ Len(buffer) + InHand <= MaxFrames /\ Len(clip) <= MaxFrames
      BY BoundsAssumption DEF IInv, Audio, Room
    <3>4. CASE handler = "use"
      <4>1. Count(clip, {epoch}) + 1 >= heard
        BY <3>4 DEF IInv, NearlyAll
      <4>2. QED
        BY <3>1, <3>3, <4>1
    <3>5. CASE handler # "use"
      <4>1. Count(buffer, {epoch}) + Fresh >= heard
        BY <3>5 DEF IInv, NearlyAll
      <4>2. QED
        BY <3>1, <3>2, <3>3, <4>1
    <3>6. QED
      BY <3>4, <3>5
  <2>2. QED
    BY <2>1 DEF IInv, OnTheWay, Commands, Buttons, Modes, Booked, Stamped, Stamps, TypeOK
<1>2. QED
  BY <1>1, Inductive, PTL

\* A clip has at most one frame of before the press and misses at most one
\* of the press, for presses and clips of any number and length.
THEOREM AlwaysClipIsThePress == SafeSpec => []ClipIsThePress
<1>1. IInv => ClipIsThePress
  BY DEF IInv, OneStale, NearlyAll, Others, ClipIsThePress, InClip
<1>2. QED
  BY <1>1, Inductive, PTL

\* When all buttons are released and all commands carried out the microphone
\* is released, for any number of pages, unless a request was lost or
\* overtaken.
THEOREM AlwaysMicReleased == SafeSpec => []MicReleased
<1>1. IInv => MicReleased
  BY DEF IInv, EndsInStop, AllUp, MicReleased, Quiet
<1>2. QED
  BY <1>1, Inductive, PTL

(***************************************************************************)
(* The mirror: what is sent on a connection.                               *)
(***************************************************************************)
Numbers == [Kinds -> Nat]
Piece == [c : [kind : Kinds, number : Nat], last : BOOLEAN]
Answer == [state : Numbers, connected : BOOLEAN]

\* A kind of captions and the number of one, for each piece on its way.
KindAt(a) == feed[a].c.kind
NumberAt(a) == feed[a].c.number

Numbered ==
  /\ said \in Numbers /\ snapshot \in Numbers /\ state \in Numbers
  /\ feed \in Seq(Piece) /\ reported \in BOOLEAN
  /\ answers \in Seq(Answer) /\ page \in Answer

\* The snapshot keeps the latest caption of a kind or none, and the bridge
\* is not ahead of the orchestrator.
Snapped == \A k \in Kinds :
  /\ snapshot[k] \in {0, said[k]}
  /\ k \notin Replayed => snapshot[k] = 0
  /\ state[k] <= said[k]

\* What is on its way was said, is not older than what the bridge has, and is
\* in order.
Sent ==
  /\ \A a \in 1..Len(feed) : state[KindAt(a)] <= NumberAt(a) /\ NumberAt(a) <= said[KindAt(a)]
  /\ \A a, b \in 1..Len(feed) : a <= b /\ KindAt(a) = KindAt(b) => NumberAt(a) <= NumberAt(b)

\* One answer is on its way to a page, not older than what the page shows.
Shown ==
  /\ \A k \in Kinds : page.state[k] <= state[k]
  /\ Len(answers) <= 1
  /\ \A i \in 1..Len(answers) : \A k \in Kinds :
       page.state[k] <= answers[i].state[k] /\ answers[i].state[k] <= state[k]

MirrorInv == Numbered /\ Snapped /\ Sent /\ Shown

(***************************************************************************)
(* The replay: FlattenSeq goes through the kinds one by one, so that it    *)
(* makes a sequence is an induction on their number.                       *)
(***************************************************************************)
\* The pieces of the first i sequences, from those of the first i - 1.
Join(g, seqs, i) == IF i = 1 THEN seqs[i] ELSE g[i - 1] \o seqs[i]

LEMMA NumbersReached ==
  ASSUME NEW G, 0 \in G, \A n \in Nat : n \in G => n + 1 \in G
  PROVE  \A n \in Nat : n \in G
<1> DEFINE Missing == Nat \ G
<1>1. SUFFICES ASSUME Missing # {} PROVE FALSE
  OBVIOUS
<1>2. PICK n \in Missing : \A m \in Missing : <<m, n>> \notin OpToRel(<, Nat)
  <2>1. Missing \subseteq Nat
    OBVIOUS
  <2> HIDE DEF Missing
  <2>2. QED
    BY <1>1, <2>1, NatLessThanWellFounded, WFMin
<1>3. \A m \in Missing : ~(m < n)
  BY <1>2 DEF OpToRel
<1>4. n \in Nat /\ n # 0
  OBVIOUS
<1>5. n - 1 \in Nat /\ n - 1 < n /\ (n - 1) + 1 = n
  BY <1>4
<1>6. n - 1 \in G
  BY <1>3, <1>5
<1>7. QED
  BY <1>2, <1>5, <1>6

LEMMA JoinedExists ==
  ASSUME NEW seqs
  PROVE  \A n \in Nat : \E g : g = [i \in 1..n |-> Join(g, seqs, i)]
<1> DEFINE Is(g, n) == g = [i \in 1..n |-> Join(g, seqs, i)]
           G == {n \in Nat : \E g : Is(g, n)}
<1>1. 0 \in G
  <2> DEFINE g == [i \in 1..0 |-> 0]
  <2>1. \A i \in 1..0 : FALSE
    OBVIOUS
  <2>2. g = [i \in 1..0 |-> Join(g, seqs, i)]
    BY <2>1
  <2>3. QED
    BY <2>2
<1>2. ASSUME NEW n \in Nat, n \in G PROVE n + 1 \in G
  <2>1. PICK g : Is(g, n)
    BY <1>2
  <2> DEFINE h == [i \in 1..(n + 1) |-> IF i = n + 1 THEN Join(g, seqs, i) ELSE g[i]]
  <2>2. \A i \in 1..(n + 1) : h[i] = Join(h, seqs, i)
    <3> TAKE i \in 1..(n + 1)
    <3>1. i # 1 => i - 1 \in 1..(n + 1) /\ i - 1 # n + 1
      OBVIOUS
    <3>2. i # 1 => h[i - 1] = g[i - 1]
      BY <3>1
    <3>3. Join(h, seqs, i) = Join(g, seqs, i)
      <4> HIDE DEF h
      <4>1. QED
        BY <3>2 DEF Join
    <3>4. CASE i = n + 1
      BY <3>3, <3>4
    <3>5. CASE i # n + 1
      <4>1. i \in 1..n
        BY <3>5
      <4>2. g[i] = Join(g, seqs, i)
        BY <2>1, <4>1
      <4>3. h[i] = g[i]
        BY <3>5
      <4>4. QED
        BY <3>3, <4>2, <4>3
    <3>6. QED
      BY <3>4, <3>5
  <2>3. h = [i \in 1..(n + 1) |-> h[i]]
    OBVIOUS
  <2>4. Is(h, n + 1)
    <3> HIDE DEF h
    <3>1. QED
      BY <2>2, <2>3
  <2> HIDE DEF h, Is
  <2>5. \E k : Is(k, n + 1)
    BY <2>4
  <2>6. QED
    BY <2>5
<1> HIDE DEF G
<1>3. \A n \in Nat : n \in G
  BY <1>1, <1>2, NumbersReached
<1>4. QED
  BY <1>3 DEF G

\* Sequences of elements of S, one after the other, are such a sequence.
LEMMA Flattened ==
  ASSUME NEW S, NEW m \in Nat, NEW seqs \in [1..m -> Seq(S)]
  PROVE  FlattenSeq(seqs) \in Seq(S)
<1>1. seqs \in Seq(Seq(S)) /\ Len(seqs) = m
  OBVIOUS
<1>2. CASE m = 0
  <2>1. seqs = <<>>
    BY <1>1, <1>2, EmptySeq
  <2>2. QED
    BY <1>1, <1>2, <2>1, EmptySeq DEF FlattenSeq
<1>3. CASE m # 0
  <2> DEFINE f == CHOOSE g : g = [i \in 1..m |-> Join(g, seqs, i)]
             G == {n \in Nat : n \in 1..m => f[n] \in Seq(S)}
  <2>1. FlattenSeq(seqs) = f[m]
    BY <1>1, <1>3 DEF FlattenSeq, Join
  <2>2. f = [i \in 1..m |-> Join(f, seqs, i)]
    BY JoinedExists
  <2> HIDE DEF f
  <2>3. \A i \in 1..m : f[i] = Join(f, seqs, i)
    BY <2>2
  <2>4. 0 \in G
    OBVIOUS
  <2>5. ASSUME NEW n \in Nat, n \in G PROVE n + 1 \in G
    <3> SUFFICES ASSUME n + 1 \in 1..m PROVE f[n + 1] \in Seq(S)
      OBVIOUS
    <3>1. f[n + 1] = Join(f, seqs, n + 1) /\ seqs[n + 1] \in Seq(S)
      BY <2>3
    <3>2. CASE n = 0
      BY <3>1, <3>2 DEF Join
    <3>3. CASE n # 0
      <4>1. n \in 1..m /\ (n + 1) - 1 = n /\ n + 1 # 1
        BY <3>3
      <4>2. f[n] \in Seq(S)
        BY <2>5, <4>1
      <4>3. f[n + 1] = f[n] \o seqs[n + 1]
        BY <3>1, <4>1 DEF Join
      <4>4. QED
        BY <3>1, <4>2, <4>3, ConcatProperties
    <3>4. QED
      BY <3>2, <3>3
  <2> HIDE DEF G
  <2>6. \A n \in Nat : n \in G
    BY <2>4, <2>5, NumbersReached
  <2>7. m \in G /\ m \in 1..m
    BY <1>3, <2>6
  <2>8. QED
    BY <2>1, <2>7 DEF G
<1>4. QED
  BY <1>2, <1>3

LEMMA SetInOrder ==
  ASSUME NEW S, IsFiniteSet(S)
  PROVE  Cardinality(S) \in Nat /\ SetToSeq(S) \in [1..Cardinality(S) -> S]
<1>1. PICK n \in Nat : ExistsBijection(1..n, S)
  BY FS_NatBijection
<1>2. Cardinality(S) = n
  BY <1>1, FS_CountingElements
<1>3. \E f \in [1..n -> S] : IsInjective(f)
  BY <1>1 DEF ExistsBijection, Bijection, Injection
<1>4. QED
  BY <1>2, <1>3 DEF SetToSeq

\* A caption of the snapshot.
Current == [c : {Caption(k, snapshot[k]) : k \in {k \in Replayed : snapshot[k] > 0}}, last : BOOLEAN]

LEMMA TwoPieces ==
  ASSUME NEW c
  PROVE  /\ Pieces(c) \in Seq([c : {c}, last : BOOLEAN]) /\ Len(Pieces(c)) = 2
         /\ \A a \in 1..2 : Pieces(c)[a].c = c
BY DEF Pieces

LEMMA ReplayCurrent == Replay \in Seq(Current)
<1> DEFINE S == {k \in Replayed : snapshot[k] > 0}
           kept == SetToSeq(S)
           seqs == [i \in DOMAIN kept |-> Pieces(Caption(kept[i], snapshot[kept[i]]))]
<1>1. IsFiniteSet(S)
  <2>1. S \subseteq Kinds
    BY KindsAssumption
  <2> HIDE DEF S
  <2>2. QED
    BY <2>1, KindsAssumption, FS_Subset
<1>2. PICK m \in Nat : kept \in [1..m -> S]
  <2> HIDE DEF S
  <2>1. QED
    BY <1>1, SetInOrder
<1> HIDE DEF kept
<1>3. ASSUME NEW i \in 1..m PROVE Pieces(Caption(kept[i], snapshot[kept[i]])) \in Seq(Current)
  <2>1. kept[i] \in S
    BY <1>2
  <2> DEFINE c == Caption(kept[i], snapshot[kept[i]])
  <2>2. c \in {Caption(k, snapshot[k]) : k \in {k \in Replayed : snapshot[k] > 0}}
    BY <2>1
  <2> HIDE DEF c, S
  <2>3. [c |-> c, last |-> FALSE] \in Current /\ [c |-> c, last |-> TRUE] \in Current
    BY <2>2 DEF Current
  <2>4. Pieces(c) \in Seq(Current)
    BY <2>3 DEF Pieces
  <2>5. QED
    BY <2>4 DEF c
<1>4. seqs \in [1..m -> Seq(Current)]
  BY <1>2, <1>3
<1>5. Replay = FlattenSeq(seqs)
  BY DEF Replay, kept
<1> HIDE DEF seqs
<1>6. QED
  BY <1>4, <1>5, Flattened

(***************************************************************************)
(* The mirror: a step of each participant.                                 *)
(***************************************************************************)
\* How many pieces there are, and what they are.
LEMMA OnItsWay ==
  ASSUME Numbered
  PROVE  /\ Len(feed) \in Nat
         /\ \A a \in 1..Len(feed) : feed[a] \in Piece /\ KindAt(a) \in Kinds /\ NumberAt(a) \in Nat
<1>1. Len(feed) \in Nat /\ \A a \in 1..Len(feed) : feed[a] \in Piece
  BY LenProperties, ElementOfSeq DEF Numbered
<1>2. QED
  BY <1>1 DEF Piece, KindAt, NumberAt

LEMMA SayStep ==
  ASSUME MirrorInv, NEW k \in Kinds, NEW kept \in {None, snapshot},
         Say(k, kept), UNCHANGED <<mirror, browser>>
  PROVE  MirrorInv' /\ Reading!Say
<1> DEFINE n == said[k] + 1
           new == Pieces(Caption(k, n))
<1>1. /\ Numbered /\ kept \in Numbers /\ said[k] \in Nat /\ n \in Nat
      /\ \A j \in Kinds : kept[j] \in {0, said[j]} /\ state[j] <= said[j] /\ said[j] \in Nat
                          /\ state[j] \in Nat /\ (j \notin Replayed => kept[j] = 0)
  BY DEF MirrorInv, Numbered, Numbers, Snapped, None
<1>2. said' = [said EXCEPT ![k] = n] /\ said'[k] = n /\ said' \in Numbers
  BY <1>1 DEF Say, Numbers, Numbered
<1>3. snapshot' = (IF k \in Replayed THEN [kept EXCEPT ![k] = n] ELSE kept) /\ snapshot' \in Numbers
  BY <1>1, <1>2 DEF Say, Numbers
<1>4. feed' \in {feed, feed \o new}
  BY <1>2 DEF Say
<1>5. state' = state /\ page' = page /\ answers' = answers /\ reported' = reported
  BY DEF mirror, browser
<1>6. Reading!Say
  BY <1>2, <1>5 DEF Reading!Say
<1>7. /\ new \in Seq(Piece) /\ Len(new) = 2
      /\ \A a \in 1..2 : new[a].c.kind = k /\ new[a].c.number = n
  BY <1>1 DEF Pieces, Caption, Piece
<1>8. Snapped'
  <2>1. ASSUME NEW j \in Kinds 
        PROVE  /\ snapshot'[j] \in {0, said'[j]} /\ (j \notin Replayed => snapshot'[j] = 0)
               /\ state[j] <= said'[j]
    <3>1. said'[j] = (IF j = k THEN n ELSE said[j]) /\ kept[j] \in {0, said[j]} /\ state[j] <= said[j]
          /\ state[j] \in Nat /\ said[j] \in Nat /\ (j \notin Replayed => kept[j] = 0)
      BY <1>1, <1>2 DEF Numbered, Numbers
    <3>2. kept \in Numbers
      BY <1>1
    <3>3. snapshot'[j] = IF j = k /\ k \in Replayed THEN n ELSE kept[j]
      BY <1>3, <3>2 DEF Numbers
    <3>4. state[j] <= said'[j]
      BY <3>1
    <3>5. QED
      BY <3>1, <3>3, <3>4
  <2>2. QED
    BY <1>5, <2>1 DEF Snapped
<1>9. Shown'
  BY <1>5 DEF MirrorInv, Shown
<1> HIDE DEF n, new
<1>10. CASE feed' = feed
  <2>1. Numbered'
    BY <1>1, <1>2, <1>3, <1>5, <1>10 DEF Numbered
  <2>2. Sent'
    <3>1. \A a \in 1..Len(feed) : KindAt(a)' = KindAt(a) /\ NumberAt(a)' = NumberAt(a)
      BY <1>10 DEF KindAt, NumberAt
    <3>2. \A a \in 1..Len(feed) : said[KindAt(a)] <= said'[KindAt(a)]
      BY <1>1, <1>2, OnItsWay DEF Numbers, n
    <3>3. \A a \in 1..Len(feed) : said[KindAt(a)] \in Nat /\ said'[KindAt(a)] \in Nat /\ NumberAt(a) \in Nat
      BY <1>1, <1>2, OnItsWay DEF Numbers
    <3>4. \A a \in 1..Len(feed') : state'[KindAt(a)'] <= NumberAt(a)' /\ NumberAt(a)' <= said'[KindAt(a)']
      BY <1>5, <1>10, <3>1, <3>2, <3>3 DEF Sent, MirrorInv
    <3>5. \A a, b \in 1..Len(feed') : a <= b /\ KindAt(a)' = KindAt(b)' => NumberAt(a)' <= NumberAt(b)'
      BY <1>10, <3>1 DEF Sent, MirrorInv
    <3>6. QED
      BY <3>4, <3>5 DEF Sent
  <2>3. QED
    BY <1>6, <1>8, <1>9, <2>1, <2>2 DEF MirrorInv
<1>11. CASE feed' = feed \o new
  <2>0. feed \in Seq(Piece)
    BY <1>1 DEF Numbered
  <2>1. /\ feed' \in Seq(Piece) /\ Len(feed') = Len(feed) + 2
        /\ \A a \in 1..(Len(feed) + 2) : feed'[a] = IF a <= Len(feed) THEN feed[a] ELSE new[a - Len(feed)]
    <3>1. /\ feed \o new \in Seq(Piece) /\ Len(feed \o new) = Len(feed) + Len(new)
          /\ \A a \in 1..(Len(feed) + Len(new)) :
               (feed \o new)[a] = IF a <= Len(feed) THEN feed[a] ELSE new[a - Len(feed)]
      BY <1>7, <2>0, ConcatProperties
    <3>2. QED
      BY <1>7, <1>11, <3>1
  <2>2. Numbered'
    BY <1>1, <1>2, <1>3, <1>5, <2>1 DEF Numbered
  <2>3. \A a \in 1..Len(feed) : KindAt(a)' = KindAt(a) /\ NumberAt(a)' = NumberAt(a)
    BY <1>1, <2>1, OnItsWay DEF KindAt, NumberAt
  <2>4. \A a \in 1..(Len(feed) + 2) : ~(a <= Len(feed)) => KindAt(a)' = k /\ NumberAt(a)' = n
    <3> SUFFICES ASSUME NEW a \in 1..(Len(feed) + 2), ~(a <= Len(feed))
                 PROVE  KindAt(a)' = k /\ NumberAt(a)' = n
      OBVIOUS
    <3>1. a - Len(feed) \in 1..2
      BY <1>1, OnItsWay
    <3>2. feed'[a] = new[a - Len(feed)]
      BY <2>1
    <3>3. QED
      BY <1>7, <3>1, <3>2 DEF KindAt, NumberAt
  <2>5. \A a \in 1..Len(feed) :
          /\ state[KindAt(a)] <= NumberAt(a) /\ NumberAt(a) <= said[KindAt(a)]
          /\ said[KindAt(a)] \in Nat /\ said'[KindAt(a)] \in Nat /\ NumberAt(a) \in Nat
          /\ said[KindAt(a)] <= said'[KindAt(a)]
    BY <1>1, <1>2, OnItsWay DEF Numbers, n, Sent, MirrorInv
  <2>6. state[k] <= n /\ said'[k] = n
    BY <1>1, <1>2 DEF n
  <2>7. \A a \in 1..(Len(feed) + 2) :
          state[KindAt(a)'] <= NumberAt(a)' /\ NumberAt(a)' <= said'[KindAt(a)']
    <3> SUFFICES ASSUME NEW a \in 1..(Len(feed) + 2)
                 PROVE  state[KindAt(a)'] <= NumberAt(a)' /\ NumberAt(a)' <= said'[KindAt(a)']
      OBVIOUS
    <3>1. CASE a <= Len(feed)
      <4>1. a \in 1..Len(feed)
        BY <1>1, <3>1, OnItsWay
      <4>2. QED
        BY <2>3, <2>5, <4>1
    <3>2. CASE ~(a <= Len(feed))
      BY <1>1, <2>4, <2>6, <3>2
    <3>3. QED
      BY <3>1, <3>2
  <2>8. \A a, b \in 1..(Len(feed) + 2) : a <= b /\ KindAt(a)' = KindAt(b)' => NumberAt(a)' <= NumberAt(b)'
    <3> SUFFICES ASSUME NEW a \in 1..(Len(feed) + 2), NEW b \in 1..(Len(feed) + 2),
                        a <= b, KindAt(a)' = KindAt(b)'
                 PROVE  NumberAt(a)' <= NumberAt(b)'
      OBVIOUS
    <3>1. CASE b <= Len(feed)
      <4>1. a \in 1..Len(feed) /\ b \in 1..Len(feed)
        BY <1>1, <3>1, OnItsWay
      <4>2. QED
        BY <2>3, <4>1 DEF Sent, MirrorInv
    <3>2. CASE ~(b <= Len(feed)) /\ a <= Len(feed)
      <4>1. a \in 1..Len(feed)
        BY <1>1, <3>2, OnItsWay
      <4>2. KindAt(b)' = k /\ NumberAt(b)' = n
        BY <2>4, <3>2
      <4>3. NumberAt(a) <= said[k] /\ NumberAt(a) \in Nat
        BY <2>3, <2>5, <4>1, <4>2
      <4>4. QED
        BY <1>1, <2>3, <4>1, <4>2, <4>3 DEF n
    <3>3. CASE ~(b <= Len(feed)) /\ ~(a <= Len(feed))
      BY <1>1, <2>4, <3>3
    <3>4. QED
      BY <3>1, <3>2, <3>3
  <2>9. Sent'
    <3>1. \A a \in 1..Len(feed)' : state'[KindAt(a)'] <= NumberAt(a)' /\ NumberAt(a)' <= said'[KindAt(a)']
      BY <1>5, <2>1, <2>7
    <3>2. \A a, b \in 1..Len(feed)' : a <= b /\ KindAt(a)' = KindAt(b)' => NumberAt(a)' <= NumberAt(b)'
      BY <2>1, <2>8
    <3>3. QED
      BY <3>1, <3>2 DEF Sent
  <2>10. QED
    BY <1>6, <1>8, <1>9, <2>2, <2>9 DEF MirrorInv
<1>12. QED
  BY <1>4, <1>10, <1>11

LEMMA NothingSent == ASSUME feed' = <<>> PROVE Sent' /\ feed' \in Seq(Piece)
BY DEF Sent

\* A stop of the orchestrator, and what the reader does without a caption.
LEMMA StopStep ==
  ASSUME MirrorInv, Stop \/ LoseSocket \/ Sleep
  PROVE  MirrorInv' /\ UNCHANGED <<said, page>>
<1>1. /\ said' = said /\ snapshot' = snapshot /\ state' = state
      /\ reported' \in {reported, FALSE} /\ answers' = answers /\ page' = page
      /\ feed' \in {feed, <<>>}
  BY DEF Stop, LoseSocket, Sleep, orchestrator, socket, mirror, browser
<1>2. Numbered'
  BY <1>1, NothingSent DEF MirrorInv, Numbered
<1>3. Snapped' /\ Shown'
  BY <1>1 DEF MirrorInv, Snapped, Shown
<1>4. Sent'
  BY <1>1, NothingSent DEF MirrorInv, Sent, KindAt, NumberAt
<1>5. QED
  BY <1>1, <1>2, <1>3, <1>4 DEF MirrorInv

LEMMA ConnectStep ==
  ASSUME MirrorInv, Connect
  PROVE  MirrorInv' /\ UNCHANGED <<said, page>>
<1>1. /\ said' = said /\ snapshot' = snapshot /\ state' = state
      /\ reported' = TRUE /\ answers' = answers /\ page' = page
      /\ feed' = Replay
  BY DEF Connect, orchestrator, browser
<1>2. feed' \in Seq(Current)
  BY <1>1, ReplayCurrent
<1>3. Len(feed') \in Nat /\ feed' \in [1..Len(feed') -> Current]
  BY <1>2, LenProperties
<1>4. \A k \in Replayed : k \in Kinds /\ snapshot[k] \in Nat /\ said[k] \in Nat
                          /\ (snapshot[k] > 0 => snapshot[k] = said[k] /\ state[k] <= said[k])
  BY KindsAssumption DEF MirrorInv, Numbered, Numbers, Snapped
<1>5. \A a \in 1..Len(feed') :
        /\ feed'[a] \in Piece
        /\ KindAt(a)' \in Kinds /\ NumberAt(a)' = said[KindAt(a)']
        /\ state[KindAt(a)'] <= NumberAt(a)'
  <2> SUFFICES ASSUME NEW a \in 1..Len(feed')
               PROVE  /\ feed'[a] \in Piece
                      /\ KindAt(a)' \in Kinds /\ NumberAt(a)' = said[KindAt(a)']
                      /\ state[KindAt(a)'] <= NumberAt(a)'
    OBVIOUS
  <2>1. feed'[a] \in Current
    BY <1>3
  <2>2. PICK k \in Replayed : snapshot[k] > 0 /\ feed'[a].c = Caption(k, snapshot[k])
    BY <2>1 DEF Current
  <2>3. feed'[a] = [c |-> feed'[a].c, last |-> feed'[a].last] /\ feed'[a].last \in BOOLEAN
    BY <2>1 DEF Current
  <2>4. KindAt(a)' = k /\ NumberAt(a)' = snapshot[k]
    BY <2>2 DEF KindAt, NumberAt, Caption
  <2>5. feed'[a].c \in [kind : Kinds, number : Nat]
    BY <1>4, <2>2 DEF Caption
  <2>6. QED
    BY <1>4, <2>2, <2>3, <2>4, <2>5 DEF Piece
<1>6. feed' \in Seq(Piece)
  BY <1>3, <1>5
<1>7. Numbered'
  BY <1>1, <1>6 DEF MirrorInv, Numbered
<1>8. Snapped' /\ Shown'
  BY <1>1 DEF MirrorInv, Snapped, Shown
<1>9. \A k \in Kinds : said[k] \in Nat
  BY DEF MirrorInv, Numbered, Numbers
<1>10. Sent'
  BY <1>1, <1>5, <1>9 DEF Sent
<1>11. QED
  BY <1>1, <1>7, <1>8, <1>10 DEF MirrorInv

LEMMA RecvStep ==
  ASSUME MirrorInv, Recv
  PROVE  MirrorInv' /\ UNCHANGED <<said, page>>
<1> DEFINE k == KindAt(1)
           n == NumberAt(1)
<1>1. /\ said' = said /\ snapshot' = snapshot /\ reported' = reported
      /\ answers' = answers /\ page' = page
      /\ feed # <<>> /\ feed' = Tail(feed)
      /\ state' \in {state, Learn(state, Head(feed).c)}
  BY DEF Recv, orchestrator, browser
<1>2. feed \in Seq(Piece)
  BY DEF MirrorInv, Numbered
<1>3. Len(feed) \in Nat \ {0} /\ 1 \in 1..Len(feed)
  BY <1>1, <1>2, EmptySeq
<1>4. /\ feed' \in Seq(Piece) /\ Len(feed') = Len(feed) - 1
      /\ \A a \in 1..(Len(feed) - 1) : feed'[a] = feed[a + 1]
  BY <1>1, <1>2, HeadTailProperties
<1>5. Head(feed).c.kind = k /\ Head(feed).c.number = n
  BY <1>1, <1>2, <1>3 DEF KindAt, NumberAt
<1>6. \A a \in 1..Len(feed) : KindAt(a) \in Kinds /\ NumberAt(a) \in Nat
  BY OnItsWay DEF MirrorInv
<1>7. \A j \in Kinds : state[j] \in Nat /\ said[j] \in Nat /\ page.state[j] \in Nat
                       /\ state[j] <= said[j] /\ page.state[j] <= state[j]
  BY DEF MirrorInv, Numbered, Numbers, Answer, Snapped, Shown
<1>8. k \in Kinds /\ n \in Nat /\ state[k] <= n /\ n <= said[k]
  BY <1>3, <1>6 DEF MirrorInv, Sent
<1>9. state' = state \/ state' = [state EXCEPT ![k] = n]
  BY <1>1, <1>5 DEF Learn
<1> HIDE DEF k, n
<1>10. state' \in Numbers /\ \A j \in Kinds : state'[j] \in Nat /\ state[j] <= state'[j] /\ state'[j] <= said[j]
  <2>1. state \in Numbers
    BY DEF MirrorInv, Numbered
  <2>2. QED
    BY <1>7, <1>8, <1>9, <2>1 DEF Numbers
<1>11. Numbered'
  BY <1>1, <1>4, <1>10 DEF MirrorInv, Numbered
<1>12. Snapped'
  BY <1>1, <1>10 DEF MirrorInv, Snapped
<1>13. Shown'
  <2>1. \A j \in Kinds : page.state[j] <= state'[j]
    BY <1>7, <1>10
  <2>2. \A i \in 1..Len(answers) : \A j \in Kinds :
          answers[i].state[j] \in Nat /\ answers[i].state[j] <= state[j] /\ page.state[j] <= answers[i].state[j]
    <3>1. \A i \in 1..Len(answers) : answers[i] \in Answer
      BY ElementOfSeq DEF MirrorInv, Numbered
    <3>2. QED
      BY <3>1 DEF MirrorInv, Shown, Answer, Numbers
  <2>3. \A i \in 1..Len(answers) : \A j \in Kinds : answers[i].state[j] <= state'[j]
    BY <1>7, <1>10, <2>2
  <2>4. QED
    BY <1>1, <2>1, <2>2, <2>3 DEF MirrorInv, Shown
<1>14. Sent'
  <2>1. \A a \in 1..(Len(feed) - 1) : KindAt(a)' = KindAt(a + 1) /\ NumberAt(a)' = NumberAt(a + 1)
    BY <1>4 DEF KindAt, NumberAt
  <2>2. \A a \in 1..(Len(feed) - 1) : a + 1 \in 1..Len(feed) /\ 1 <= a + 1
    BY <1>3
  <2>3. \A a \in 1..Len(feed) : KindAt(a) = k => n <= NumberAt(a)
    BY <1>3 DEF MirrorInv, Sent, k, n
  <2>4. \A a \in 1..Len(feed) : state'[KindAt(a)] <= NumberAt(a)
    <3>1. TAKE a \in 1..Len(feed)
    <3>2. state[KindAt(a)] <= NumberAt(a) /\ KindAt(a) \in Kinds
      BY <1>6 DEF MirrorInv, Sent
    <3>3. state \in [Kinds -> Nat]
      BY DEF MirrorInv, Numbered, Numbers
    <3>4. QED
      BY <1>8, <1>9, <2>3, <3>2, <3>3
  <2>5. \A a \in 1..(Len(feed) - 1) :
          state'[KindAt(a)'] <= NumberAt(a)' /\ NumberAt(a)' <= said[KindAt(a)']
    BY <2>1, <2>2, <2>4 DEF MirrorInv, Sent
  <2>6. \A a, b \in 1..(Len(feed) - 1) : a <= b /\ KindAt(a)' = KindAt(b)' => NumberAt(a)' <= NumberAt(b)'
    <3>1. TAKE a \in 1..(Len(feed) - 1), b \in 1..(Len(feed) - 1)
    <3>2. HAVE a <= b /\ KindAt(a)' = KindAt(b)'
    <3>3. a + 1 <= b + 1
      BY <3>2
    <3>4. QED
      BY <2>1, <2>2, <3>2, <3>3 DEF MirrorInv, Sent
  <2>7. QED
    BY <1>1, <1>4, <2>5, <2>6 DEF Sent
<1>15. QED
  BY <1>1, <1>11, <1>12, <1>13, <1>14 DEF MirrorInv

\* The page.
LEMMA PageSteps ==
  ASSUME MirrorInv, PageStep \/ Lose
  PROVE  MirrorInv' /\ said' = said /\ \A k \in Kinds : page.state[k] <= page'.state[k]
<1>1. /\ said' = said /\ snapshot' = snapshot /\ state' = state /\ feed' = feed
      /\ reported' = reported
  BY DEF PageStep, Poll, Show, Lose, orchestrator, socket, mirror
<1>2. Snapped'
  BY <1>1 DEF MirrorInv, Snapped
<1>3. Sent'
  BY <1>1 DEF MirrorInv, Sent, KindAt, NumberAt
<1>4. /\ answers \in Seq(Answer) /\ Len(answers) \in Nat /\ DOMAIN answers = 1..Len(answers)
      /\ \A i \in 1..Len(answers) : answers[i] \in Answer
  <2>1. answers \in Seq(Answer)
    BY DEF MirrorInv, Numbered
  <2>2. QED
    BY <2>1, LenProperties, ElementOfSeq
<1>5. state \in Numbers /\ reported \in BOOLEAN /\ page \in Answer
  BY DEF MirrorInv, Numbered
<1>6. \A k \in Kinds : state[k] \in Nat /\ page.state[k] \in Nat /\ page.state[k] <= state[k]
  BY <1>5 DEF MirrorInv, Shown, Numbers, Answer
<1>7. CASE Poll
  <2> DEFINE now == [state |-> state, connected |-> reported]
  <2>1. answers' = <<now>> /\ page' = page /\ now \in Answer
    BY <1>5, <1>7 DEF Poll, Answer
  <2> HIDE DEF now
  <2>2. answers' \in Seq(Answer) /\ Len(answers') = 1 /\ answers'[1] = now
    BY <2>1
  <2>3. now.state = state
    BY DEF now
  <2>4. Shown'
    BY <1>1, <1>6, <2>1, <2>2, <2>3 DEF Shown
  <2>5. Numbered'
    BY <1>1, <2>1, <2>2 DEF MirrorInv, Numbered
  <2>6. QED
    BY <1>1, <1>2, <1>3, <1>6, <2>1, <2>4, <2>5 DEF MirrorInv
<1>8. CASE Show
  <2>1. PICK i \in DOMAIN answers : page' = answers[i] /\ answers' = RemoveAt(answers, i)
    BY <1>8 DEF Show
  <2>2. i \in 1..Len(answers) /\ Len(answers) = 1
    <3>1. Len(answers) <= 1
      BY DEF MirrorInv, Shown
    <3>2. QED
      BY <1>4, <2>1, <3>1
  <2>3. answers' \in Seq(Answer) /\ Len(answers') = 0
    <3>1. RemoveAt(answers, i) \in Seq(Answer) /\ Without(RemoveAt(answers, i), answers, i)
      BY <1>4, <2>2, Removed
    <3>2. QED
      BY <2>1, <2>2, <3>1 DEF Without
  <2>4. page' \in Answer /\ \A k \in Kinds : page.state[k] <= page'.state[k] /\ page'.state[k] <= state[k]
    BY <1>4, <2>1, <2>2 DEF MirrorInv, Shown
  <2>5. Shown'
    BY <1>1, <2>3, <2>4 DEF Shown
  <2>6. Numbered'
    BY <1>1, <2>3, <2>4 DEF MirrorInv, Numbered
  <2>7. QED
    BY <1>1, <1>2, <1>3, <2>4, <2>5, <2>6 DEF MirrorInv
<1>9. CASE Lose
  <2>1. answers # <<>> /\ answers' = Tail(answers) /\ page' = page
    BY <1>9 DEF Lose
  <2>2. answers' \in Seq(Answer) /\ Len(answers') = Len(answers) - 1
    BY <1>4, <2>1, HeadTailProperties
  <2>3. Len(answers') \in Nat /\ Len(answers') <= 0
    BY <1>4, <2>2, LenProperties DEF MirrorInv, Shown
  <2>4. Shown'
    BY <1>1, <2>1, <2>3 DEF MirrorInv, Shown
  <2>5. Numbered'
    BY <1>1, <2>1, <2>2 DEF MirrorInv, Numbered
  <2>6. QED
    BY <1>1, <1>2, <1>3, <1>6, <2>1, <2>4, <2>5 DEF MirrorInv
<1>10. QED
  BY <1>7, <1>8, <1>9 DEF PageStep

LEMMA MirrorInitInv == MirrorInit => MirrorInv /\ Reading!Init
<1> SUFFICES ASSUME MirrorInit PROVE MirrorInv /\ Reading!Init
  OBVIOUS
<1>1. None \in Numbers /\ \A k \in Kinds : None[k] = 0
  BY DEF None, Numbers
<1>2. /\ said = None /\ snapshot = None /\ state = None /\ feed = <<>> /\ answers = <<>>
      /\ reported = FALSE /\ page = [state |-> None, connected |-> FALSE]
  BY DEF MirrorInit
<1>3. Reading!Init
  BY <1>2 DEF Reading!Init, None
<1> HIDE DEF None
<1>4. Numbered
  <2>1. page \in Answer
    BY <1>1, <1>2 DEF Answer
  <2>2. feed \in Seq(Piece) /\ answers \in Seq(Answer)
    BY <1>2, EmptySeq
  <2>3. QED
    BY <1>1, <1>2, <2>1, <2>2 DEF Numbered
<1>5. Snapped /\ Sent /\ Shown
  BY <1>1, <1>2 DEF Snapped, Sent, Shown
<1>6. QED
  BY <1>3, <1>4, <1>5 DEF MirrorInv

\* A step of the chain is the orchestrator's Say, the page's See, or nothing
\* to a reader.
LEMMA MirrorStep ==
  ASSUME MirrorInv, [MirrorNext]_mirrorVars
  PROVE  MirrorInv' /\ [Reading!Next]_(Reading!captionVars)
<1> USE DEF Reading!captionVars
<1>1. CASE Start
  <2>1. Greeting \in Kinds
    BY KindsAssumption
  <2>2. QED
    BY <1>1, <2>1, SayStep DEF Start, Reading!Next
<1>2. CASE \E k \in Kinds : Broadcast(k)
  BY <1>2, SayStep DEF Broadcast, Reading!Next
<1>3. CASE Stop \/ ReaderStep
  BY <1>3, StopStep, ConnectStep, RecvStep DEF ReaderStep
<1>4. CASE PageStep \/ Lose
  <2>1. MirrorInv' /\ said' = said /\ \A k \in Kinds : page.state[k] <= page'.state[k]
    BY <1>4, PageSteps
  <2>2. page'.state \in [Kinds -> Nat]
    BY <2>1 DEF MirrorInv, Numbered, Answer, Numbers
  <2>3. \A k \in Kinds : page'.state[k] <= said[k]
    <3>1. TAKE k \in Kinds
    <3>2. page'.state[k] <= state'[k] /\ state'[k] <= said'[k]
      BY <2>1 DEF MirrorInv, Shown, Snapped
    <3>3. page'.state[k] \in Nat /\ state'[k] \in Nat /\ said'[k] \in Nat
      BY <2>1, <2>2 DEF MirrorInv, Numbered, Numbers
    <3>4. QED
      BY <2>1, <3>2, <3>3
  <2>4. Reading!See
    BY <2>1, <2>2, <2>3 DEF Reading!See
  <2>5. QED
    BY <2>1, <2>4 DEF Reading!Next
<1>5. CASE UNCHANGED mirrorVars
  <2>1. /\ said' = said /\ snapshot' = snapshot /\ state' = state /\ feed' = feed
        /\ reported' = reported /\ answers' = answers /\ page' = page
    BY <1>5 DEF mirrorVars, orchestrator, socket, mirror, browser
  <2>2. QED
    BY <2>1 DEF MirrorInv, Numbered, Snapped, Sent, Shown, KindAt, NumberAt
<1>6. QED
  BY <1>1, <1>2, <1>3, <1>4, <1>5 DEF MirrorNext

\* The page only ever shows captions that were current, and never an older
\* one after a newer: the orchestrator, socket, bridge and page implement
\* module Caption, whatever is cut, lost, replayed or late, for any kinds of
\* captions and any number of them.
THEOREM AlwaysForward == MirrorSpec => NeverGoesBack
<1>1. MirrorSpec => []MirrorInv
  BY MirrorInitInv, MirrorStep, PTL DEF MirrorSpec
<1>2. MirrorInit => Reading!Init
  BY MirrorInitInv
<1>3. MirrorInv /\ [MirrorNext]_mirrorVars => [Reading!Next]_(Reading!captionVars)
  BY MirrorStep
<1>4. QED
  BY <1>1, <1>2, <1>3, PTL DEF MirrorSpec, NeverGoesBack, Reading!Spec
=============================================================================
