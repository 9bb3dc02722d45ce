-------------------------- MODULE IpcServerProofs --------------------------
(***************************************************************************)
(* What module IpcServer promises for any number of connections,           *)
(* descriptors, types of lines and broadcasts: a client is shown what is   *)
(* current and then every line. The proof has a part about the replay      *)
(* (Replayed goes through the types one by one, so this is an induction    *)
(* on their number), one about who owns a descriptor (Own), and one about  *)
(* how far each client is behind (Feeding).                                *)
(***************************************************************************)
EXTENDS IpcServer, SequenceTheorems, WellFoundedInduction, TLAPS

(***************************************************************************)
(* Induction, for a set of numbers rather than a predicate.                *)
(***************************************************************************)
LEMMA NumbersReached ==
  ASSUME NEW G, 0 \in G, \A n \in Nat : n \in G => n + 1 \in G
  PROVE  \A n \in Nat : n \in G
<1> DEFINE Missing == Nat \ G
<1>1. SUFFICES ASSUME Missing # {} PROVE FALSE
  OBVIOUS
<1>2. PICK n \in Missing : \A m \in Missing : <<m, n>> \notin OpToRel(<, Nat)
  <2>1. Missing \subseteq Nat
    OBVIOUS
  <2> HIDE DEF Missing
  <2>2. QED
    BY <1>1, <2>1, NatLessThanWellFounded, WFMin
<1>3. \A m \in Missing : ~(m < n)
  BY <1>2 DEF OpToRel
<1>4. n \in Nat /\ n # 0
  OBVIOUS
<1>5. n - 1 \in Nat /\ n - 1 < n /\ (n - 1) + 1 = n
  BY <1>4
<1>6. n - 1 \in G
  BY <1>3, <1>5
<1>7. QED
  BY <1>2, <1>5, <1>6

(***************************************************************************)
(* The replay.                                                             *)
(***************************************************************************)
Count == Len(CachedOrder)
Line(i) == <<CachedOrder[i], snapshot[CachedOrder[i]]>>
Kept(i) == snapshot[CachedOrder[i]] # None

\* One type more.
More(shown, i) == IF Kept(i) THEN Append(shown, Line(i)) ELSE shown

LEMMA CountType == Count \in Nat /\ \A i \in 1..Count : CachedOrder[i] \in Cached
BY CachedOrderAssumption, LenProperties, ElementOfSeq DEF Count

\* The recursion is well founded: there is such a function up to any number.
LEMMA ReplayedExists ==
  \A n \in Nat : \E g : g = [i \in 0..n |-> IF i = 0 THEN <<>> ELSE More(g[i - 1], i)]
<1> DEFINE Is(g, n) == g = [i \in 0..n |-> IF i = 0 THEN <<>> ELSE More(g[i - 1], i)]
           G == {n \in Nat : \E g : Is(g, n)}
<1>1. 0 \in G
  <2> DEFINE g == [i \in 0..0 |-> <<>>]
  <2>1. \A i \in 0..0 : i = 0
    OBVIOUS
  <2>2. g = [i \in 0..0 |-> IF i = 0 THEN <<>> ELSE More(g[i - 1], i)]
    BY <2>1
  <2>3. QED
    BY <2>2
<1>2. ASSUME NEW n \in Nat, n \in G PROVE n + 1 \in G
  <2>1. PICK g : Is(g, n)
    BY <1>2
  <2> DEFINE h == [i \in 0..(n + 1) |-> IF i = n + 1 THEN More(g[n], i) ELSE g[i]]
  <2>2. \A i \in 0..(n + 1) : h[i] = IF i = 0 THEN <<>> ELSE More(h[i - 1], i)
    <3> TAKE i \in 0..(n + 1)
    <3>1. CASE i = n + 1
      <4>1. i # 0 /\ i - 1 = n /\ n \in 0..(n + 1) /\ n # n + 1
        BY <3>1
      <4>2. h[i] = More(g[n], i) /\ h[n] = g[n]
        BY <3>1, <4>1
      <4>3. QED
        BY <4>1, <4>2
    <3>2. CASE i # n + 1
      <4>1. i \in 0..n
        BY <3>2
      <4>2. h[i] = g[i]
        BY <3>2
      <4>3. CASE i = 0
        BY <2>1, <4>1, <4>2, <4>3
      <4>4. CASE i # 0
        <5>1. i - 1 \in 0..(n + 1) /\ i - 1 # n + 1
          BY <4>1, <4>4
        <5>2. h[i - 1] = g[i - 1]
          BY <5>1
        <5>3. g[i] = More(g[i - 1], i)
          BY <2>1, <4>1, <4>4
        <5>4. QED
          BY <4>2, <4>4, <5>2, <5>3
      <4>5. QED
        BY <4>3, <4>4
    <3>3. QED
      BY <3>1, <3>2
  <2>3. h = [i \in 0..(n + 1) |-> h[i]]
    OBVIOUS
  <2>4. Is(h, n + 1)
    <3> HIDE DEF h
    <3>1. QED
      BY <2>2, <2>3
  <2> HIDE DEF h, Is
  <2>5. \E k : Is(k, n + 1)
    BY <2>4
  <2>6. QED
    BY <2>5
<1> HIDE DEF G
<1>3. \A n \in Nat : n \in G
  BY <1>1, <1>2, NumbersReached
<1>4. QED
  BY <1>3 DEF G

LEMMA ReplayedStep ==
  /\ Replayed[0] = <<>>
  /\ \A i \in 1..Count : Replayed[i] = More(Replayed[i - 1], i)
<1>1. Replayed = [i \in 0..Count |-> IF i = 0 THEN <<>> ELSE More(Replayed[i - 1], i)]
  <2>1. \E g : g = [i \in 0..Count |-> IF i = 0 THEN <<>> ELSE More(g[i - 1], i)]
    BY ReplayedExists, CountType
  <2>2. QED
    BY <2>1 DEF Replayed, More, Kept, Line, Count
<1>2. 0 \in 0..Count /\ \A i \in 1..Count : i \in 0..Count /\ i # 0
  BY CountType
<1> HIDE DEF Replayed
<1>3. QED
  BY <1>1, <1>2

\* A line of the protocol has a type and says something.
LEMMA LineParts ==
  ASSUME NEW line \in Lines
  PROVE  line = <<line[1], line[2]>> /\ line[2] \in Values /\ line[2] # None
<1>1. PICK t \in Cached \cup Uncached : line \in {t} \X Says[t]
  BY DEF Lines
<1>2. line = <<line[1], line[2]>> /\ line[2] \in Says[t]
  BY <1>1
<1>3. line[2] \in Values
  BY <1>2 DEF Values
<1>4. QED
  BY <1>2, <1>3, NoneAssumption

\* The snapshot is what was said last of each cached type.
Snap ==
  \A t \in Cached :
    IF snapshot[t] = None
    THEN \A j \in DOMAIN log : log[j][1] # t
    ELSE Latest(<<t, snapshot[t]>>, log)

\* What the replay of the first n types shows.
Follows(shown, i, j, n) == \E a, b \in 1..n : a < b /\ shown[i] = Line(a) /\ shown[j] = Line(b)
Shows(shown, n) ==
  /\ shown \in Seq(Lines)
  /\ \A i \in 1..Len(shown) : \E a \in 1..n : Kept(a) /\ shown[i] = Line(a)
  /\ \A a \in 1..n : Kept(a) => \E i \in 1..Len(shown) : shown[i] = Line(a)
  /\ \A i, j \in 1..Len(shown) : i < j => Follows(shown, i, j, n)

LEMMA KeptLine ==
  ASSUME Snap, log \in Seq(Lines), NEW a \in 1..Count, Kept(a)
  PROVE  Line(a) \in Lines /\ Latest(Line(a), log)
<1>1. CachedOrder[a] \in Cached
  BY CountType
<1>2. Latest(Line(a), log)
  BY <1>1 DEF Snap, Kept, Line
<1>3. PICK i \in 1..Len(log) : log[i] = Line(a)
  BY <1>2, LenProperties DEF Latest
<1>4. QED
  BY <1>2, <1>3, ElementOfSeq

LEMMA MoreShows ==
  ASSUME Snap, log \in Seq(Lines), NEW n \in Nat, n + 1 \in 1..Count,
         NEW shown, Shows(shown, n)
  PROVE  Shows(More(shown, n + 1), n + 1)
<1>0. /\ shown \in Seq(Lines) /\ Len(shown) \in Nat
      /\ \A a \in 1..n : a \in 1..(n + 1) /\ a < n + 1
      /\ n + 1 \in 1..(n + 1)
      /\ \A a \in 1..(n + 1) : a \in 1..n \/ a = n + 1
  BY LenProperties DEF Shows
<1>1. CASE ~Kept(n + 1)
  <2>1. More(shown, n + 1) = shown
    BY <1>1 DEF More
  <2>2. /\ \A i \in 1..Len(shown) : \E a \in 1..(n + 1) : Kept(a) /\ shown[i] = Line(a)
        /\ \A i, j \in 1..Len(shown) : i < j => Follows(shown, i, j, n + 1)
    <3>1. \A i \in 1..Len(shown) : \E a \in 1..(n + 1) : Kept(a) /\ shown[i] = Line(a)
      BY <1>0, Zenon DEF Shows
    <3>2. \A i, j \in 1..Len(shown) : Follows(shown, i, j, n) => Follows(shown, i, j, n + 1)
      BY <1>0, Zenon DEF Follows
    <3>3. QED
      BY <3>1, <3>2, Zenon DEF Shows
  <2>3. \A a \in 1..(n + 1) : Kept(a) => \E i \in 1..Len(shown) : shown[i] = Line(a)
    BY <1>0, <1>1 DEF Shows
  <2>4. QED
    BY <1>0, <2>1, <2>2, <2>3, Zenon DEF Shows
<1>2. CASE Kept(n + 1)
  <2> DEFINE new == Append(shown, Line(n + 1))
             len == Len(shown)
  <2>1. More(shown, n + 1) = new
    BY <1>2 DEF More
  <2>2. /\ new \in Seq(Lines) /\ Len(new) = len + 1 /\ new[len + 1] = Line(n + 1)
        /\ \A i \in 1..len : new[i] = shown[i]
    BY <1>0, <1>2, KeptLine, AppendProperties
  <2>3. /\ len \in Nat /\ len + 1 \in 1..(len + 1)
        /\ \A i \in 1..len : i \in 1..(len + 1)
        /\ \A i \in 1..(len + 1) : i \in 1..len \/ i = len + 1
        /\ \A i, j \in 1..(len + 1) : i < j => i \in 1..len
    BY <1>0
  <2>4. /\ \A i \in 1..len : \E a \in 1..n : Kept(a) /\ shown[i] = Line(a)
        /\ \A a \in 1..n : Kept(a) => \E i \in 1..len : shown[i] = Line(a)
        /\ \A i, j \in 1..len : i < j => Follows(shown, i, j, n)
    BY DEF Shows
  <2> HIDE DEF new, len
  <2>5. \A i \in 1..(len + 1) : \E a \in 1..(n + 1) : Kept(a) /\ new[i] = Line(a)
    <3> TAKE i \in 1..(len + 1)
    <3>1. CASE i \in 1..len
      BY <1>0, <2>2, <2>4, <3>1, Zenon
    <3>2. CASE i = len + 1
      BY <1>0, <1>2, <2>2, <3>2
    <3>3. QED
      BY <2>3, <3>1, <3>2
  <2>6. \A a \in 1..(n + 1) : Kept(a) => \E i \in 1..(len + 1) : new[i] = Line(a)
    BY <1>0, <1>2, <2>2, <2>3, <2>4
  <2>7. ASSUME NEW i \in 1..(len + 1), NEW j \in 1..(len + 1), i < j
        PROVE  Follows(new, i, j, n + 1)
    <3>1. i \in 1..len
      BY <2>3, <2>7
    <3>2. CASE j \in 1..len
      <4>1. Follows(shown, i, j, n) /\ new[i] = shown[i] /\ new[j] = shown[j]
        BY <2>2, <2>4, <2>7, <3>1, <3>2
      <4>2. QED
        BY <1>0, <4>1, Zenon DEF Follows
    <3>3. CASE j = len + 1
      <4>1. PICK a \in 1..n : shown[i] = Line(a)
        BY <2>4, <3>1
      <4>2. a \in 1..(n + 1) /\ a < n + 1 /\ new[i] = Line(a) /\ new[j] = Line(n + 1)
        BY <1>0, <2>2, <3>1, <3>3, <4>1
      <4>3. QED
        BY <1>0, <4>2, Zenon DEF Follows
    <3>4. QED
      BY <2>3, <3>2, <3>3
  <2>8. QED
    <3>1. Len(new) = len + 1 /\ new \in Seq(Lines)
      BY <2>2
    <3>2. QED
      BY <2>1, <3>1, <2>5, <2>6, <2>7, Zenon DEF Shows
<1>3. QED
  BY <1>1, <1>2

LEMMA ReplayShows == ASSUME Snap, log \in Seq(Lines) PROVE Shows(Replay, Count)
<1> DEFINE G == {n \in Nat : n <= Count => Shows(Replayed[n], n)}
<1>1. 0 \in G
  <2>1. <<>> \in Seq(Lines) /\ Len(<<>>) = 0
    BY EmptySeq
  <2>2. Shows(<<>>, 0)
    BY <2>1 DEF Shows
  <2>3. QED
    BY <2>2, ReplayedStep
<1>2. ASSUME NEW n \in Nat, n \in G PROVE n + 1 \in G
  <2> SUFFICES ASSUME n + 1 <= Count PROVE Shows(Replayed[n + 1], n + 1)
    OBVIOUS
  <2>1. n + 1 \in 1..Count /\ n <= Count /\ (n + 1) - 1 = n
    BY CountType
  <2>2. Shows(Replayed[n], n)
    BY <1>2, <2>1
  <2>3. Replayed[n + 1] = More(Replayed[n], n + 1)
    BY <2>1, ReplayedStep
  <2>4. QED
    BY <2>1, <2>2, <2>3, MoreShows
<1> HIDE DEF G
<1>3. Count \in G
  BY <1>1, <1>2, NumbersReached, CountType
<1>4. Shows(Replayed[Count], Count)
  BY <1>3, CountType DEF G
<1>5. QED
  BY <1>4 DEF Replay, Count

\* A client that joins is shown what is current.
LEMMA ReplayCurrent ==
  ASSUME Snap, log \in Seq(Lines)
  PROVE  Replay \in Seq(Lines) /\ Current(Replay, log)
<1>1. Shows(Replay, Count)
  BY ReplayShows
<1> DEFINE len == Len(Replay)
<1>2. Replay \in Seq(Lines) /\ len \in Nat /\ DOMAIN Replay = 1..len
  BY <1>1, LenProperties DEF Shows
<1>3. DOMAIN CachedOrder = 1..Count /\ \A a \in 1..Count : CachedOrder[a] \in Cached
  BY CountType, CachedOrderAssumption, LenProperties DEF Count
<1>4. \A a \in 1..Count : Line(a)[1] = CachedOrder[a]
  BY DEF Line
<1>5. /\ \A i \in 1..len : \E a \in 1..Count : Kept(a) /\ Replay[i] = Line(a)
      /\ \A a \in 1..Count : Kept(a) => \E i \in 1..len : Replay[i] = Line(a)
      /\ \A i, j \in 1..len : i < j => Follows(Replay, i, j, Count)
  BY <1>1 DEF Shows
<1> HIDE DEF len
<1>6. \A i \in 1..len : Replay[i][1] \in Cached /\ Latest(Replay[i], log)
  BY <1>3, <1>4, <1>5, KeptLine
<1>7. ASSUME NEW j \in DOMAIN log, log[j][1] \in Cached
      PROVE  \E i \in 1..len : Replay[i][1] = log[j][1]
  <2>1. PICK a \in 1..Count : CachedOrder[a] = log[j][1]
    BY <1>3, <1>7 DEF Cached
  <2>2. Kept(a)
    BY <1>3, <2>1 DEF Snap, Kept
  <2>3. QED
    BY <1>4, <1>5, <2>1, <2>2
<1>8. ASSUME NEW i \in 1..len, NEW j \in 1..len, i < j
      PROVE  \E a, b \in 1..Count :
               a < b /\ CachedOrder[a] = Replay[i][1] /\ CachedOrder[b] = Replay[j][1]
  <2>1. PICK a \in 1..Count, b \in 1..Count : a < b /\ Replay[i] = Line(a) /\ Replay[j] = Line(b)
    BY <1>5, <1>8 DEF Follows
  <2>2. CachedOrder[a] = Replay[i][1] /\ CachedOrder[b] = Replay[j][1]
    BY <1>4, <2>1
  <2>3. QED
    BY <2>1, <2>2
<1>9. Current(Replay, log)
  <2>1. \A i \in DOMAIN Replay : Replay[i][1] \in Cached /\ Latest(Replay[i], log)
    BY <1>2, <1>6
  <2>2. \A j \in DOMAIN log :
          log[j][1] \in Cached => \E i \in DOMAIN Replay : Replay[i][1] = log[j][1]
    BY <1>2, <1>7
  <2>3. ASSUME NEW i \in DOMAIN Replay, NEW j \in DOMAIN Replay, i < j
        PROVE  \E a, b \in DOMAIN CachedOrder :
                 a < b /\ CachedOrder[a] = Replay[i][1] /\ CachedOrder[b] = Replay[j][1]
    <3>1. i \in 1..len /\ j \in 1..len
      BY <1>2
    <3>2. PICK a \in 1..Count, b \in 1..Count :
            a < b /\ CachedOrder[a] = Replay[i][1] /\ CachedOrder[b] = Replay[j][1]
      BY <1>8, <2>3, <3>1
    <3>3. QED
      BY <1>3, <3>2
  <2>4. QED
    BY <2>1, <2>2, <2>3, Zenon DEF Current
<1>10. QED
  BY <1>2, <1>9

(***************************************************************************)
(* Sequences.                                                              *)
(***************************************************************************)
LEMMA Whole == ASSUME NEW S, NEW s \in Seq(S) PROVE SubSeq(s, 1, Len(s)) = s
<1> DEFINE n == Len(s)
           r == SubSeq(s, 1, n)
<1>1. n \in Nat /\ \A i \in 1..n : s[i] \in S
  BY LenProperties, ElementOfSeq
<1>2. /\ SubSeq(s, 1, n) \in Seq(S)
      /\ Len(SubSeq(s, 1, n)) = IF 1 <= n THEN n - 1 + 1 ELSE 0
      /\ \A i \in 1..(n - 1 + 1) : SubSeq(s, 1, n)[i] = s[1 + i - 1]
  <2> HIDE DEF n
  <2>1. QED
    BY <1>1, SubSeqProperties
<1> HIDE DEF n, r
<1>3. r \in Seq(S) /\ Len(r) = n /\ \A i \in 1..n : r[i] = s[i]
  BY <1>1, <1>2 DEF r
<1>4. r = s
  BY <1>1, <1>3, SeqEqual DEF n
<1>5. QED
  BY <1>4 DEF r, n

LEMMA Prefix ==
  ASSUME NEW S, NEW s \in Seq(S), NEW e \in S, NEW n \in 0..Len(s)
  PROVE  SubSeq(Append(s, e), 1, n) = SubSeq(s, 1, n)
<1> DEFINE a == SubSeq(Append(s, e), 1, n)
           b == SubSeq(s, 1, n)
<1>1. n \in Nat /\ \A i \in 1..n : s[i] \in S /\ Append(s, e)[i] = s[i]
  BY LenProperties, ElementOfSeq, AppendProperties
<1>2. /\ SubSeq(s, 1, n) \in Seq(S)
      /\ Len(SubSeq(s, 1, n)) = IF 1 <= n THEN n - 1 + 1 ELSE 0
      /\ \A i \in 1..(n - 1 + 1) : SubSeq(s, 1, n)[i] = s[1 + i - 1]
  BY <1>1, SubSeqProperties
<1> DEFINE t == Append(s, e)
<1>3. \A i \in 1..n : t[i] \in S /\ t[i] = s[i]
  BY <1>1
<1> HIDE DEF t
<1>4. /\ SubSeq(t, 1, n) \in Seq(S)
      /\ Len(SubSeq(t, 1, n)) = IF 1 <= n THEN n - 1 + 1 ELSE 0
      /\ \A i \in 1..(n - 1 + 1) : SubSeq(t, 1, n)[i] = t[1 + i - 1]
  BY <1>1, <1>3, SubSeqProperties
<1> HIDE DEF a, b
<1>5. b \in Seq(S) /\ Len(b) = n /\ \A i \in 1..n : b[i] = s[i]
  BY <1>1, <1>2 DEF b
<1>6. a \in Seq(S) /\ Len(a) = n /\ \A i \in 1..n : a[i] = s[i]
  <2>1. a = SubSeq(t, 1, n)
    BY DEF a, t
  <2>2. QED
    BY <1>1, <1>3, <1>4, <2>1
<1>7. a = b
  BY <1>5, <1>6, SeqEqual
<1>8. QED
  BY <1>7 DEF a, b

(***************************************************************************)
(* Types, and what is known of the connections.                            *)
(***************************************************************************)
\* Only a broadcast changes the snapshot.
LEMMA SnapKept == ASSUME Snap, UNCHANGED <<snapshot, log>> PROVE Snap'
BY DEF Snap

LEMMA SnapBroadcast ==
  ASSUME TypeOK, Snap, NEW line \in Lines, Broadcast(line)
  PROVE  Snap'
<1> DEFINE len == Len(log)
           new == Append(log, line)
<1>1. /\ log' = new
      /\ snapshot' = [t \in Cached |-> IF t = line[1] THEN line[2] ELSE snapshot[t]]
  BY DEF Broadcast
<1>2. /\ DOMAIN new = 1..(len + 1) /\ DOMAIN log = 1..len /\ len \in Nat
      /\ new[len + 1] = line /\ \A i \in 1..len : new[i] = log[i]
  BY AppendProperties, LenProperties DEF TypeOK
<1>3. line = <<line[1], line[2]>> /\ line[2] # None
  BY LineParts
<1> HIDE DEF len, new
<1> SUFFICES ASSUME NEW t \in Cached
             PROVE  IF snapshot'[t] = None
                    THEN \A j \in DOMAIN new : new[j][1] # t
                    ELSE Latest(<<t, snapshot'[t]>>, new)
  BY <1>1 DEF Snap
<1>4. CASE t = line[1]
  <2>1. snapshot'[t] = line[2]
    BY <1>1, <1>4
  <2>2. len + 1 \in DOMAIN new /\ \A j \in DOMAIN new : ~(j > len + 1)
    BY <1>2
  <2>3. Latest(line, new)
    BY <1>2, <2>2 DEF Latest
  <2>4. QED
    BY <1>3, <1>4, <2>1, <2>3
<1>5. CASE t # line[1]
  <2>1. snapshot'[t] = snapshot[t]
    BY <1>1, <1>5
  <2>2. \A j \in DOMAIN new : j \in 1..len \/ new[j][1] # t
    BY <1>2, <1>5
  <2>3. CASE snapshot[t] = None
    BY <1>2, <2>1, <2>2, <2>3 DEF Snap
  <2>4. CASE snapshot[t] # None
    <3> DEFINE last == <<t, snapshot[t]>>
    <3>1. Latest(last, log) /\ last[1] = t
      BY <2>4 DEF Snap
    <3> HIDE DEF last
    <3>2. PICK i \in 1..len : log[i] = last /\ \A j \in 1..len : j > i => log[j][1] # t
      BY <1>2, <3>1 DEF Latest
    <3>3. i \in DOMAIN new /\ new[i] = last
      BY <1>2, <3>2
    <3>4. \A j \in DOMAIN new : j > i => new[j][1] # t
      BY <1>2, <2>2, <3>2
    <3>5. Latest(last, new)
      BY <3>1, <3>3, <3>4 DEF Latest
    <3>6. QED
      BY <2>1, <2>4, <3>5 DEF last
  <2>5. QED
    BY <2>3, <2>4
<1>6. QED
  BY <1>4, <1>5

\* A connection that was accepted has a number, and the kernel knows no
\* number by another connection than the one it was given to.
Known ==
  /\ \A k \in Conns : fd[k] = None <=> peer[k] = "new"
  /\ \A k \in Conns : peer[k] = "new" => thread[k] = "none" /\ got[k] = <<>>
  /\ \A f \in Fds : table[f] # None => fd[table[f]] = f
  /\ acceptor \in {"register", "spawn"} =>
       pending \in Conns /\ peer[pending] # "new" /\ thread[pending] = "none"
  /\ Len(log) <= MaxLog

LEMMA EnterRecvTypes ==
  ASSUME TypeOK, Known, NEW k \in Conns, peer[k] # "new", EnterRecv(k)
  PROVE  /\ thread' \in [Conns -> {"none", "recv", "handle", "erase", "close", "ended"}]
         /\ on' \in [Conns -> Conns \cup {None}]
         /\ \A j \in Conns : j # k => thread'[j] = thread[j]
<1>1. fd[k] \in Fds
  BY DEF TypeOK, Known
<1>2. table[fd[k]] \in Conns \cup {None}
  BY <1>1 DEF TypeOK
<1>3. CASE running /\ table[fd[k]] # None
  BY <1>2, <1>3 DEF EnterRecv, TypeOK
<1>4. CASE ~(running /\ table[fd[k]] # None)
  BY <1>2, <1>4 DEF EnterRecv, TypeOK
<1>5. QED
  BY <1>3, <1>4

LEMMA HeirConn ==
  ASSUME TypeOK, Known, NEW k \in Conns, thread[k] # "none"
  PROVE  fd[k] \in Fds /\ Heir(k) \subseteq Conns
<1>1. fd[k] \in Fds
  BY DEF TypeOK, Known
<1>2. table[fd[k]] \in Conns \cup {None}
  BY <1>1 DEF TypeOK
<1>3. QED
  BY <1>1, <1>2 DEF Heir

LEMMA TypeStep == TypeOK /\ Known /\ Snap /\ [Next]_vars => TypeOK'
<1> SUFFICES ASSUME TypeOK, Known, Snap, [Next]_vars PROVE TypeOK'
  OBVIOUS
<1> USE DEF TypeOK
<1>1. ASSUME NEW k \in Conns, Read(k) PROVE TypeOK'
  <2>1. unread' \in [Conns -> 0..Buffer]
    <3>1. unread[k] \in 0..Buffer /\ unread[k] > 0 /\ Buffer \in Nat
      BY <1>1, BufferAssumption DEF Read
    <3>2. unread[k] - 1 \in 0..Buffer
      BY <3>1
    <3>3. QED
      BY <1>1, <3>2 DEF Read
  <2>2. QED
    BY <1>1, <2>1 DEF Read, server, history
<1>2. ASSUME NEW k \in Conns, HangUp(k) PROVE TypeOK'
  <2>1. unread' \in [Conns -> 0..Buffer] /\ peer' \in [Conns -> {"new", "up", "gone"}]
    BY <1>2, BufferAssumption DEF HangUp
  <2>2. QED
    BY <1>2, <2>1 DEF HangUp, server, history
<1>3. ASSUME NEW k \in Conns, Accept(k) PROVE TypeOK'
  <2>1. /\ table' \in [Fds -> Conns \cup {None}] /\ fd' \in [Conns -> Fds \cup {None}]
        /\ peer' \in [Conns -> {"new", "up", "gone"}]
        /\ pending' \in Conns \cup {None} /\ acceptor' = "register"
    BY <1>3 DEF Accept
  <2>2. stolen' \subseteq Conns
    BY <1>3 DEF Accept
  <2>3. QED
    BY <1>3, <2>1, <2>2 DEF Accept
<1>4. ASSUME NEW k \in Conns, RecvLine(k) \/ RecvEnd(k) PROVE TypeOK'
  BY <1>4 DEF RecvLine, RecvEnd, server, kernel, history
<1>17. ASSUME NEW k \in Conns, Erase(k) PROVE TypeOK'
  <2>1. Heir(k) \subseteq Conns
    BY <1>17, HeirConn DEF Erase
  <2>2. /\ clients' \subseteq Fds /\ stolen' \subseteq Conns
        /\ thread' \in [Conns -> {"none", "recv", "handle", "erase", "close", "ended"}]
    BY <1>17, <2>1 DEF Erase
  <2>3. QED
    BY <1>17, <2>2 DEF Erase, server, kernel
<1>5. ASSUME NEW k \in Conns, Handled(k) PROVE TypeOK'
  <2>1. peer[k] # "new"
    BY <1>5 DEF Handled, Known
  <2>2. /\ thread' \in [Conns -> {"none", "recv", "handle", "erase", "close", "ended"}]
        /\ on' \in [Conns -> Conns \cup {None}]
    BY <1>5, <2>1, EnterRecvTypes DEF Handled
  <2>3. QED
    BY <1>5, <2>2 DEF Handled, server, kernel, history
<1>6. ASSUME NEW k \in Conns, Close(k) PROVE TypeOK'
  <2>1. table' \in [Fds -> Conns \cup {None}]
    BY <1>6 DEF Close
  <2>2. stolen' \subseteq Conns
    BY <1>6, HeirConn DEF Close
  <2>3. thread' \in [Conns -> {"none", "recv", "handle", "erase", "close", "ended"}]
    BY <1>6 DEF Close
  <2>4. QED
    BY <1>6, <2>1, <2>2, <2>3 DEF Close, server
<1>7. CASE Register
  <2>1. pending \in Conns /\ fd[pending] \in Fds
    BY <1>7 DEF Register, Known
  <2>2. clients' \subseteq Fds
    BY <1>7, <2>1 DEF Register
  <2>3. joined' \in [Conns -> 0..MaxLog]
    <3>1. Len(log) \in 0..MaxLog
      BY LenProperties, MaxLogAssumption DEF Known
    <3>2. QED
      BY <1>7, <3>1 DEF Register
  <2>4. got' \in [Conns -> Seq(Lines)] /\ unread' \in [Conns -> 0..Buffer]
    <3>1. CASE Open(pending)
      <4>1. Replay \in Seq(Lines) /\ Len(Replay) \in Nat
        BY ReplayCurrent, LenProperties
      <4>2. got[pending] \o Replay \in Seq(Lines)
        BY <2>1, <4>1, ConcatProperties
      <4>3. unread[pending] + Len(Replay) \in 0..Buffer
        BY <1>7, <2>1, <3>1, <4>1, BufferAssumption DEF Register
      <4>4. /\ got' = [got EXCEPT ![pending] = got[pending] \o Replay]
            /\ unread' = [unread EXCEPT ![pending] = unread[pending] + Len(Replay)]
        BY <1>7, <3>1 DEF Register
      <4>5. QED
        BY <4>2, <4>3, <4>4
    <3>2. CASE ~Open(pending)
      BY <1>7, <3>2 DEF Register
    <3>3. QED
      BY <3>1, <3>2
  <2>5. QED
    BY <1>7, <2>2, <2>3, <2>4 DEF Register
<1>8. CASE Spawn
  <2>1. pending \in Conns /\ peer[pending] # "new"
    BY <1>8 DEF Spawn, Known
  <2>2. /\ thread' \in [Conns -> {"none", "recv", "handle", "erase", "close", "ended"}]
        /\ on' \in [Conns -> Conns \cup {None}]
    BY <1>8, <2>1, EnterRecvTypes DEF Spawn
  <2>3. QED
    BY <1>8, <2>2 DEF Spawn, kernel, history
<1>9. ASSUME NEW line \in Lines, Broadcast(line) PROVE TypeOK'
  <2>1. log' \in Seq(Lines)
    BY <1>9, AppendProperties DEF Broadcast
  <2>2. snapshot' \in [Cached -> Values \cup {None}]
    BY <1>9, LineParts DEF Broadcast
  <2>3. cast' \in {None} \cup [line : Lines, todo : SUBSET Fds]
    BY <1>9 DEF Broadcast
  <2>4. QED
    BY <1>9, <2>1, <2>2, <2>3 DEF Broadcast, server, kernel
<1>10. ASSUME NEW f \in Fds, Send(f) PROVE TypeOK'
  <2>1. cast \in [line : Lines, todo : SUBSET Fds]
    BY <1>10 DEF Send
  <2>2. cast' \in {None} \cup [line : Lines, todo : SUBSET Fds]
    BY <1>10, <2>1 DEF Send, Done
  <2>3. /\ table[f] \in Conns /\ unread[table[f]] < Buffer
        /\ got' = [got EXCEPT ![table[f]] = Append(@, cast.line)]
        /\ unread' = [unread EXCEPT ![table[f]] = @ + 1]
    BY <1>10 DEF Send
  <2>4. got' \in [Conns -> Seq(Lines)]
    BY <2>1, <2>3, AppendProperties
  <2>5. unread' \in [Conns -> 0..Buffer]
    <3>1. unread[table[f]] + 1 \in 0..Buffer
      BY <2>3, BufferAssumption
    <3>2. QED
      BY <2>3, <3>1
  <2>6. QED
    BY <1>10, <2>2, <2>4, <2>5 DEF Send, server
<1>11. ASSUME NEW f \in Fds, SendFails(f) PROVE TypeOK'
  <2>1. cast \in [line : Lines, todo : SUBSET Fds]
    BY <1>11 DEF SendFails
  <2>2. cast' \in {None} \cup [line : Lines, todo : SUBSET Fds]
    BY <1>11, <2>1 DEF SendFails, Done
  <2>3. table' \in [Fds -> Conns \cup {None}] /\ clients' \subseteq Fds
    BY <1>11 DEF SendFails
  <2>4. QED
    BY <1>11, <2>2, <2>3 DEF SendFails, server, history
<1>12. CASE BroadcastEnd
  BY <1>12 DEF BroadcastEnd, server, kernel, history
<1>13. CASE StopAccepting \/ AcceptorEnds
  BY <1>13 DEF StopAccepting, AcceptorEnds, kernel, history
<1>14. CASE CloseAll
  <2>1. table' \in [Fds -> Conns \cup {None}] /\ clients' \subseteq Fds
    BY <1>14 DEF CloseAll
  <2>2. QED
    BY <1>14, <2>1 DEF CloseAll, history
<1>15. CASE UNCHANGED vars
  BY <1>15 DEF vars, server, kernel, history
<1>16. QED
  BY <1>1, <1>2, <1>3, <1>4, <1>5, <1>6, <1>7, <1>8, <1>9, <1>10, <1>11, <1>12, <1>13,
    <1>14, <1>15, <1>17 DEF Next, BroadcastProceeds

LEMMA KnownStep == TypeOK /\ Known /\ [Next]_vars => Known'
<1> SUFFICES ASSUME TypeOK, Known, [Next]_vars PROVE Known'
  OBVIOUS
<1>0. None \notin Conns /\ None \notin Fds
  BY NoneAssumption
<1>1. ASSUME NEW k \in Conns, Read(k) PROVE Known'
  BY <1>1 DEF Read, server, history, Known
<1>2. ASSUME NEW k \in Conns, HangUp(k) PROVE Known'
  <2>1. \A j \in Conns : peer'[j] = "new" <=> peer[j] = "new"
    BY <1>2 DEF HangUp, TypeOK
  <2>2. QED
    BY <1>2, <2>1 DEF HangUp, server, history, Known
<1>3. ASSUME NEW k \in Conns, Accept(k) PROVE Known'
  <2>1. PICK f \in Fds : /\ table[f] = None
                         /\ table' = [table EXCEPT ![f] = k]
                         /\ fd' = [fd EXCEPT ![k] = f]
    BY <1>3 DEF Accept
  <2>2. /\ peer[k] = "new" /\ fd[k] = None /\ thread[k] = "none" /\ acceptor = "accept"
        /\ peer' = [peer EXCEPT ![k] = "up"] /\ UNCHANGED <<thread, got, log>>
        /\ pending' = k /\ acceptor' = "register"
    BY <1>3 DEF Accept, Known
  <2>3. \A j \in Conns : fd'[j] = None <=> peer'[j] = "new"
    BY <1>0, <2>1, <2>2 DEF Known, TypeOK
  <2>4. \A j \in Conns : peer'[j] = "new" => thread'[j] = "none" /\ got'[j] = <<>>
    BY <2>2 DEF Known, TypeOK
  <2>5. \A g \in Fds : table'[g] # None => fd'[table'[g]] = g
    <3> TAKE g \in Fds
    <3>1. CASE g = f
      BY <2>1, <3>1 DEF TypeOK
    <3>2. CASE g # f
      <4>1. table'[g] = table[g]
        BY <2>1, <3>2 DEF TypeOK
      <4>2. table[g] # None => table[g] \in Conns /\ table[g] # k /\ fd[table[g]] = g
        BY <1>0, <2>2 DEF Known, TypeOK
      <4>3. table[g] # None => fd'[table[g]] = g
        BY <2>1, <4>2 DEF TypeOK
      <4>4. QED
        BY <4>1, <4>3
    <3>3. QED
      BY <3>1, <3>2
  <2>6. pending' \in Conns /\ peer'[pending'] # "new" /\ thread'[pending'] = "none"
    BY <2>2 DEF TypeOK
  <2>7. Len(log') <= MaxLog
    BY <2>2 DEF Known
  <2>8. QED
    BY <2>3, <2>4, <2>5, <2>6, <2>7 DEF Known
<1>4. ASSUME UNCHANGED <<fd, peer, log>>,
             \A f \in Fds : table'[f] \in {table[f], None},
             acceptor' \in {"register", "spawn"}
               => acceptor \in {"register", "spawn"} /\ pending' = pending,
             \A k \in Conns : thread'[k] = thread[k] \/ thread[k] # "none"
                                \/ (peer[k] # "new" /\ acceptor' = "accept"),
             \A k \in Conns : got'[k] = got[k] \/ peer[k] # "new"
      PROVE  Known'
  <2>1. \A k \in Conns : fd'[k] = None <=> peer'[k] = "new"
    BY <1>4 DEF Known
  <2>2. \A k \in Conns : peer'[k] = "new" => thread'[k] = "none" /\ got'[k] = <<>>
    <3> SUFFICES ASSUME NEW k \in Conns, peer[k] = "new"
                 PROVE  thread'[k] = "none" /\ got'[k] = <<>>
      BY <1>4
    <3>1. thread[k] = "none" /\ got[k] = <<>>
      BY DEF Known
    <3>2. got'[k] = <<>>
      BY <1>4, <3>1
    <3>3. thread'[k] = "none"
      BY <1>4, <3>1 DEF Known
    <3>4. QED
      BY <3>2, <3>3
  <2>3. \A f \in Fds : table'[f] # None => fd'[table'[f]] = f
    BY <1>4 DEF Known
  <2>4. ASSUME acceptor' \in {"register", "spawn"}
        PROVE  pending' \in Conns /\ peer'[pending'] # "new" /\ thread'[pending'] = "none"
    BY <1>4, <2>4 DEF Known
  <2>5. QED
    BY <1>4, <2>1, <2>2, <2>3, <2>4 DEF Known
<1>5. ASSUME NEW k \in Conns, RecvLine(k) \/ RecvEnd(k) \/ Erase(k) PROVE Known'
  BY <1>4, <1>5 DEF RecvLine, RecvEnd, Erase, server, kernel, history, TypeOK
<1>6. ASSUME NEW k \in Conns, Handled(k) PROVE Known'
  <2>1. peer[k] # "new" /\ thread[k] # "none"
    BY <1>6 DEF Handled, Known
  <2>2. \A j \in Conns : j # k => thread'[j] = thread[j]
    BY <1>6, <2>1, EnterRecvTypes DEF Handled
  <2>3. QED
    BY <1>4, <1>6, <2>1, <2>2 DEF Handled, server, kernel, history
<1>7. ASSUME NEW k \in Conns, Close(k) PROVE Known'
  <2>1. \A f \in Fds : table'[f] \in {table[f], None}
    BY <1>7 DEF Close, TypeOK
  <2>2. thread[k] # "none" /\ \A j \in Conns : j # k => thread'[j] = thread[j]
    BY <1>7 DEF Close, TypeOK
  <2>3. QED
    BY <1>4, <1>7, <2>1, <2>2 DEF Close, server
<1>8. CASE Register
  <2>1. pending \in Conns /\ peer[pending] # "new"
    BY <1>8 DEF Register, Known
  <2>2. \A k \in Conns : got'[k] = got[k] \/ k = pending
    BY <1>8 DEF Register, TypeOK
  <2>3. QED
    BY <1>4, <1>8, <2>1, <2>2 DEF Register
<1>9. CASE Spawn
  <2>1. pending \in Conns /\ peer[pending] # "new"
    BY <1>9 DEF Spawn, Known
  <2>2. \A j \in Conns : j # pending => thread'[j] = thread[j]
    BY <1>9, <2>1, EnterRecvTypes DEF Spawn
  <2>3. QED
    BY <1>4, <1>9, <2>1, <2>2 DEF Spawn, kernel, history
<1>10. ASSUME NEW line \in Lines, Broadcast(line) PROVE Known'
  <2>1. UNCHANGED <<fd, peer, thread, table, acceptor, pending, got>> /\ log' = Append(log, line)
    BY <1>10 DEF Broadcast, server, kernel
  <2>2. Len(log') <= MaxLog
    <3>1. Len(log') = Len(log) + 1 /\ Len(log) \in Nat /\ Len(log) < MaxLog
      BY <1>10, <2>1, AppendProperties, LenProperties DEF Broadcast, TypeOK
    <3>2. QED
      BY <3>1, MaxLogAssumption
  <2>3. QED
    BY <2>1, <2>2 DEF Known
<1>11. ASSUME NEW f \in Fds, Send(f) PROVE Known'
  <2>1. table[f] \in Conns /\ peer[table[f]] = "up"
    BY <1>11 DEF Send, TypeOK
  <2>2. \A k \in Conns : got'[k] = got[k] \/ k = table[f]
    BY <1>11 DEF Send, TypeOK
  <2>3. QED
    BY <1>4, <1>11, <2>1, <2>2 DEF Send, server
<1>12. ASSUME NEW f \in Fds, SendFails(f) PROVE Known'
  <2>1. \A g \in Fds : table'[g] \in {table[g], None}
    BY <1>12 DEF SendFails, TypeOK
  <2>2. QED
    BY <1>4, <1>12, <2>1 DEF SendFails, server, history
<1>13. CASE BroadcastEnd \/ StopAccepting
  BY <1>4, <1>13 DEF BroadcastEnd, StopAccepting, server, kernel, history
<1>14. CASE AcceptorEnds
  BY <1>4, <1>14 DEF AcceptorEnds, kernel, history
<1>15. CASE CloseAll
  <2>1. \A g \in Fds : table'[g] \in {table[g], None}
    BY <1>15 DEF CloseAll, TypeOK
  <2>2. QED
    BY <1>4, <1>15, <2>1 DEF CloseAll, history
<1>16. CASE UNCHANGED vars
  BY <1>4, <1>16 DEF vars, server, kernel, history
<1>17. QED
  BY <1>1, <1>2, <1>3, <1>5, <1>6, <1>7, <1>8, <1>9, <1>10, <1>11, <1>12, <1>13,
    <1>14, <1>15, <1>16 DEF Next, BroadcastProceeds

(***************************************************************************)
(* Who owns a descriptor.                                                  *)
(***************************************************************************)
\* The accept thread goes only when the server does, and the number it was
\* given is open for the connection it was given with, or closed.
Accepting ==
  /\ acceptor \in {"ended", "closed"} => ~running
  /\ acceptor = "register" => table[fd[pending]] \in {pending, None}

LEMMA AcceptingStep == TypeOK /\ Known /\ Accepting /\ [Next]_vars => Accepting'
<1> SUFFICES ASSUME TypeOK, Known, Accepting, [Next]_vars PROVE Accepting'
  OBVIOUS
<1>1. ASSUME UNCHANGED <<running, acceptor, pending, fd>>,
             \A f \in Fds : table'[f] \in {table[f], None}
      PROVE  Accepting'
  <2>1. acceptor = "register" => fd[pending] \in Fds
    BY DEF Known, TypeOK
  <2>2. QED
    BY <1>1, <2>1 DEF Accepting
<1>2. ASSUME NEW k \in Conns, Accept(k) PROVE Accepting'
  <2>1. PICK f \in Fds : /\ table' = [table EXCEPT ![f] = k]
                         /\ fd' = [fd EXCEPT ![k] = f]
    BY <1>2 DEF Accept
  <2>2. table'[fd'[k]] = k
    BY <2>1 DEF TypeOK
  <2>3. QED
    BY <1>2, <2>2 DEF Accept, Accepting
<1>3. CASE Register \/ Spawn
  BY <1>3 DEF Register, Spawn, kernel, Accepting
<1>4. CASE StopAccepting \/ AcceptorEnds
  BY <1>4 DEF StopAccepting, AcceptorEnds, kernel, Accepting
<1>5. CASE CloseAll
  BY <1>5 DEF CloseAll, Accepting
<1>6. ASSUME NEW k \in Conns, Read(k) \/ HangUp(k) \/ RecvLine(k) \/ Handled(k)
                              \/ RecvEnd(k) \/ Erase(k)
      PROVE  Accepting'
  BY <1>1, <1>6 DEF Read, HangUp, RecvLine, Handled, RecvEnd, Erase, server, kernel
<1>7. ASSUME NEW k \in Conns, Close(k) PROVE Accepting'
  BY <1>1, <1>7 DEF Close, server, TypeOK
<1>8. ASSUME NEW f \in Fds, Send(f) \/ SendFails(f) PROVE Accepting'
  BY <1>1, <1>8 DEF Send, SendFails, server, TypeOK
<1>9. ASSUME NEW line \in Lines, Broadcast(line) PROVE Accepting'
  BY <1>1, <1>9 DEF Broadcast, server, kernel
<1>10. CASE BroadcastEnd \/ UNCHANGED vars
  BY <1>1, <1>10 DEF BroadcastEnd, vars, server, kernel
<1>11. QED
  BY <1>2, <1>3, <1>4, <1>5, <1>6, <1>7, <1>8, <1>9, <1>10 DEF Next, BroadcastProceeds

\* The connection that was accepted and is not registered yet.
Joining(k) == acceptor = "register" /\ pending = k
Registered(k) == fd[k] \in clients /\ table[fd[k]] = k

\* As long as its number was not mistaken for another's, a connection that
\* waits to be registered has an open number nobody is sent lines by, and one
\* that was registered keeps its number, and its thread, while both ends stay.
Owned(k) ==
  /\ Joining(k) => table[fd[k]] = k /\ fd[k] \notin clients /\ got[k] = <<>>
  /\ running /\ Joined(k) /\ peer[k] = "up" =>
       /\ Registered(k)
       /\ thread[k] \in {"none", "recv", "handle"}
       /\ thread[k] = "recv" => on[k] = k

Own == \A k \in Conns \ stolen : Owned(k)

\* The broadcast in progress is the last of the log, for registered clients.
Casting == cast # None => cast.todo \subseteq clients /\ log # <<>> /\ log[Len(log)] = cast.line

LEMMA CastingStep == TypeOK /\ Casting /\ [Next]_vars => Casting'
<1> SUFFICES ASSUME TypeOK, Casting, [Next]_vars PROVE Casting'
  OBVIOUS
<1>1. CASE UNCHANGED <<cast, clients, log>>
  BY <1>1 DEF Casting
<1>2. CASE cast' = None
  BY <1>2 DEF Casting
<1>3. ASSUME NEW line \in Lines, Broadcast(line) PROVE Casting'
  <2>1. cast' = [line |-> line, todo |-> clients] /\ clients' = clients /\ log' = Append(log, line)
    BY <1>3 DEF Broadcast
  <2>2. /\ log' \in Seq(Lines) /\ Len(log) \in Nat
        /\ Len(log') = Len(log) + 1 /\ log'[Len(log) + 1] = line
    BY <2>1, AppendProperties, LenProperties DEF TypeOK
  <2>3. log' # <<>>
    BY <2>2, EmptySeq
  <2>4. cast'.todo = clients /\ cast'.line = line
    BY <2>1
  <2>5. QED
    BY <2>1, <2>2, <2>3, <2>4 DEF Casting
<1>4. ASSUME NEW f \in Fds, Send(f) \/ SendFails(f) PROVE Casting'
  <2>1. cast # None /\ cast \in [line : Lines, todo : SUBSET Fds]
    BY <1>4 DEF Send, SendFails, TypeOK
  <2>2. cast' = [cast EXCEPT !.todo = @ \ {f}] /\ log' = log
        /\ (clients' = clients \/ clients' = clients \ {f})
    BY <1>4 DEF Send, SendFails, Done, history
  <2>3. cast'.todo = cast.todo \ {f} /\ cast'.line = cast.line
    BY <2>1, <2>2
  <2>4. cast.todo \subseteq clients /\ log # <<>> /\ log[Len(log)] = cast.line
    BY <2>1 DEF Casting
  <2>5. cast'.todo \subseteq clients'
    BY <2>2, <2>3, <2>4
  <2>6. log' # <<>> /\ log'[Len(log')] = cast'.line
    BY <2>2, <2>3, <2>4
  <2>7. QED
    BY <2>5, <2>6 DEF Casting
<1>5. ASSUME NEW k \in Conns, Read(k) \/ HangUp(k) \/ Accept(k) \/ RecvLine(k) \/ Handled(k)
                              \/ RecvEnd(k) \/ Close(k)
      PROVE  Casting'
  BY <1>1, <1>5 DEF Read, HangUp, Accept, RecvLine, Handled, RecvEnd, Close, history
<1>6. ASSUME NEW k \in Conns, Erase(k) PROVE Casting'
  BY <1>2, <1>6 DEF Erase, LockFree
<1>7. CASE Register \/ CloseAll \/ BroadcastEnd
  BY <1>2, <1>7 DEF Register, CloseAll, BroadcastEnd, LockFree
<1>8. CASE Spawn \/ StopAccepting \/ AcceptorEnds \/ UNCHANGED vars
  BY <1>1, <1>8 DEF Spawn, StopAccepting, AcceptorEnds, vars, history
<1>9. QED
  BY <1>3, <1>4, <1>5, <1>6, <1>7, <1>8 DEF Next, BroadcastProceeds

LEMMA StolenStays == ASSUME [Next]_vars PROVE stolen \subseteq stolen'
<1>1. ASSUME NEW k \in Conns, Accept(k) \/ Erase(k) \/ Close(k) PROVE stolen \subseteq stolen'
  BY <1>1 DEF Accept, Erase, Close
<1>2. ASSUME NEW k \in Conns, Read(k) \/ HangUp(k) \/ RecvLine(k) \/ Handled(k) \/ RecvEnd(k)
      PROVE  stolen \subseteq stolen'
  BY <1>2 DEF Read, HangUp, RecvLine, Handled, RecvEnd, history
<1>3. ASSUME NEW line \in Lines, Broadcast(line) PROVE stolen \subseteq stolen'
  BY <1>3 DEF Broadcast
<1>4. ASSUME NEW f \in Fds, Send(f) \/ SendFails(f) PROVE stolen \subseteq stolen'
  BY <1>4 DEF Send, SendFails, history
<1>5. CASE Register \/ Spawn \/ BroadcastEnd \/ StopAccepting \/ AcceptorEnds \/ CloseAll
           \/ UNCHANGED vars
  BY <1>5 DEF Register, Spawn, BroadcastEnd, StopAccepting, AcceptorEnds, CloseAll, vars, history
<1>6. QED
  BY <1>1, <1>2, <1>3, <1>4, <1>5 DEF Next, BroadcastProceeds

LEMMA OwnStep == TypeOK /\ Known /\ Accepting /\ Casting /\ Own /\ [Next]_vars => Own'
<1> SUFFICES ASSUME TypeOK, Known, Accepting, Casting, Own, [Next]_vars,
                    NEW k \in Conns, k \notin stolen'
             PROVE  Owned(k)'
  BY DEF Own
<1>0. None \notin Conns /\ None \notin Fds
  BY NoneAssumption
<1>1. Owned(k)
  BY StolenStays DEF Own
\* A connection the step neither registers, nor gives nor closes a number of.
<1>2. ASSUME Joining(k)' => Joining(k), Joined(k)' => Joined(k),
             running' => running, peer'[k] = "up" => peer[k] = "up",
             fd'[k] = fd[k], table'[fd[k]] = table[fd[k]],
             fd[k] \in clients' <=> fd[k] \in clients,
             Joining(k) => got'[k] = got[k],
             thread'[k] = thread[k], on'[k] = on[k]
      PROVE  Owned(k)'
  BY <1>1, <1>2 DEF Owned, Registered
<1>3. ASSUME NEW j \in Conns, Read(j) PROVE Owned(k)'
  BY <1>2, <1>3 DEF Read, server, history, Joining, Joined
<1>4. ASSUME NEW j \in Conns, HangUp(j) PROVE Owned(k)'
  <2>1. /\ UNCHANGED <<server, table, fd, history, clients, thread, on>>
        /\ peer'[k] = peer[k] \/ (peer[k] = "up" /\ peer'[k] = "gone")
    BY <1>4 DEF HangUp, TypeOK
  <2>2. QED
    BY <1>2, <2>1 DEF server, history, Joining, Joined
<1>5. ASSUME NEW j \in Conns, Accept(j) PROVE Owned(k)'
  <2>1. PICK f \in Fds : /\ table[f] = None
                         /\ table' = [table EXCEPT ![f] = j]
                         /\ fd' = [fd EXCEPT ![j] = f]
                         /\ stolen' = stolen \cup (IF f \in clients THEN {j} ELSE {})
    BY <1>5 DEF Accept
  <2>2. /\ acceptor = "accept" /\ acceptor' = "register" /\ pending' = j
        /\ peer[j] = "new" /\ peer' = [peer EXCEPT ![j] = "up"]
        /\ UNCHANGED <<running, got, clients, thread, on>>
    BY <1>5 DEF Accept
  <2>3. CASE k = j
    <3>1. f \notin clients /\ fd'[k] = f /\ table'[f] = k
      BY <2>1, <2>3 DEF TypeOK
    <3>2. got'[k] = <<>> /\ ~Joined(k)'
      BY <2>2, <2>3 DEF Known, Joined
    <3>3. QED
      BY <2>2, <3>1, <3>2 DEF Owned
  <2>4. CASE k # j
    <3>1. fd'[k] = fd[k] /\ peer'[k] = peer[k] /\ ~Joining(k)'
      BY <2>1, <2>2, <2>4 DEF Joining, TypeOK
    <3>2. SUFFICES ASSUME running, Joined(k), peer[k] = "up" PROVE Registered(k)'
      BY <1>1, <2>2, <3>1 DEF Owned, Joined
    <3>3. Registered(k) /\ fd[k] \in Fds
      BY <1>1, <3>2 DEF Owned, Registered, TypeOK
    <3>4. fd[k] # f
      BY <1>0, <2>1, <3>3 DEF Registered
    <3>5. QED
      BY <2>1, <2>2, <3>1, <3>3, <3>4 DEF Registered, TypeOK
  <2>5. QED
    BY <2>3, <2>4
<1>6. CASE Register
  <2>1. /\ acceptor = "register" /\ clients' = clients \cup {fd[pending]} /\ acceptor' = "spawn"
        /\ UNCHANGED <<running, pending, table, peer, fd, thread, on>>
    BY <1>6 DEF Register
  <2>2. pending \in Conns /\ thread[pending] = "none"
    BY <2>1 DEF Known
  <2>3. CASE k = pending
    <3>1. table[fd[k]] = k
      BY <1>1, <2>1, <2>3 DEF Owned, Joining
    <3>2. Registered(k)' /\ ~Joining(k)'
      BY <2>1, <2>3, <3>1 DEF Registered, Joining
    <3>3. thread'[k] = "none"
      BY <2>1, <2>2, <2>3
    <3>4. QED
      BY <3>2, <3>3 DEF Owned
  <2>4. CASE k # pending
    <3>1. got'[k] = got[k]
      BY <1>6, <2>4 DEF Register, TypeOK
    <3>2. ~Joining(k)' /\ (Joined(k)' => Joined(k))
      BY <2>1, <2>4, <3>1 DEF Joining, Joined
    <3>3. Registered(k) => Registered(k)'
      BY <2>1 DEF Registered
    <3>4. QED
      BY <1>1, <2>1, <3>2, <3>3 DEF Owned
  <2>5. QED
    BY <2>3, <2>4
\* A thread that goes back to recv reads its own connection.
<1>7. ASSUME NEW j \in Conns, fd[j] \in Fds, EnterRecv(j), acceptor' # "register",
             UNCHANGED <<kernel, history, clients, running>>, Joined(k)' => Joined(k)
      PROVE  Owned(k)'
  <2>1. SUFFICES ASSUME running, Joined(k), peer[k] = "up"
                 PROVE  /\ thread'[k] \in {"none", "recv", "handle"}
                        /\ thread'[k] = "recv" => on'[k] = k
    BY <1>1, <1>7 DEF Owned, Joining, Registered, kernel
  <2>2. /\ Registered(k) /\ thread[k] \in {"none", "recv", "handle"}
        /\ thread[k] = "recv" => on[k] = k
    BY <1>1, <2>1 DEF Owned
  <2>3. CASE k = j
    <3>1. table[fd[k]] = k /\ k # None
      BY <1>0, <2>2 DEF Registered
    <3>2. thread' = [thread EXCEPT ![k] = "recv"] /\ on' = [on EXCEPT ![k] = k]
      BY <1>7, <2>1, <2>3, <3>1 DEF EnterRecv
    <3>3. QED
      BY <3>2 DEF TypeOK
  <2>4. CASE k # j
    <3>1. thread'[k] = thread[k] /\ on'[k] = on[k]
      BY <1>7, <2>4 DEF EnterRecv, TypeOK
    <3>2. QED
      BY <2>2, <3>1
  <2>5. QED
    BY <2>3, <2>4
<1>8. CASE Spawn
  <2>1. /\ EnterRecv(pending) /\ acceptor = "spawn" /\ acceptor' = "accept"
        /\ UNCHANGED <<kernel, history, clients, running>>
    BY <1>8 DEF Spawn
  <2>2. pending \in Conns /\ fd[pending] \in Fds
    BY <2>1 DEF Known, TypeOK
  <2>3. Joined(k)' => Joined(k)
    BY <2>1 DEF Joined, kernel, history
  <2>4. QED
    BY <1>7, <2>1, <2>2, <2>3
<1>9. ASSUME NEW j \in Conns, Handled(j) PROVE Owned(k)'
  <2>1. thread[j] = "handle" /\ EnterRecv(j) /\ UNCHANGED <<server, kernel, history, clients>>
    BY <1>9 DEF Handled
  <2>2. fd[j] \in Fds
    BY <2>1, HeirConn
  <2>3. Joined(k)' => Joined(k)
    BY <2>1 DEF Joined, kernel, history, server
  <2>4. CASE acceptor # "register"
    BY <1>7, <2>1, <2>2, <2>3, <2>4 DEF server
  <2>5. CASE acceptor = "register"
    <3>1. ASSUME k = j PROVE Owned(k)'
      <4>1. ~Joining(k)
        BY <2>1, <3>1 DEF Joining, Known
      <4>2. SUFFICES ASSUME running, Joined(k), peer[k] = "up"
                     PROVE  /\ thread'[k] \in {"none", "recv", "handle"}
                            /\ thread'[k] = "recv" => on'[k] = k
        BY <1>1, <2>1, <2>3, <4>1 DEF Owned, Joining, Registered, kernel, server
      <4>3. table[fd[k]] = k /\ k # None
        BY <1>0, <1>1, <4>2 DEF Owned, Registered
      <4>4. thread' = [thread EXCEPT ![k] = "recv"] /\ on' = [on EXCEPT ![k] = k]
        BY <2>1, <3>1, <4>2, <4>3 DEF EnterRecv
      <4>5. QED
        BY <4>4 DEF TypeOK
    <3>2. ASSUME k # j PROVE Owned(k)'
      <4>1. thread'[k] = thread[k] /\ on'[k] = on[k]
        BY <2>1, <3>2 DEF EnterRecv, TypeOK
      <4>2. QED
        BY <1>2, <2>1, <2>3, <4>1 DEF server, kernel, history, Joining
    <3>3. QED
      BY <3>1, <3>2
  <2>6. QED
    BY <2>4, <2>5
<1>10. ASSUME NEW j \in Conns, RecvLine(j) PROVE Owned(k)'
  <2>1. /\ UNCHANGED <<server, kernel, history, clients, on>>
        /\ thread'[k] = thread[k] \/ thread'[k] = "handle"
    BY <1>10 DEF RecvLine, TypeOK
  <2>2. QED
    BY <1>1, <2>1 DEF Owned, Joining, Joined, Registered, server, kernel, history
<1>11. ASSUME NEW j \in Conns, RecvEnd(j) PROVE Owned(k)'
  <2>1. /\ UNCHANGED <<server, kernel, history, clients>>
        /\ thread[j] = "recv" /\ peer[on[j]] = "gone"
        /\ k # j => thread'[k] = thread[k] /\ on'[k] = on[k]
    BY <1>11 DEF RecvEnd, TypeOK
  <2>2. CASE k # j
    BY <1>2, <2>1, <2>2 DEF server, kernel, history, Joining, Joined
  <2>3. CASE k = j
    <3>1. ~(running /\ Joined(k) /\ peer[k] = "up")
      BY <1>1, <2>1, <2>3 DEF Owned
    <3>2. QED
      BY <1>1, <2>1, <3>1 DEF Owned, Joining, Joined, Registered, server, kernel, history
  <2>4. QED
    BY <2>2, <2>3
<1>12. ASSUME NEW j \in Conns, Erase(j) PROVE Owned(k)'
  <2>1. /\ thread[j] = "erase" /\ clients' = clients \ {fd[j]}
        /\ stolen' = stolen \cup (IF fd[j] \in clients THEN Heir(j) ELSE {})
        /\ UNCHANGED <<server, kernel, got, on>>
        /\ k # j => thread'[k] = thread[k]
    BY <1>12 DEF Erase, TypeOK
  <2>2. (Joining(k)' => Joining(k)) /\ (Joined(k)' => Joined(k))
    BY <2>1 DEF Joining, Joined, server, kernel
  <2>3. SUFFICES ASSUME running, Joined(k), peer[k] = "up"
                 PROVE  /\ fd[k] # fd[j] /\ k # j
    BY <1>1, <2>1, <2>2 DEF Owned, Joining, Joined, Registered, server, kernel
  <2>4. Registered(k) /\ thread[k] # "erase"
    BY <1>1, <2>3 DEF Owned
  <2>5. k # j
    BY <2>1, <2>4
  <2>6. fd[k] # fd[j]
    BY <1>0, <2>1, <2>4, <2>5 DEF Registered, Heir
  <2>7. QED
    BY <2>5, <2>6
<1>13. ASSUME NEW j \in Conns, Close(j) PROVE Owned(k)'
  <2>1. /\ thread[j] = "close" /\ table' = [table EXCEPT ![fd[j]] = None]
        /\ stolen' = stolen \cup Heir(j)
        /\ UNCHANGED <<server, peer, fd, got, clients, on>>
        /\ k # j => thread'[k] = thread[k]
    BY <1>13 DEF Close, TypeOK
  <2>2. (Joining(k)' <=> Joining(k)) /\ (Joined(k)' <=> Joined(k))
    BY <2>1 DEF Joining, Joined, server
  <2>3. ASSUME k # j, table[fd[k]] = k, fd[k] \in Fds PROVE table'[fd[k]] = k
    <3>1. fd[k] # fd[j]
      BY <1>0, <2>1, <2>3 DEF Heir
    <3>2. QED
      BY <2>1, <2>3, <3>1 DEF TypeOK
  <2>4. peer[k] # "new" => fd[k] \in Fds
    BY DEF Known, TypeOK
  <2>5. Joining(k) => k # j /\ peer[k] # "new"
    BY <2>1 DEF Joining, Known
  <2>6. running /\ Joined(k) /\ peer[k] = "up" => k # j /\ Registered(k)
    BY <1>1, <2>1 DEF Owned
  <2>7. Joining(k) => table'[fd[k]] = k
    BY <1>1, <2>3, <2>4, <2>5 DEF Owned
  <2>8. running /\ Joined(k) /\ peer[k] = "up" => table'[fd[k]] = k
    BY <2>3, <2>4, <2>6 DEF Registered
  <2>9. QED
    BY <1>1, <2>1, <2>2, <2>6, <2>7, <2>8 DEF Owned, Registered, server
<1>14. ASSUME NEW line \in Lines, Broadcast(line) PROVE Owned(k)'
  BY <1>2, <1>14 DEF Broadcast, server, kernel, Joining, Joined
<1>15. ASSUME NEW f \in Fds, Send(f) PROVE Owned(k)'
  <2>1. /\ f \in clients /\ table[f] # None /\ peer[table[f]] = "up"
        /\ got' = [got EXCEPT ![table[f]] = Append(@, cast.line)]
        /\ UNCHANGED <<server, table, peer, fd, clients, thread, on>>
    BY <1>15 DEF Send, Casting
  <2>2. k # table[f] => got'[k] = got[k]
    BY <2>1 DEF TypeOK
  <2>3. k = table[f] => fd[k] \in clients
    BY <1>0, <2>1 DEF Known
  <2>4. Joining(k) => got'[k] = got[k]
    BY <1>1, <2>2, <2>3 DEF Owned
  <2>5. Joined(k)' => Joined(k)
    BY <2>1, <2>2 DEF Joined, server
  <2>6. QED
    BY <1>2, <2>1, <2>4, <2>5 DEF server, Joining
<1>16. ASSUME NEW f \in Fds, SendFails(f) PROVE Owned(k)'
  <2>1. /\ f \in clients /\ table' = [table EXCEPT ![f] = None] /\ clients' = clients \ {f}
        /\ table[f] # None => peer[table[f]] = "gone"
        /\ UNCHANGED <<server, peer, fd, got, thread, on>>
    BY <1>16 DEF SendFails, Casting, history
  <2>2. (Joining(k)' <=> Joining(k)) /\ (Joined(k)' <=> Joined(k))
    BY <2>1 DEF Joining, Joined, server
  <2>3. peer[k] # "new" => fd[k] \in Fds
    BY DEF Known, TypeOK
  <2>4. fd[k] \in Fds /\ fd[k] # f => table'[fd[k]] = table[fd[k]]
    BY <2>1 DEF TypeOK
  <2>5. Joining(k) => fd[k] # f /\ peer[k] # "new"
    BY <1>1, <2>1 DEF Owned, Joining, Known
  <2>6. running /\ Joined(k) /\ peer[k] = "up" => fd[k] # f /\ peer[k] # "new"
    BY <1>0, <1>1, <2>1 DEF Owned, Registered
  <2>7. QED
    BY <1>1, <2>1, <2>2, <2>3, <2>4, <2>5, <2>6 DEF Owned, Registered, server
<1>17. CASE CloseAll
  BY <1>17 DEF CloseAll, Accepting, Owned, Joining
<1>18. CASE StopAccepting \/ AcceptorEnds
  BY <1>2, <1>18 DEF StopAccepting, AcceptorEnds, kernel, history, Joining, Joined
<1>19. CASE BroadcastEnd \/ UNCHANGED vars
  BY <1>2, <1>19 DEF BroadcastEnd, vars, server, kernel, history, Joining, Joined
<1>20. QED
  BY <1>3, <1>4, <1>5, <1>6, <1>8, <1>9, <1>10, <1>11, <1>12, <1>13, <1>14, <1>15, <1>16,
    <1>17, <1>18, <1>19 DEF Next, BroadcastProceeds

(***************************************************************************)
(* How far a client is behind: by the line of the broadcast in progress,   *)
(* if that has not come to it yet, and by nothing otherwise.               *)
(***************************************************************************)
Behind(k) == cast # None /\ fd[k] \in cast.todo
Connected(k) == Registered(k) /\ peer[k] = "up"
Pace(k, n) == Connected(k) => joined[k] + n = IF Behind(k) THEN Len(log) - 1 ELSE Len(log)
InStep(k) == \E m, n \in Nat : Fed(k, m, n) /\ Pace(k, n)

Feeding == \A k \in Conns \ stolen : Joined(k) => InStep(k)

\* What is sent to others, and who comes and goes, changes nothing for k.
LEMMA FeedKept ==
  ASSUME NEW k \in Conns, InStep(k), log' = log, got'[k] = got[k], joined'[k] = joined[k],
         Connected(k)' => Connected(k) /\ (Behind(k)' <=> Behind(k))
  PROVE  InStep(k)'
<1>1. PICK m \in Nat, n \in Nat : Fed(k, m, n) /\ Pace(k, n)
  BY DEF InStep
<1>2. Fed(k, m, n)'
  BY <1>1 DEF Fed
<1>3. Pace(k, n)'
  BY <1>1 DEF Pace
<1>4. QED
  BY <1>2, <1>3 DEF InStep

LEMMA FeedBroadcast ==
  ASSUME TypeOK, NEW k \in Conns, InStep(k), NEW line \in Lines, Broadcast(line)
  PROVE  InStep(k)'
<1>1. PICK m \in Nat, n \in Nat : Fed(k, m, n) /\ Pace(k, n)
  BY DEF InStep
<1>2. /\ cast = None /\ log' = Append(log, line)
      /\ UNCHANGED <<got, joined, clients, table, fd, peer>>
      /\ cast' = [line |-> line, todo |-> clients]
  BY DEF Broadcast, LockFree, kernel
<1>3. /\ Len(log) \in Nat /\ joined[k] \in Nat
      /\ Len(log') = Len(log) + 1 /\ \A i \in 1..Len(log) : log'[i] = log[i]
  BY <1>2, AppendProperties, LenProperties, MaxLogAssumption DEF TypeOK
<1>4. Fed(k, m, n)'
  <2>1. joined[k] + n <= Len(log) /\ joined[k] \in 0..Len(log)
    BY <1>1, <1>3 DEF Fed
  <2>2. SubSeq(log', 1, joined[k]) = SubSeq(log, 1, joined[k])
    <3> DEFINE j == joined[k]
    <3>1. j \in 0..Len(log)
      BY <2>1
    <3> HIDE DEF j
    <3>2. SubSeq(Append(log, line), 1, j) = SubSeq(log, 1, j)
      BY <3>1, Prefix DEF TypeOK
    <3>3. QED
      BY <1>2, <3>2 DEF j
  <2>3. ASSUME NEW i \in 1..n PROVE got[k][m + i] = log'[joined[k] + i]
    <3>1. joined[k] + i \in 1..Len(log)
      BY <1>3, <2>1
    <3>2. got[k][m + i] = log[joined[k] + i]
      BY <1>1 DEF Fed
    <3>3. QED
      BY <1>3, <3>1, <3>2
  <2>4. Len(got[k]) = m + n /\ Current(SubSeq(got[k], 1, m), SubSeq(log, 1, joined[k]))
    BY <1>1 DEF Fed
  <2>5. joined[k] + n <= Len(log')
    BY <1>3, <2>1
  <2>6. QED
    BY <1>2, <2>2, <2>3, <2>4, <2>5 DEF Fed
<1>5. Pace(k, n)'
  <2> SUFFICES ASSUME Connected(k)'
               PROVE  joined'[k] + n = IF Behind(k)' THEN Len(log') - 1 ELSE Len(log')
    BY DEF Pace
  <2>1. Connected(k)
    BY <1>2 DEF Connected, Registered
  <2>2. joined[k] + n = Len(log)
    BY <1>1, <1>2, <2>1 DEF Pace, Behind
  <2>3. Behind(k)'
    <3>1. cast' # None
      BY <1>2, NoneAssumption DEF TypeOK
    <3>2. fd[k] \in clients /\ cast'.todo = clients
      BY <1>2, <2>1 DEF Connected, Registered
    <3>3. QED
      BY <1>2, <3>1, <3>2 DEF Behind
  <2>4. QED
    BY <1>2, <1>3, <2>2, <2>3
<1>6. QED
  BY <1>4, <1>5 DEF InStep

LEMMA FeedSend ==
  ASSUME TypeOK, Known, Casting, NEW f \in Fds, Send(f),
         NEW k \in Conns, k = table[f], InStep(k)
  PROVE  InStep(k)'
<1>1. PICK m \in Nat, n \in Nat : Fed(k, m, n) /\ Pace(k, n)
  BY DEF InStep
<1>2. /\ cast # None /\ f \in cast.todo /\ peer[k] = "up"
      /\ got' = [got EXCEPT ![k] = Append(got[k], cast.line)]
      /\ UNCHANGED <<log, joined, fd>>
      /\ cast' = [cast EXCEPT !.todo = @ \ {f}]
  BY DEF Send, Done
<1>3. /\ cast \in [line : Lines, todo : SUBSET Fds] /\ cast.line \in Lines
      /\ got[k] \in Seq(Lines) /\ Len(log) \in Nat /\ joined[k] \in Nat
  BY <1>2, LenProperties, MaxLogAssumption DEF TypeOK
<1>4. f \in clients /\ log[Len(log)] = cast.line /\ fd[k] = f
  <2>1. k # None
    BY NoneAssumption
  <2>2. QED
    BY <1>2, <2>1 DEF Casting, Known
<1>5. joined[k] + n = Len(log) - 1
  BY <1>1, <1>2, <1>4 DEF Pace, Connected, Registered, Behind
<1>6. got'[k] = Append(got[k], cast.line)
  BY <1>2 DEF TypeOK
<1>7. Fed(k, m, n + 1)'
  <2> DEFINE old == got[k]
             new == Append(got[k], cast.line)
  <2>1. Len(old) = m + n /\ Current(SubSeq(old, 1, m), SubSeq(log, 1, joined[k]))
        /\ \A i \in 1..n : old[m + i] = log[joined[k] + i]
    BY <1>1 DEF Fed
  <2>2. /\ Len(new) = Len(old) + 1 /\ new[Len(old) + 1] = cast.line
        /\ \A i \in 1..Len(old) : new[i] = old[i]
        /\ old \in Seq(Lines) /\ m \in 0..Len(old)
    BY <1>3, <2>1, AppendProperties
  <2>3. SubSeq(new, 1, m) = SubSeq(old, 1, m)
    BY <1>3, <2>2, Prefix
  <2> HIDE DEF old, new
  <2>4. Len(new) = m + (n + 1)
    BY <2>1, <2>2
  <2>5. ASSUME NEW i \in 1..(n + 1) PROVE new[m + i] = log[joined[k] + i]
    <3>1. CASE i = n + 1
      <4>1. m + i = Len(old) + 1 /\ joined[k] + i = Len(log)
        BY <1>3, <1>5, <2>1, <3>1
      <4>2. QED
        BY <1>4, <2>2, <4>1
    <3>2. CASE i # n + 1
      <4>1. i \in 1..n /\ m + i \in 1..Len(old)
        BY <2>1, <3>2
      <4>2. QED
        BY <2>1, <2>2, <4>1
    <3>3. QED
      BY <3>1, <3>2
  <2>6. joined[k] + (n + 1) <= Len(log)
    BY <1>3, <1>5
  <2>7. got'[k] = new
    BY <1>6 DEF new
  <2>8. QED
    BY <1>2, <2>1, <2>3, <2>4, <2>5, <2>6, <2>7 DEF Fed
<1>8. Pace(k, n + 1)'
  <2>1. ~Behind(k)'
    <3>1. cast'.todo = cast.todo \ {f}
      BY <1>2, <1>3
    <3>2. QED
      BY <1>2, <1>4, <3>1 DEF Behind
  <2>2. joined'[k] + (n + 1) = Len(log')
    BY <1>2, <1>3, <1>5
  <2>3. QED
    BY <2>1, <2>2 DEF Pace
<1>9. m \in Nat /\ n + 1 \in Nat
  OBVIOUS
<1>10. QED
  BY <1>7, <1>8, <1>9 DEF InStep

LEMMA FeedJoin ==
  ASSUME TypeOK, Snap, Register, NEW k \in Conns, k = pending, got[k] = <<>>, Open(k)
  PROVE  InStep(k)'
<1>1. /\ acceptor = "register" /\ cast = None
      /\ got' = [got EXCEPT ![k] = got[k] \o Replay]
      /\ joined' = [joined EXCEPT ![k] = Len(log)]
      /\ UNCHANGED <<log, cast>>
  BY DEF Register, LockFree
<1>2. got[k] = <<>>
  OBVIOUS
<1>3. Replay \in Seq(Lines) /\ Current(Replay, log) /\ log \in Seq(Lines)
  BY ReplayCurrent DEF TypeOK
<1>4. got'[k] = Replay /\ joined'[k] = Len(log)
  BY <1>1, <1>2, <1>3, ConcatEmptySeq DEF TypeOK
<1>5. /\ SubSeq(Replay, 1, Len(Replay)) = Replay /\ SubSeq(log, 1, Len(log)) = log
      /\ Len(Replay) \in Nat /\ Len(log) \in Nat
  BY <1>3, Whole, LenProperties
<1>6. PICK m \in Nat : m = Len(Replay)
  BY <1>5
<1>7. Fed(k, m, 0)'
  <2>1. Len(Replay) = m + 0 /\ Len(log) + 0 <= Len(log)
    BY <1>5, <1>6
  <2>2. \A i \in 1..0 : Replay[m + i] = log[Len(log) + i]
    OBVIOUS
  <2>3. Current(SubSeq(Replay, 1, m), SubSeq(log, 1, Len(log)))
    BY <1>3, <1>5, <1>6
  <2>4. QED
    BY <1>1, <1>4, <2>1, <2>2, <2>3 DEF Fed
<1>8. Pace(k, 0)'
  <2>1. ~Behind(k)'
    BY <1>1 DEF Behind
  <2>2. joined'[k] + 0 = Len(log')
    <3>1. Len(log') = Len(log)
      BY <1>1
    <3>2. joined'[k] = Len(log) /\ Len(log) \in Nat
      BY <1>4, <1>5
    <3>3. QED
      BY <3>1, <3>2
  <2>3. QED
    BY <2>1, <2>2 DEF Pace
<1>9. QED
  BY <1>7, <1>8 DEF InStep

LEMMA FeedingStep ==
  TypeOK /\ Known /\ Accepting /\ Snap /\ Casting /\ Own /\ Feeding /\ [Next]_vars => Feeding'
<1> SUFFICES ASSUME TypeOK, Known, Accepting, Snap, Casting, Own, Feeding, [Next]_vars,
                    NEW k \in Conns, k \notin stolen', Joined(k)'
             PROVE  InStep(k)'
  BY DEF Feeding
<1>0. None \notin Conns /\ None \notin Fds
  BY NoneAssumption
<1>1. Owned(k) /\ (Joined(k) => InStep(k))
  BY StolenStays DEF Own, Feeding
\* Steps that send nothing to k and neither register nor open it.
<1>2. ASSUME Joined(k), UNCHANGED log, got'[k] = got[k], joined'[k] = joined[k],
             Connected(k)' => Connected(k) /\ (Behind(k)' <=> Behind(k))
      PROVE  InStep(k)'
  BY <1>1, <1>2, FeedKept
<1>3. ASSUME NEW j \in Conns, Read(j) PROVE InStep(k)'
  BY <1>2, <1>3 DEF Read, server, history, Joined, Joining, Connected, Registered, Behind
<1>4. ASSUME NEW j \in Conns, HangUp(j) PROVE InStep(k)'
  <2>1. /\ UNCHANGED <<server, table, fd, history, clients, cast>>
        /\ \A i \in Conns : peer'[i] = peer[i] \/ (peer[i] = "up" /\ peer'[i] = "gone")
    BY <1>4 DEF HangUp, TypeOK
  <2>2. QED
    BY <1>2, <2>1 DEF server, history, Joined, Joining, Connected, Registered, Behind
<1>5. ASSUME NEW j \in Conns, RecvLine(j) \/ Handled(j) \/ RecvEnd(j) PROVE InStep(k)'
  BY <1>2, <1>5 DEF RecvLine, Handled, RecvEnd, server, kernel, history,
    Joined, Joining, Connected, Registered, Behind
<1>6. ASSUME NEW j \in Conns, Erase(j) PROVE InStep(k)'
  BY <1>2, <1>6 DEF Erase, LockFree, server, kernel,
    Joined, Joining, Connected, Registered, Behind
<1>7. CASE Spawn
  BY <1>2, <1>7 DEF Spawn, kernel, history, Joined, Joining, Connected, Registered, Behind
<1>8. CASE BroadcastEnd
  BY <1>2, <1>8 DEF BroadcastEnd, server, kernel, history,
    Joined, Joining, Connected, Registered, Behind
<1>9. CASE StopAccepting \/ AcceptorEnds
  BY <1>2, <1>9 DEF StopAccepting, AcceptorEnds, kernel, history,
    Joined, Joining, Connected, Registered, Behind
<1>10. CASE CloseAll
  BY <1>2, <1>10 DEF CloseAll, history, Joined, Joining, Connected, Registered, Behind
<1>11. CASE UNCHANGED vars
  BY <1>2, <1>11 DEF vars, server, kernel, history, Joined, Joining, Connected, Registered, Behind
<1>12. ASSUME NEW j \in Conns, Close(j) PROVE InStep(k)'
  <2>1. /\ UNCHANGED <<server, peer, fd, got, log, joined, clients, cast>>
        /\ \A f \in Fds : table'[f] \in {table[f], None}
    BY <1>12 DEF Close, TypeOK
  <2>2. Connected(k)' => Connected(k)
    BY <1>0, <2>1 DEF Connected, Registered, TypeOK
  <2>3. QED
    BY <1>2, <2>1, <2>2 DEF server, Joined, Joining, Behind
<1>13. ASSUME NEW f \in Fds, SendFails(f) PROVE InStep(k)'
  <2>1. /\ UNCHANGED <<server, peer, fd, got, log, joined>> /\ cast # None
        /\ clients' = clients \ {f}
        /\ cast' = [cast EXCEPT !.todo = @ \ {f}]
        /\ \A g \in Fds : table'[g] \in {table[g], None}
    BY <1>13 DEF SendFails, Done, TypeOK, history
  <2>2. cast' # None /\ cast'.todo = cast.todo \ {f}
    <3>1. cast \in [line : Lines, todo : SUBSET Fds]
      BY <2>1 DEF TypeOK
    <3>2. cast' \in [line : Lines, todo : SUBSET Fds]
      BY <2>1, <3>1
    <3>3. QED
      BY <2>1, <3>1, <3>2, NoneAssumption
  <2>3. Connected(k)' => Connected(k) /\ fd[k] # f
    BY <1>0, <2>1 DEF Connected, Registered, TypeOK
  <2>4. fd[k] # f => (Behind(k)' <=> Behind(k))
    BY <2>1, <2>2 DEF Behind
  <2>5. QED
    BY <1>2, <2>1, <2>3, <2>4 DEF server, Joined, Joining
<1>14. ASSUME NEW line \in Lines, Broadcast(line) PROVE InStep(k)'
  <2>1. Joined(k)
    BY <1>14 DEF Broadcast, server, kernel, Joined, Joining
  <2>2. QED
    BY <1>1, <1>14, <2>1, FeedBroadcast
<1>15. ASSUME NEW j \in Conns, Accept(j) PROVE InStep(k)'
  <2>1. PICK f \in Fds : /\ table[f] = None
                         /\ table' = [table EXCEPT ![f] = j]
                         /\ fd' = [fd EXCEPT ![j] = f]
    BY <1>15 DEF Accept
  <2>2. /\ acceptor = "accept" /\ acceptor' = "register" /\ pending' = j
        /\ peer' = [peer EXCEPT ![j] = "up"]
        /\ UNCHANGED <<got, log, joined, clients, cast>>
    BY <1>15 DEF Accept
  <2>3. k # j /\ Joined(k)
    BY <2>1, <2>2 DEF Joined, TypeOK
  <2>4. fd'[k] = fd[k] /\ peer'[k] = peer[k]
    BY <2>1, <2>2, <2>3 DEF TypeOK
  <2>5. Connected(k)' => Connected(k)
    BY <2>1, <2>2, <2>3, <2>4 DEF Connected, Registered, TypeOK
  <2>6. Behind(k)' <=> Behind(k)
    BY <2>2, <2>4 DEF Behind
  <2>7. QED
    BY <1>2, <2>2, <2>3, <2>5, <2>6
<1>16. CASE Register
  <2>1. /\ acceptor = "register" /\ clients' = clients \cup {fd[pending]} /\ acceptor' = "spawn"
        /\ UNCHANGED <<table, peer, fd, log, cast>>
    BY <1>16 DEF Register
  <2>2. pending \in Conns /\ table[fd[pending]] \in {pending, None}
    BY <2>1 DEF Accepting, Known
  <2>3. CASE k = pending
    <3>1. table[fd[k]] = k /\ got[k] = <<>>
      BY <1>1, <2>1, <2>3 DEF Owned, Joining
    <3>2. peer[k] # "up" => got'[k] = got[k]
      BY <1>16, <2>3 DEF Register, Open
    <3>3. peer[k] = "up"
      BY <2>1, <3>1, <3>2 DEF Joined
    <3>4. QED
      BY <1>16, <2>3, <3>1, <3>3, FeedJoin DEF Open
  <2>4. CASE k # pending
    <3>1. got'[k] = got[k] /\ joined'[k] = joined[k]
      BY <1>16, <2>2, <2>4 DEF Register, TypeOK
    <3>2. Joined(k)
      BY <2>1, <2>4, <3>1 DEF Joined, Joining
    <3>3. Connected(k)' => Connected(k)
      BY <1>0, <2>1, <2>2, <2>4 DEF Connected, Registered
    <3>4. Behind(k)' <=> Behind(k)
      BY <2>1 DEF Behind
    <3>5. QED
      BY <1>2, <2>1, <3>1, <3>2, <3>3, <3>4
  <2>5. QED
    BY <2>3, <2>4
<1>17. ASSUME NEW f \in Fds, Send(f) PROVE InStep(k)'
  <2>1. /\ cast # None /\ f \in cast.todo /\ f \in clients
        /\ cast' = [cast EXCEPT !.todo = @ \ {f}]
        /\ \A j \in Conns : got'[j] = got[j] \/ j = table[f]
        /\ UNCHANGED <<server, table, peer, fd, log, joined, clients>>
    BY <1>17 DEF Send, Done, Casting, TypeOK
  <2>2. CASE k = table[f]
    <3>1. peer[k] = "up"
      BY <1>17, <2>2 DEF Send
    <3>2. Joined(k)
      <4>1. fd[k] \in clients
        BY <1>0, <2>1, <2>2 DEF Known
      <4>2. QED
        BY <1>1, <3>1, <4>1 DEF Joined, Joining, Owned
    <3>3. QED
      BY <1>1, <1>17, <2>2, <3>2, FeedSend
  <2>3. CASE k # table[f]
    <3>1. got'[k] = got[k] /\ joined'[k] = joined[k] /\ log' = log
      BY <2>1, <2>3
    <3>2. Joined(k)
      BY <2>1, <3>1 DEF server, Joined, Joining
    <3>3. cast' # None /\ cast'.todo = cast.todo \ {f}
      <4>1. cast \in [line : Lines, todo : SUBSET Fds]
        BY <2>1 DEF TypeOK
      <4>2. cast' \in [line : Lines, todo : SUBSET Fds]
        BY <2>1, <4>1
      <4>3. QED
        BY <2>1, <4>1, <4>2, NoneAssumption
    <3>4. Connected(k)' => Connected(k) /\ fd[k] # f
      BY <2>1, <2>3 DEF Connected, Registered
    <3>5. fd[k] # f => (Behind(k)' <=> Behind(k))
      BY <2>1, <3>3 DEF Behind
    <3>6. QED
      BY <1>2, <3>1, <3>2, <3>4, <3>5
  <2>4. QED
    BY <2>2, <2>3
<1>18. QED
  BY <1>3, <1>4, <1>5, <1>6, <1>7, <1>8, <1>9, <1>10, <1>11, <1>12, <1>13, <1>14, <1>15,
    <1>16, <1>17 DEF Next, BroadcastProceeds

(***************************************************************************)
(* Theorems.                                                               *)
(***************************************************************************)
IInv == TypeOK /\ Known /\ Accepting /\ Snap /\ Casting /\ Own /\ Feeding

LEMMA SnapStep == TypeOK /\ Snap /\ [Next]_vars => Snap'
<1> SUFFICES ASSUME TypeOK, Snap, [Next]_vars PROVE Snap'
  OBVIOUS
<1>1. ASSUME NEW line \in Lines, Broadcast(line) PROVE Snap'
  BY <1>1, SnapBroadcast
<1>2. ASSUME NEW k \in Conns, Read(k) \/ HangUp(k) \/ Accept(k) \/ RecvLine(k) \/ Handled(k)
                              \/ RecvEnd(k) \/ Erase(k) \/ Close(k)
      PROVE  Snap'
  BY <1>2, SnapKept DEF Read, HangUp, Accept, RecvLine, Handled, RecvEnd, Erase, Close, history
<1>3. ASSUME NEW f \in Fds, Send(f) \/ SendFails(f) PROVE Snap'
  BY <1>3, SnapKept DEF Send, SendFails, history
<1>4. CASE Register \/ Spawn \/ BroadcastEnd \/ StopAccepting \/ AcceptorEnds \/ CloseAll
           \/ UNCHANGED vars
  BY <1>4, SnapKept DEF Register, Spawn, BroadcastEnd, StopAccepting, AcceptorEnds, CloseAll,
    vars, history
<1>5. QED
  BY <1>1, <1>2, <1>3, <1>4 DEF Next, BroadcastProceeds

LEMMA InitIInv == Init => IInv
<1> SUFFICES ASSUME Init PROVE IInv
  OBVIOUS
<1>0. /\ <<>> \in Seq(Lines) /\ 0 \in 0..Buffer /\ 0 \in 0..MaxLog /\ DOMAIN log = {}
      /\ Len(log) = 0
  <2>1. <<>> \in Seq(Lines) /\ Len(<<>>) = 0
    BY EmptySeq
  <2>2. DOMAIN log = 1..0
    BY <2>1, LenProperties DEF Init
  <2>3. QED
    BY <2>1, <2>2, BufferAssumption, MaxLogAssumption DEF Init
<1>1. TypeOK
  BY <1>0 DEF Init, TypeOK
<1>2. Known
  BY <1>0, NoneAssumption, MaxLogAssumption DEF Init, Known
<1>3. Snap
  BY <1>0 DEF Init, Snap
<1>4. Casting
  BY DEF Init, Casting
<1>5. Own
  BY DEF Init, Own, Owned, Joined, Joining
<1>6. Feeding
  BY DEF Init, Feeding, Joined
<1>7. Accepting
  BY DEF Init, Accepting
<1>8. QED
  BY <1>1, <1>2, <1>3, <1>4, <1>5, <1>6, <1>7 DEF IInv

LEMMA Inductive == Spec => []IInv
<1>1. IInv /\ [Next]_vars => IInv'
  BY TypeStep, KnownStep, AcceptingStep, SnapStep, CastingStep, OwnStep, FeedingStep DEF IInv
<1>2. QED
  BY InitIInv, <1>1, PTL DEF Spec

\* Every variable keeps its type; no socket is given more than it takes.
THEOREM TypeCorrect == Spec => []TypeOK
<1>1. IInv => TypeOK
  BY DEF IInv
<1>2. QED
  BY <1>1, Inductive, PTL

\* Whatever joins, leaves and broadcasts cross each other, a client is sent
\* what is current and then every line in order, and misses none as long as
\* it stays, unless its own number was mistaken for another's.
THEOREM AlwaysFeedContiguous == Spec => []FeedContiguous
<1>1. IInv => FeedContiguous
  <2> SUFFICES ASSUME IInv, NEW k \in Conns \ stolen, Joined(k)
               PROVE  \E m \in 0..Len(got[k]) :
                        LET n == Len(got[k]) - m
                        IN  /\ Fed(k, m, n)
                            /\ running /\ peer[k] = "up" /\ (cast # None => fd[k] \notin cast.todo)
                                 => joined[k] + n = Len(log)
    BY DEF FeedContiguous
  <2>1. InStep(k) /\ Owned(k)
    BY DEF IInv, Feeding, Own
  <2>2. PICK m \in Nat, n \in Nat : Fed(k, m, n) /\ Pace(k, n)
    BY <2>1 DEF InStep
  <2>3. m \in 0..Len(got[k]) /\ n = Len(got[k]) - m
    BY <2>2 DEF Fed
  <2>4. ASSUME running, peer[k] = "up", cast # None => fd[k] \notin cast.todo
        PROVE  joined[k] + n = Len(log)
    <3>1. Connected(k) /\ ~Behind(k)
      BY <2>1, <2>4 DEF Owned, Connected, Behind
    <3>2. QED
      BY <2>2, <3>1 DEF Pace
  <2>5. QED
    BY <2>2, <2>3, <2>4
<1>2. QED
  BY <1>1, Inductive, PTL
=============================================================================
