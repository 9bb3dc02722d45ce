------------------------- MODULE ModelManagerProofs -------------------------
(***************************************************************************)
(* Proofs about the model manager for any finite set of models, any sizes *)
(* and any budget, any number of threads and any time to live.            *)
(***************************************************************************)
EXTENDS ModelManager, FiniteSetTheorems, TLAPS

\* The mutex is held exactly by the thread that evicts or loads.
HolderWorks ==
  \A c \in Clients : holder = c <=> client[c] \in {"evicting", "loading"}

\* What a thread works on is a registered model that does not serve, and a
\* model is marked Loading for as long as its load runs.
WorkOnUnserved ==
  \A c \in Clients :
    /\ client[c] \in {"evicting", "loading"} => want[c] \in Models \ Ready
    /\ client[c] = "loading" => state[want[c]] = "Loading"

\* The inductive invariant.
IInv == TypeOK /\ HolderWorks /\ WorkOnUnserved

USE ModelsAssumption, NumbersAssumption, NobodyAssumption

(***************************************************************************)
(* The memory of a set of models. It is a sum over the set, taken one      *)
(* model at a time in an order nobody knows, so what it does when a model  *)
(* comes or goes is an induction over finite sets.                         *)
(***************************************************************************)
Total(S) == MapThenSumSet(LAMBDA m : Vram[m], S)

\* The model the sum takes next, and the equation the sum computes by.
Chosen(s) == CHOOSE m \in s : TRUE
SumFrom(rest, s) == IF s = {} THEN 0 ELSE Vram[Chosen(s)] + rest
Sums(f, S) == f = [s \in SUBSET S |-> SumFrom(f[s \ {Chosen(s)}], s)]

\* Induction over the sets of models: a set that contains every set of models
\* whose smaller sets it contains contains them all.
LEMMA SetsReached ==
  ASSUME NEW G,
         \A s \in SUBSET Models : (\A t \in SUBSET s : t # s => t \in G) => s \in G
  PROVE  \A s \in SUBSET Models : s \in G
<1> DEFINE Missing == (SUBSET Models) \ G
<1>1. SUFFICES ASSUME Missing # {} PROVE FALSE
  OBVIOUS
<1>2. IsWellFoundedOn(StrictSubsetOrdering(Models), SUBSET Models)
  BY FS_StrictSubsetOrderingWellFounded, FS_FiniteSubsetsOfFinite
<1>3. PICK s \in Missing : \A t \in Missing : <<t, s>> \notin StrictSubsetOrdering(Models)
  <2>1. Missing \subseteq SUBSET Models
    OBVIOUS
  <2> HIDE DEF Missing
  <2>2. QED
    BY <1>1, <1>2, <2>1, WFMin
<1>4. ASSUME NEW t \in SUBSET s, t # s PROVE t \in G
  <2>1. t \in SUBSET Models /\ s \in SUBSET Models
    OBVIOUS
  <2>2. <<t, s>> \in StrictSubsetOrdering(Models)
    BY <1>4, <2>1 DEF StrictSubsetOrdering
  <2>3. QED
    BY <1>3, <2>1, <2>2
<1>5. QED
  BY <1>3, <1>4

\* What is left is smaller.
LEMMA ChosenLeft ==
  ASSUME NEW s, s # {}
  PROVE  Chosen(s) \in s /\ s \ {Chosen(s)} \in SUBSET s /\ s \ {Chosen(s)} # s
  BY DEF Chosen

\* The equation has one solution at most.
LEMMA SumsOnce ==
  ASSUME NEW S \in SUBSET Models, NEW f, Sums(f, S), NEW g, Sums(g, S)
  PROVE  f[S] = g[S]
<1> DEFINE G == {s \in SUBSET Models : s \subseteq S => f[s] = g[s]}
<1>1. ASSUME NEW s \in SUBSET Models, \A t \in SUBSET s : t # s => t \in G
      PROVE  s \in G
  <2>1. SUFFICES ASSUME s \subseteq S PROVE f[s] = g[s]
    OBVIOUS
  <2>2. /\ f[s] = SumFrom(f[s \ {Chosen(s)}], s)
        /\ g[s] = SumFrom(g[s \ {Chosen(s)}], s)
    BY <2>1 DEF Sums
  <2>3. CASE s = {}
    BY <2>2, <2>3 DEF SumFrom
  <2>4. CASE s # {}
    <3>1. s \ {Chosen(s)} \in G
      BY <1>1, <2>4, ChosenLeft
    <3>2. f[s \ {Chosen(s)}] = g[s \ {Chosen(s)}]
      BY <2>1, <3>1
    <3>3. QED
      BY <2>2, <3>2
  <2>5. QED
    BY <2>3, <2>4
<1>2. \A s \in SUBSET Models : s \in G
  <2> HIDE DEF G
  <2>1. QED
    BY <1>1, SetsReached
<1>3. QED
  BY <1>2

\* The sum of a set is what the equation makes of the sum of the rest.
LEMMA TotalStep ==
  \A S \in SUBSET Models : Total(S) = SumFrom(Total(S \ {Chosen(S)}), S)
<1> DEFINE G == {s \in SUBSET Models : Total(s) = SumFrom(Total(s \ {Chosen(s)}), s)}
<1>1. ASSUME NEW S \in SUBSET Models, \A t \in SUBSET S : t # S => t \in G
      PROVE  S \in G
  <2> DEFINE f == [s \in SUBSET S |-> SumFrom(Total(s \ {Chosen(s)}), s)]
  <2>1. ASSUME NEW s \in SUBSET S
        PROVE  f[s] = SumFrom(f[s \ {Chosen(s)}], s)
    <3>1. CASE s = {}
      BY <3>1 DEF SumFrom
    <3>2. CASE s # {}
      <4>1. /\ s \ {Chosen(s)} \in SUBSET S
            /\ s \ {Chosen(s)} # S
        BY <3>2, ChosenLeft
      <4>2. s \ {Chosen(s)} \in G
        BY <1>1, <4>1
      <4>3. f[s \ {Chosen(s)}] = Total(s \ {Chosen(s)})
        BY <4>1, <4>2
      <4>4. QED
        BY <4>3
    <3>3. QED
      BY <3>1, <3>2
  <2>2. Sums(f, S)
    <3>1. f = [s \in SUBSET S |-> f[s]]
      OBVIOUS
    <3> HIDE DEF f
    <3>2. QED
      BY <2>1, <3>1 DEF Sums
  <2> DEFINE g == CHOOSE h : Sums(h, S)
  <2>3. Sums(g, S)
    <3> HIDE DEF f
    <3>1. QED
      BY <2>2
  <2>4. Total(S) = g[S]
    BY DEF Total, Sums, SumFrom, Chosen, MapThenSumSet, MapThenFoldSet
  <2>5. g[S] = f[S]
    <3> HIDE DEF f, g
    <3>1. QED
      BY <2>2, <2>3, SumsOnce
  <2>6. f[S] = SumFrom(Total(S \ {Chosen(S)}), S)
    OBVIOUS
  <2>7. QED
    BY <2>4, <2>5, <2>6
<1>2. \A s \in SUBSET Models : s \in G
  <2> HIDE DEF G
  <2>1. QED
    BY <1>1, SetsReached
<1>3. QED
  BY <1>2

\* A sum of sizes is a size.
LEMMA TotalType ==
  \A S \in SUBSET Models : Total(S) \in Nat
<1> DEFINE G == {s \in SUBSET Models : Total(s) \in Nat}
<1>1. ASSUME NEW S \in SUBSET Models, \A t \in SUBSET S : t # S => t \in G
      PROVE  S \in G
  <2>1. Total(S) = SumFrom(Total(S \ {Chosen(S)}), S)
    BY TotalStep
  <2>2. CASE S = {}
    BY <2>1, <2>2 DEF SumFrom
  <2>3. CASE S # {}
    <3>1. Chosen(S) \in Models /\ S \ {Chosen(S)} \in G
      BY <1>1, <2>3, ChosenLeft
    <3>2. Vram[Chosen(S)] \in Nat /\ Total(S \ {Chosen(S)}) \in Nat
      BY <3>1
    <3>3. QED
      BY <2>1, <2>3, <3>2 DEF SumFrom
  <2>4. QED
    BY <2>2, <2>3
<1>2. \A s \in SUBSET Models : s \in G
  <2> HIDE DEF G
  <2>1. QED
    BY <1>1, SetsReached
<1>3. QED
  BY <1>2

\* Whatever order the sum takes its models in, each one adds its own size.
LEMMA TotalOf ==
  \A S \in SUBSET Models : \A m \in S : Total(S) = Vram[m] + Total(S \ {m})
<1> DEFINE G == {s \in SUBSET Models : \A m \in s : Total(s) = Vram[m] + Total(s \ {m})}
<1>1. ASSUME NEW S \in SUBSET Models, \A t \in SUBSET S : t # S => t \in G
      PROVE  S \in G
  <2>1. SUFFICES ASSUME NEW m \in S PROVE Total(S) = Vram[m] + Total(S \ {m})
    OBVIOUS
  <2> DEFINE n == Chosen(S)
             Rest == (S \ {n}) \ {m}
  <2>2. n \in S /\ Total(S) = Vram[n] + Total(S \ {n})
    BY ChosenLeft, TotalStep DEF SumFrom
  <2>3. CASE n = m
    BY <2>2, <2>3
  <2>4. CASE n # m
    <3>1. S \ {n} \in G /\ S \ {m} \in G
      BY <1>1, <2>2
    <3>2. m \in S \ {n} /\ n \in S \ {m} /\ (S \ {m}) \ {n} = Rest
      BY <2>2, <2>4
    <3>3. Total(S \ {n}) = Vram[m] + Total(Rest)
      BY <3>1, <3>2
    <3>4. Total(S \ {m}) = Vram[n] + Total(Rest)
      BY <3>1, <3>2
    <3>5. Vram[m] \in Nat /\ Vram[n] \in Nat /\ Total(Rest) \in Nat
      BY <2>2, TotalType
    <3> HIDE DEF n, Rest
    <3>6. QED
      BY <2>2, <3>3, <3>4, <3>5
  <2>5. QED
    BY <2>3, <2>4
<1>2. \A s \in SUBSET Models : s \in G
  <2> HIDE DEF G
  <2>1. QED
    BY <1>1, SetsReached
<1>3. QED
  BY <1>2

\* Fewer models do not need more.
LEMMA TotalGrows ==
  \A T \in SUBSET Models : \A S \in SUBSET T : Total(S) <= Total(T)
<1> DEFINE G == {t \in SUBSET Models : \A S \in SUBSET t : Total(S) <= Total(t)}
<1>1. ASSUME NEW T \in SUBSET Models, \A t \in SUBSET T : t # T => t \in G
      PROVE  T \in G
  <2>1. SUFFICES ASSUME NEW S \in SUBSET T PROVE Total(S) <= Total(T)
    OBVIOUS
  <2>2. Total(S) \in Nat /\ Total(T) \in Nat
    BY TotalType
  <2>3. CASE S = T
    BY <2>2, <2>3
  <2>4. CASE S # T
    <3>1. PICK m \in T : m \notin S
      BY <2>4
    <3>2. T \ {m} \in G /\ S \in SUBSET (T \ {m})
      BY <1>1, <3>1
    <3>3. Total(S) <= Total(T \ {m})
      BY <3>2
    <3>4. Total(T) = Vram[m] + Total(T \ {m})
      BY TotalOf
    <3>5. Vram[m] \in Nat /\ Total(T \ {m}) \in Nat
      BY TotalType
    <3>6. QED
      BY <2>2, <3>3, <3>4, <3>5
  <2>5. QED
    BY <2>3, <2>4
<1>2. \A s \in SUBSET Models : s \in G
  <2> HIDE DEF G
  <2>1. QED
    BY <1>1, SetsReached
<1>3. QED
  BY <1>2

\* The manager starts in a state of the inductive invariant.
LEMMA InitIInv ==
  ASSUME Init
  PROVE  IInv
<1>1. TypeOK
  BY DEF Init, TypeOK, ModelStates, ClientPlaces
<1>2. HolderWorks
  BY DEF Init, HolderWorks
<1>3. WorkOnUnserved
  BY DEF Init, WorkOnUnserved
<1>4. QED
  BY <1>1, <1>2, <1>3 DEF IInv

\* Eviction and sweep only take models out of Ready.
LEMMA UnloadKeeps ==
  ASSUME TypeOK, NEW gone \in SUBSET Models, Unload(gone)
  PROVE  /\ state' \in [Models -> ModelStates]
         /\ age' \in [Models -> 0..MaxAge]
         /\ alive' \subseteq Models
         /\ \A m \in Models : m \notin gone => state'[m] = state[m]
         /\ \A m \in gone : state'[m] = "Unloaded"
  BY DEF TypeOK, Unload, ModelStates

\* acquire, the reaper, stop and the death of a worker keep it.
LEMMA NextIInv ==
  ASSUME IInv, [Next]_vars
  PROVE  IInv'
<1> USE DEF IInv, TypeOK, HolderWorks, WorkOnUnserved, ModelStates, ClientPlaces, Ready, LockFree
<1>1. CASE Tick
  BY <1>1 DEF Tick
<1>2. ASSUME NEW c \in Clients, AcquireReady(c) PROVE IInv'
  BY <1>2 DEF AcquireReady, Client
<1>3. ASSUME NEW c \in Clients, AcquireUnloaded(c) PROVE IInv'
  BY <1>3 DEF AcquireUnloaded, Client
<1>4. ASSUME NEW c \in Clients, Evict(c) PROVE IInv'
  <2>1. PICK victim \in Oldest(want[c]) : Unload({victim})
    BY <1>4 DEF Evict
  <2>2. {victim} \in SUBSET Models
    BY <2>1 DEF Oldest, Evictable
  <2>3. UNCHANGED <<holder, want, running, reaper>> /\ client[c] = "evicting" /\ client' = client
    BY <1>4 DEF Evict, Client
  <2>4. holder = c /\ \A d \in Clients : client[d] = "loading" => FALSE
    BY <2>3
  <2>5. TypeOK'
    BY <2>1, <2>2, <2>3, UnloadKeeps
  <2>6. HolderWorks'
    BY <2>3
  <2>7. WorkOnUnserved'
    BY <2>1, <2>2, <2>3, <2>4, UnloadKeeps
  <2>8. QED
    BY <2>5, <2>6, <2>7
<1>5. ASSUME NEW c \in Clients, StartLoad(c) PROVE IInv'
  BY <1>5 DEF StartLoad, Client
<1>6. ASSUME NEW c \in Clients, LoadOk(c) PROVE IInv'
  BY <1>6 DEF LoadOk, Client
<1>7. ASSUME NEW c \in Clients, LoadFailed(c) PROVE IInv'
  BY <1>7 DEF LoadFailed, Client
<1>8. ASSUME NEW c \in Clients, Return(c) PROVE IInv'
  BY <1>8 DEF Return, Client
<1>9. ASSUME NEW m \in Models, Touch(m) \/ WorkerDies(m) PROVE IInv'
  BY <1>9 DEF Touch, WorkerDies
<1>10. CASE Reap
  <2>1. IdleTooLong \in SUBSET Models /\ Unload(IdleTooLong)
    BY <1>10 DEF Reap, IdleTooLong
  <2>2. UNCHANGED <<holder, client, want, running>> /\ reaper' \in {"on", "done"}
    BY <1>10 DEF Reap
  <2>3. \A c \in Clients : client[c] \notin {"evicting", "loading"}
    BY <1>10 DEF Reap
  <2>4. TypeOK'
    BY <2>1, <2>2, UnloadKeeps
  <2>5. QED
    BY <2>2, <2>3, <2>4
<1>11. CASE Stop
  BY <1>11 DEF Stop
<1>12. CASE UNCHANGED vars
  BY <1>12 DEF vars
<1>13. QED
  BY <1>1, <1>2, <1>3, <1>4, <1>5, <1>6, <1>7, <1>8, <1>9, <1>10, <1>11, <1>12
  DEF Next, ClientStep, Acquiring

\* So it holds in every reachable state.
LEMMA Invariance == SafeSpec => []IInv
<1>1. Init => IInv
  BY InitIInv
<1>2. IInv /\ [Next]_vars => IInv'
  BY NextIInv
<1>3. QED
  BY <1>1, <1>2, PTL DEF SafeSpec

\* Every variable keeps its type.
THEOREM TypeCorrect == SafeSpec => []TypeOK
<1>1. IInv => TypeOK
  BY DEF IInv
<1>2. QED
  BY <1>1, Invariance, PTL

\* No worker is started for a model that is served, and no two at a time.
THEOREM LoadsAlwaysUnserved == SafeSpec => []LoadsOnlyUnserved
<1>1. IInv => LoadsOnlyUnserved
  BY NobodyAssumption DEF IInv, HolderWorks, WorkOnUnserved, LoadsOnlyUnserved
<1>2. QED
  BY <1>1, Invariance, PTL

\* Only an eviction and a sweep take a model out of Ready: a load changes the
\* state of a model that was not Ready.
LEMMA WhoUnloads ==
  ASSUME IInv, [Next]_vars, NEW m \in Models, m \in Ready
  PROVE  \/ state'[m] = "Ready"
         \/ \E c \in Clients : m \in Evictable(want[c]) /\ Evict(c)
         \/ m \in IdleTooLong /\ Reap
<1> USE DEF IInv, TypeOK, WorkOnUnserved, Ready
<1>1. ASSUME NEW c \in Clients, ClientStep(c), ~Evict(c) PROVE state'[m] = "Ready"
  BY <1>1 DEF ClientStep, Acquiring, AcquireReady, AcquireUnloaded, StartLoad, LoadOk,
     LoadFailed, Return, Client, ModelStates
<1>2. ASSUME NEW c \in Clients, Evict(c)
      PROVE  state'[m] = "Ready" \/ m \in Evictable(want[c])
  <2>1. PICK victim \in Oldest(want[c]) : Unload({victim})
    BY <1>2 DEF Evict
  <2>2. victim \in Evictable(want[c]) /\ victim \in Models
    BY <2>1 DEF Oldest, Evictable
  <2>3. CASE m = victim
    BY <2>2, <2>3
  <2>4. CASE m # victim
    BY <2>1, <2>2, <2>4, UnloadKeeps
  <2>5. QED
    BY <2>3, <2>4
<1>3. CASE Reap
  <2>1. Unload(IdleTooLong) /\ IdleTooLong \in SUBSET Models
    BY <1>3 DEF Reap, IdleTooLong
  <2>2. m \notin IdleTooLong => state'[m] = "Ready"
    BY <2>1, UnloadKeeps
  <2>3. QED
    BY <1>3, <2>2
<1>4. CASE Tick \/ Stop \/ UNCHANGED vars \/ \E n \in Models : Touch(n) \/ WorkerDies(n)
  BY <1>4 DEF Tick, Stop, vars, Touch, WorkerDies
<1>5. QED
  BY <1>1, <1>2, <1>3, <1>4 DEF Next

\* model_manager.h:2, for every budget and every set of models: what is
\* pinned stays Ready once it is.
THEOREM PinnedAlwaysStay == SafeSpec => PinnedStay
<1>1. ASSUME IInv, [Next]_vars
      PROVE  \A m \in Pinned : state[m] = "Ready" => state'[m] = "Ready"
  <2>1. SUFFICES ASSUME NEW m \in Pinned, state[m] = "Ready"
                 PROVE  state'[m] = "Ready"
    OBVIOUS
  <2>2. m \in Models /\ m \in Ready
    BY <2>1 DEF Ready
  <2>3. m \notin IdleTooLong /\ \A c \in Clients : m \notin Evictable(want[c])
    BY DEF IdleTooLong, Evictable
  <2>4. QED
    BY <1>1, <2>2, <2>3, WhoUnloads
<1>2. QED
  BY <1>1, Invariance, PTL DEF SafeSpec, PinnedStay

\* An eviction never takes a model and spares one that is idle for longer.
THEOREM AlwaysEvictsOldestFirst == SafeSpec => EvictsOldestFirst
<1>1. ASSUME IInv, [Next]_vars, holder # Nobody,
             NEW v \in (Ready \cap Gpu) \ Pinned, NEW w \in (Ready \cap Gpu) \ Pinned,
             state'[v] = "Unloaded", state'[w] = "Ready"
      PROVE  age[w] <= age[v]
  <2>1. v \in Models /\ w \in Models
    BY DEF Ready
  <2>2. ~Reap
    BY <1>1 DEF Reap, LockFree
  <2>3. PICK c \in Clients : Evict(c)
    BY <1>1, <2>1, <2>2, WhoUnloads
  <2>4. PICK victim \in Oldest(want[c]) : Unload({victim})
    BY <2>3 DEF Evict
  <2>5. victim \in Models
    BY <2>4 DEF Oldest, Evictable, Ready
  <2>6. v = victim
    BY <1>1, <2>1, <2>4, <2>5, UnloadKeeps DEF IInv, Ready
  <2>7. want[c] \notin Ready
    BY <1>1, <2>3 DEF IInv, WorkOnUnserved, Evict, Client
  <2>8. w \in Evictable(want[c])
    BY <2>7 DEF Evictable
  <2>9. QED
    BY <2>4, <2>6, <2>8 DEF Oldest
<1>2. ASSUME IInv, [Next]_vars
      PROVE  holder # Nobody =>
               \A v, w \in (Ready \cap Gpu) \ Pinned :
                 state'[v] = "Unloaded" /\ state'[w] = "Ready" => age[w] <= age[v]
  BY <1>1, <1>2
<1>3. QED
  BY <1>2, Invariance, PTL DEF SafeSpec, EvictsOldestFirst

(***************************************************************************)
(* The budget. A load is let through when its model fits or when nothing   *)
(* is left to evict, and that is still so when it ends: the mutex keeps    *)
(* the reaper, the evictions and the other loads away meanwhile.           *)
(***************************************************************************)
LoadRoom ==
  \A c \in Clients :
    client[c] = "loading" /\ want[c] \in Gpu => Fits(want[c]) \/ Evictable(want[c]) = {}

BudgetInv == LoadRoom /\ OverBudgetOnlyForced

\* What the budget is compared with.
LEMMA GpuUsedTotal ==
  /\ GpuUsed = Total(Ready \cap Gpu)
  /\ GpuUsed' = Total(Ready' \cap Gpu)
<1>1. GpuUsed = Total(Ready \cap Gpu)
  BY DEF GpuUsed, Total
<1>2. GpuUsed' = Total(Ready' \cap Gpu)
  BY DEF GpuUsed, Total, MapThenSumSet, MapThenFoldSet
<1>3. QED
  BY <1>1, <1>2

\* Only the end of a load makes a model Ready.
LEMMA WhoLoads ==
  ASSUME IInv, [Next]_vars
  PROVE  \/ Ready' \subseteq Ready
         \/ \E c \in Clients : LoadOk(c) /\ Ready' = Ready \cup {want[c]}
<1> USE DEF IInv, TypeOK, WorkOnUnserved, Ready
<1>1. ASSUME NEW c \in Clients, ClientStep(c), ~Evict(c), ~LoadOk(c) PROVE Ready' \subseteq Ready
  BY <1>1 DEF ClientStep, Acquiring, AcquireReady, AcquireUnloaded, StartLoad,
     LoadFailed, Return, Client, ModelStates
<1>2. ASSUME NEW gone \in SUBSET Models, Unload(gone) PROVE Ready' \subseteq Ready
  BY <1>2, UnloadKeeps
<1>3. ASSUME NEW c \in Clients, Evict(c) PROVE Ready' \subseteq Ready
  BY <1>2, <1>3 DEF Evict, Oldest, Evictable
<1>4. ASSUME NEW c \in Clients, LoadOk(c) PROVE Ready' = Ready \cup {want[c]}
  BY <1>4 DEF LoadOk, Client, ModelStates
<1>5. CASE Reap
  BY <1>2, <1>5 DEF Reap, IdleTooLong
<1>6. CASE Tick \/ Stop \/ UNCHANGED vars \/ \E n \in Models : Touch(n) \/ WorkerDies(n)
  BY <1>6 DEF Tick, Stop, vars, Touch, WorkerDies
<1>7. QED
  BY <1>1, <1>3, <1>4, <1>5, <1>6 DEF Next

\* While a model loads, nothing else becomes Ready or leaves Ready.
LEMMA LoadAlone ==
  ASSUME IInv, [Next]_vars, NEW c \in Clients, client'[c] = "loading"
  PROVE  /\ Ready' = Ready
         /\ want'[c] = want[c]
         /\ client[c] = "loading" \/ StartLoad(c)
<1> USE DEF IInv, TypeOK, HolderWorks, WorkOnUnserved, Ready, LockFree, ModelStates
<1>1. ASSUME NEW d \in Clients, ClientStep(d), ~Evict(d)
      PROVE  /\ Ready' = Ready
             /\ want'[c] = want[c]
             /\ client[c] = "loading" \/ StartLoad(c)
  BY <1>1 DEF ClientStep, Acquiring, AcquireReady, AcquireUnloaded, StartLoad, LoadOk,
     LoadFailed, Return, Client
<1>2. \A d \in Clients : ~Evict(d)
  BY DEF Evict, Client
<1>3. ~Reap
  BY DEF Reap
<1>4. CASE Tick \/ Stop \/ UNCHANGED vars \/ \E n \in Models : Touch(n) \/ WorkerDies(n)
  BY <1>4 DEF Tick, Stop, vars, Touch, WorkerDies
<1>5. QED
  BY <1>1, <1>2, <1>3, <1>4 DEF Next

\* A load that was let through stays let through.
LEMMA LoadRoomStep ==
  ASSUME IInv, LoadRoom, [Next]_vars
  PROVE  LoadRoom'
<1>1. SUFFICES ASSUME NEW c \in Clients, client'[c] = "loading", want'[c] \in Gpu
               PROVE  Fits(want[c])' \/ Evictable(want[c])' = {}
  BY DEF LoadRoom
<1>2. /\ Ready' = Ready
      /\ want'[c] = want[c]
      /\ client[c] = "loading" \/ StartLoad(c)
  BY <1>1, LoadAlone
<1>3. Fits(want[c]) \/ Evictable(want[c]) = {}
  BY <1>1, <1>2 DEF LoadRoom, StartLoad
<1>4. GpuUsed' = GpuUsed
  BY <1>2, GpuUsedTotal
<1>5. QED
  BY <1>2, <1>3, <1>4 DEF Fits, Evictable

\* A model that was let through and did not fit is the only one that could be
\* evicted; any other step leaves less on the GPU.
LEMMA BudgetStep ==
  ASSUME IInv, BudgetInv, [Next]_vars
  PROVE  OverBudgetOnlyForced'
<1> DEFINE Old == Ready \cap Gpu
           New == Ready' \cap Gpu
<1>1. Old \in SUBSET Models /\ New \in SUBSET Models
  BY DEF Ready
<1>2. GpuUsed = Total(Old) /\ GpuUsed' = Total(New)
  BY GpuUsedTotal
<1>3. Total(Old) \in Nat /\ Total(New) \in Nat
  BY <1>1, TotalType
<1>4. IsFiniteSet(Old \ Pinned) /\ IsFiniteSet(New \ Pinned)
  BY <1>1, FS_Subset
<1>5. /\ OverBudgetOnlyForced = (Total(Old) > Budget => Cardinality(Old \ Pinned) <= 1)
      /\ OverBudgetOnlyForced' = (Total(New) > Budget => Cardinality(New \ Pinned) <= 1)
  BY <1>2 DEF OverBudgetOnlyForced
<1>6. SUFFICES ASSUME Total(New) > Budget
               PROVE  Cardinality(New \ Pinned) <= 1
  BY <1>5
<1>7. CASE New \subseteq Old
  <2>1. Total(New) <= Total(Old)
    BY <1>1, <1>7, TotalGrows
  <2>2. Total(Old) > Budget
    BY <1>3, <1>6, <2>1
  <2>3. Cardinality(Old \ Pinned) <= 1
    BY <1>5, <2>2 DEF BudgetInv
  <2>4. Cardinality(New \ Pinned) <= Cardinality(Old \ Pinned)
    BY <1>4, <1>7, FS_Subset
  <2>5. QED
    BY <1>4, <2>3, <2>4, FS_CardinalityType
<1>8. ASSUME NEW c \in Clients, LoadOk(c), Ready' = Ready \cup {want[c]}, want[c] \in Gpu
      PROVE  Cardinality(New \ Pinned) <= 1
  <2> DEFINE m == want[c]
  <2>1. client[c] = "loading" /\ m \in Models \ Ready
    BY <1>8 DEF LoadOk, Client, IInv, WorkOnUnserved
  <2>2. Total(New) = Vram[m] + Total(Old)
    <3>1. m \in New /\ New \ {m} = Old
      BY <1>8, <2>1
    <3>2. QED
      BY <1>1, <3>1, TotalOf
  <2>3. ~Fits(m)
    BY <1>2, <1>3, <1>6, <2>1, <2>2 DEF Fits
  <2>4. Evictable(m) = {}
    BY <1>8, <2>1, <2>3 DEF BudgetInv, LoadRoom
  <2>5. New \ Pinned \subseteq {m}
    BY <1>8, <2>4 DEF Evictable
  <2>6. IsFiniteSet({m}) /\ Cardinality({m}) = 1
    BY FS_Singleton
  <2>7. New \ Pinned \in SUBSET {m}
    BY <2>5
  <2> HIDE DEF m, New
  <2>8. QED
    BY <2>6, <2>7, FS_Subset
<1>9. QED
  BY <1>7, <1>8, WhoLoads

\* model_manager.h:3, for every budget and every size of the models: the
\* budget is exceeded only by the pinned models and one other.
THEOREM OverBudgetAlwaysForced == SafeSpec => []OverBudgetOnlyForced
<1>1. Init => BudgetInv
  <2>1. SUFFICES ASSUME Init PROVE BudgetInv
    OBVIOUS
  <2>2. Ready = {}
    BY <2>1 DEF Init, Ready
  <2>3. (Ready \cap Gpu) \ Pinned = {}
    BY <2>2
  <2>4. OverBudgetOnlyForced
    BY <2>3, FS_EmptySet DEF OverBudgetOnlyForced
  <2>5. LoadRoom
    BY <2>1 DEF Init, LoadRoom
  <2>6. QED
    BY <2>4, <2>5 DEF BudgetInv
<1>2. IInv /\ BudgetInv /\ [Next]_vars => BudgetInv'
  BY LoadRoomStep, BudgetStep DEF BudgetInv
<1>3. BudgetInv => OverBudgetOnlyForced
  BY DEF BudgetInv
<1>4. QED
  BY <1>1, <1>2, <1>3, Invariance, PTL DEF SafeSpec
=============================================================================
