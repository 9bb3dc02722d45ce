---------------------------- MODULE ModelManager ----------------------------
(***************************************************************************)
(* The arbiter of the model workers (include/model_manager.h). Threads    *)
(* acquire a model by name; one mutex is held for the whole of an acquire, *)
(* the evictions and the load included, and for one sweep of the reaper.  *)
(*                                                                         *)
(* lastUsed is kept as the time since (age), cut off at MaxAge: beyond it *)
(* two models count as equally old, and std::sort may put either first.   *)
(* The worker process behind a model is part of the state, because it can *)
(* die while the manager believes it Ready.                               *)
(***************************************************************************)
EXTENDS Naturals, FiniteSets, FiniteSetsExt

CONSTANTS Clients,      \* threads that call acquire
          Models,       \* the registered models
          Pinned,       \* models never unloaded
          Gpu,          \* models that count against the budget
          Vram,         \* vramMB of each model
          Budget,       \* vramBudget_
          Ttl,          \* idleTtlMs in ticks
          MaxAge,       \* ages beyond this bound are not told apart
          Nobody        \* nobody holds the mutex, or no name is asked for

ASSUME ModelsAssumption ==
  /\ IsFiniteSet(Models)
  /\ Pinned \subseteq Models
  /\ Gpu \subseteq Models
  /\ Vram \in [Models -> Nat]
ASSUME NumbersAssumption == Budget \in Nat /\ Ttl \in Nat /\ MaxAge \in Nat /\ MaxAge > Ttl
ASSUME NobodyAssumption == Nobody \notin Clients \cup Models

VARIABLES state,        \* ModelState of each model
          age,          \* time since lastUsed, 0 for a model that is not Ready
          alive,        \* models with a live worker process
          holder,       \* the client that holds mtx_, or Nobody
          client,       \* where each client is
          want,         \* the name it passed to acquire, or Nobody
          running,      \* running_
          reaper        \* the reaper thread: "on" or "done"

vars == <<state, age, alive, holder, client, want, running, reaper>>

Ready == {m \in Models : state[m] = "Ready"}
LockFree == holder = Nobody

GpuUsed == MapThenSumSet(LAMBDA m : Vram[m], Ready \cap Gpu)

\* gpuUsedLocked() + needMB <= vramBudget_
Fits(m) == GpuUsed + Vram[m] <= Budget

\* Mutant: the candidates are not filtered by pinned.
EvictablePinnedToo(m) == (Ready \cap Gpu) \ {m}

\* What evictGpuForLocked may unload for m, and what it unloads first.
Evictable(m) == (Ready \cap Gpu) \ (Pinned \cup {m})

\* Mutant: the candidates are sorted the other way round.
Newest(m) == {v \in Evictable(m) : \A w \in Evictable(m) : age[v] <= age[w]}

Oldest(m) == {v \in Evictable(m) : \A w \in Evictable(m) : age[w] <= age[v]}

Init ==
  /\ state = [m \in Models |-> "Unloaded"]
  /\ age = [m \in Models |-> 0]
  /\ alive = {}
  /\ holder = Nobody
  /\ client = [c \in Clients |-> "idle"]
  /\ want = [c \in Clients |-> Nobody]
  /\ running = TRUE
  /\ reaper = "on"

Tick ==
  /\ \E m \in Ready : age[m] < MaxAge
  /\ age' = [m \in Models |-> IF m \in Ready /\ age[m] < MaxAge THEN age[m] + 1 ELSE age[m]]
  /\ UNCHANGED <<state, alive, holder, client, want, running, reaper>>

(***************************************************************************)
(* acquire(name). An unregistered name is refused and changes nothing.    *)
(***************************************************************************)
Client(c, from, to) == client[c] = from /\ client' = [client EXCEPT ![c] = to]

AcquireReady(c) ==
  /\ LockFree
  /\ Client(c, "idle", "using")
  /\ \E m \in Ready :
       /\ want' = [want EXCEPT ![c] = m]
       /\ age' = [age EXCEPT ![m] = 0]
  /\ UNCHANGED <<state, alive, holder, running, reaper>>

\* Mutant: models_[name] instead of find, which registers any name.
AcquireAnyName(c) ==
  /\ LockFree
  /\ Client(c, "idle", "evicting")
  /\ \E m \in (Models \cup {Nobody}) \ Ready : want' = [want EXCEPT ![c] = m]
  /\ holder' = c
  /\ UNCHANGED <<state, age, alive, running, reaper>>

\* Mutant: the mutex is given up for the time of the load.
AcquireUnlocked(c) ==
  /\ LockFree
  /\ Client(c, "idle", "evicting")
  /\ \E m \in Models \ Ready : want' = [want EXCEPT ![c] = m]
  /\ UNCHANGED <<state, age, alive, holder, running, reaper>>

AcquireUnloaded(c) ==
  /\ LockFree
  /\ Client(c, "idle", "evicting")
  /\ \E m \in Models \ Ready : want' = [want EXCEPT ![c] = m]
  /\ holder' = c
  /\ UNCHANGED <<state, age, alive, running, reaper>>

\* doUnload kills the worker process and waits for it.
Unload(gone) ==
  /\ state' = [m \in Models |-> IF m \in gone THEN "Unloaded" ELSE state[m]]
  /\ alive' = alive \ gone
  /\ age' = [m \in Models |-> IF m \in gone THEN 0 ELSE age[m]]

\* One round of the loop over the candidates, the least recently used first.
Evict(c) ==
  /\ Client(c, "evicting", "evicting")
  /\ want[c] \in Gpu
  /\ ~Fits(want[c])
  /\ \E victim \in Oldest(want[c]) : Unload({victim})
  /\ UNCHANGED <<holder, want, running, reaper>>

\* Mutant: the load begins whatever evictGpuForLocked has achieved.
StartLoadUnfit(c) ==
  /\ Client(c, "evicting", "loading")
  /\ state' = [state EXCEPT ![want[c]] = "Loading"]
  /\ UNCHANGED <<age, alive, holder, want, running, reaper>>

\* The load begins when the model fits, or when nothing is left to evict.
StartLoad(c) ==
  /\ Client(c, "evicting", "loading")
  /\ want[c] \in Gpu => Fits(want[c]) \/ Evictable(want[c]) = {}
  /\ state' = [state EXCEPT ![want[c]] = "Loading"]
  /\ UNCHANGED <<age, alive, holder, want, running, reaper>>

LoadOk(c) ==
  /\ Client(c, "loading", "using")
  /\ state' = [state EXCEPT ![want[c]] = "Ready"]
  /\ alive' = alive \cup {want[c]}
  /\ age' = [age EXCEPT ![want[c]] = 0]
  /\ holder' = Nobody
  /\ UNCHANGED <<want, running, reaper>>

\* The first line was not READY: the worker exited, or runs on and said
\* something else. Nobody kills it.
LoadFailed(c) ==
  /\ Client(c, "loading", "idle")
  /\ want' = [want EXCEPT ![c] = Nobody]
  /\ state' = [state EXCEPT ![want[c]] = "Unloaded"]
  /\ alive' \in {alive \ {want[c]}, alive \cup {want[c]}}
  /\ holder' = Nobody
  /\ UNCHANGED <<age, running, reaper>>

\* The caller is done with the worker it acquired.
Return(c) ==
  /\ Client(c, "using", "idle")
  /\ want' = [want EXCEPT ![c] = Nobody]
  /\ UNCHANGED <<state, age, alive, holder, running, reaper>>

\* touch(name)
Touch(m) ==
  /\ LockFree
  /\ m \in Ready
  /\ age' = [age EXCEPT ![m] = 0]
  /\ UNCHANGED <<state, alive, holder, client, want, running, reaper>>

(***************************************************************************)
(* The reaper thread, stop(), and the worker processes.                    *)
(***************************************************************************)
\* Mutant: only GPU models are swept.
IdleTooLongGpu == {m \in (Ready \ Pinned) \cap Gpu : age[m] > Ttl}

IdleTooLong == {m \in Ready \ Pinned : age[m] > Ttl}

\* One sweep, under the mutex from its first model to its last.
Reap ==
  /\ reaper = "on"
  /\ LockFree
  /\ Unload(IdleTooLong)
  /\ reaper' = IF running THEN "on" ELSE "done"
  /\ UNCHANGED <<holder, client, want, running>>

Stop ==
  /\ running
  /\ running' = FALSE
  /\ UNCHANGED <<state, age, alive, holder, client, want, reaper>>

\* A worker process crashes, or is killed by the kernel for its memory.
WorkerDies(m) ==
  /\ m \in alive
  /\ alive' = alive \ {m}
  /\ UNCHANGED <<state, age, holder, client, want, running, reaper>>

Acquiring(c) == Evict(c) \/ StartLoad(c) \/ LoadOk(c) \/ LoadFailed(c)

ClientStep(c) ==
  \/ AcquireReady(c) \/ AcquireUnloaded(c)
  \/ Acquiring(c) \/ Return(c)

Next ==
  \/ Tick
  \/ \E c \in Clients : ClientStep(c)
  \/ \E m \in Models : Touch(m) \/ WorkerDies(m)
  \/ Reap
  \/ Stop

SafeSpec == Init /\ [][Next]_vars

\* Time passes, a load succeeds or fails in the end, and the reaper, which
\* contends for the mutex once a second, gets it sooner or later.
Spec ==
  /\ SafeSpec
  /\ WF_vars(Tick)
  /\ \A c \in Clients : WF_vars(Acquiring(c))
  /\ SF_vars(Reap)

(***************************************************************************)
(* Properties.                                                             *)
(***************************************************************************)
ModelStates == {"Unloaded", "Loading", "Ready"}
ClientPlaces == {"idle", "evicting", "loading", "using"}

\* The type of every variable.
TypeOK ==
  /\ state \in [Models -> ModelStates]
  /\ age \in [Models -> 0..MaxAge]
  /\ alive \subseteq Models
  /\ holder \in Clients \cup {Nobody}
  /\ client \in [Clients -> ClientPlaces]
  /\ want \in [Clients -> Models \cup {Nobody}]
  /\ running \in BOOLEAN
  /\ reaper \in {"on", "done"}

\* model_manager.h:2: no eviction, no sweep and no reload takes a pinned
\* model out of Ready.
PinnedStay ==
  [][\A m \in Pinned : state[m] = "Ready" => state'[m] = "Ready"]_vars

\* model_manager.h:3: the budget may be exceeded, but only by what cannot be
\* evicted: the pinned models and the one model loaded last.
OverBudgetOnlyForced ==
  GpuUsed > Budget => Cardinality((Ready \cap Gpu) \ Pinned) <= 1

\* One worker process per model: nobody starts a worker for a model that is
\* already served, and no two threads start workers at the same time.
LoadsOnlyUnserved ==
  \A c \in Clients : client[c] \in {"evicting", "loading"} =>
    /\ want[c] \notin Ready
    /\ \A d \in Clients : client[d] = "loading" => d = c

\* An acquire that must make room never takes a model while it spares one
\* that has been idle for longer.
EvictsOldestFirst ==
  [][holder # Nobody =>
       \A v, w \in (Ready \cap Gpu) \ Pinned :
         state'[v] = "Unloaded" /\ state'[w] = "Ready" => age[w] <= age[v]]_vars

\* What the reaper is for: a model that is neither pinned nor used leaves the
\* GPU, however busy the manager is with other models.
IdleLeaves ==
  \A m \in Models \ Pinned :
    (m \in Ready /\ age[m] > Ttl) ~> (m \notin Ready \/ age[m] <= Ttl \/ reaper = "done")
=============================================================================
