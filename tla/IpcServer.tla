----------------------------- MODULE IpcServer -----------------------------
(***************************************************************************)
(* The orchestrator's socket server (include/ipc_server.h): an accept     *)
(* thread, one detached thread per client, and broadcasts by any thread.  *)
(* mtx_ protects the set of client descriptors and the snapshot, and is   *)
(* held for a whole broadcast, its blocking sends included. Descriptors   *)
(* are numbers: the kernel gives a number that was closed to the next     *)
(* connection it accepts, whoever still remembers it.                     *)
(***************************************************************************)
EXTENDS Naturals, Sequences, FiniteSets

CONSTANTS Conns,        \* the connections clients make, numbered as accepted
          Fds,          \* descriptor numbers
          None,         \* no connection, no descriptor, no broadcast
          CachedOrder,  \* the types kept for replay, in the order of the map
          Uncached,     \* other types of lines
          Says,         \* what the lines of each type may say
          Buffer,       \* lines a socket takes before send blocks
          MaxLog        \* bound: the number of broadcasts considered

Cached == {CachedOrder[i] : i \in DOMAIN CachedOrder}
Values == UNION {Says[t] : t \in Cached \cup Uncached}
Lines == UNION {{t} \X Says[t] : t \in Cached \cup Uncached}

ASSUME ConnsAssumption == Conns \subseteq Nat
ASSUME NoneAssumption == None \notin Conns \cup Fds \cup Values \cup [line : Lines, todo : SUBSET Fds]
ASSUME CachedOrderAssumption == CachedOrder \in Seq(Cached)
ASSUME BufferAssumption == Buffer \in Nat /\ Buffer >= Len(CachedOrder) /\ Buffer > 0
ASSUME MaxLogAssumption == MaxLog \in Nat

VARIABLES running,      \* running_
          acceptor,     \* the accept thread
          pending,      \* the connection it is about to register
          table,        \* the kernel's descriptor table
          clients,      \* clients_
          snapshot,     \* snapshot_: the latest value of each cached type
          cast,         \* the broadcast that holds mtx_, or None
          peer,         \* the client's end of each connection
          fd,           \* the number each connection was accepted with
          thread,       \* the thread of each connection, clientLoop
          on,           \* the connection a blocked recv really reads from
          got,          \* history: lines sent into each connection
          unread,       \* how many of them the client has not read
          log,          \* history: the lines broadcast so far
          joined,       \* history: Len(log) when a connection was registered
          stolen        \* history: connections another's number was mistaken for

server == <<running, acceptor, pending>>
kernel == <<table, peer, fd, unread>>
history == <<got, log, joined, stolen>>
vars == <<server, kernel, history, clients, snapshot, cast, thread, on>>

LockFree == cast = None

Init ==
  /\ running = TRUE
  /\ acceptor = "accept"
  /\ pending = None
  /\ table = [f \in Fds |-> None]
  /\ clients = {}
  /\ snapshot = [t \in Cached |-> None]
  /\ cast = None
  /\ peer = [k \in Conns |-> "new"]
  /\ fd = [k \in Conns |-> None]
  /\ thread = [k \in Conns |-> "none"]
  /\ on = [k \in Conns |-> None]
  /\ got = [k \in Conns |-> <<>>]
  /\ unread = [k \in Conns |-> 0]
  /\ log = <<>>
  /\ joined = [k \in Conns |-> 0]
  /\ stolen = {}

(***************************************************************************)
(* The clients.                                                            *)
(***************************************************************************)
Read(k) ==
  /\ peer[k] = "up"
  /\ unread[k] > 0
  /\ unread' = [unread EXCEPT ![k] = @ - 1]
  /\ UNCHANGED <<server, table, peer, fd, history, clients, snapshot, cast, thread, on>>

HangUp(k) ==
  /\ peer[k] = "up"
  /\ peer' = [peer EXCEPT ![k] = "gone"]
  /\ unread' = [unread EXCEPT ![k] = 0]
  /\ UNCHANGED <<server, table, fd, history, clients, snapshot, cast, thread, on>>

(***************************************************************************)
(* acceptLoop                                                              *)
(***************************************************************************)
Accept(k) ==
  /\ running
  /\ acceptor = "accept"
  /\ peer[k] = "new"
  /\ \A j \in Conns : j < k => peer[j] # "new"
  /\ peer' = [peer EXCEPT ![k] = "up"]
  /\ \E f \in Fds :
       /\ table[f] = None
       /\ table' = [table EXCEPT ![f] = k]
       /\ fd' = [fd EXCEPT ![k] = f]
       /\ stolen' = stolen \cup (IF f \in clients THEN {k} ELSE {})
  /\ pending' = k
  /\ acceptor' = "register"
  /\ UNCHANGED <<running, unread, got, log, joined, clients, snapshot, cast, thread, on>>

\* Mutant: the snapshot is replayed with the types nobody has broadcast.
ReplayAll == [i \in DOMAIN CachedOrder |-> <<CachedOrder[i], snapshot[CachedOrder[i]]>>]

\* The lines of the cached types that have been broadcast, in the order of
\* the map; Replayed[i] is those of the first i types.
Replayed[i \in 0..Len(CachedOrder)] ==
  IF i = 0
  THEN <<>>
  ELSE LET t == CachedOrder[i]
       IN  IF snapshot[t] = None
           THEN Replayed[i - 1]
           ELSE Append(Replayed[i - 1], <<t, snapshot[t]>>)

Replay == Replayed[Len(CachedOrder)]

Open(k) == table[fd[k]] = k /\ peer[k] = "up"

\* One critical section: insert the descriptor, replay the snapshot.
Register ==
  /\ acceptor = "register"
  /\ LockFree
  /\ clients' = clients \cup {fd[pending]}
  /\ IF Open(pending)
     THEN /\ unread[pending] + Len(Replay) <= Buffer
          /\ got' = [got EXCEPT ![pending] = @ \o Replay]
          /\ unread' = [unread EXCEPT ![pending] = @ + Len(Replay)]
     ELSE UNCHANGED <<got, unread>>
  /\ joined' = [joined EXCEPT ![pending] = Len(log)]
  /\ acceptor' = "spawn"
  /\ UNCHANGED <<running, pending, table, peer, fd, log, stolen, snapshot, cast, thread, on>>

\* recv(c): the kernel looks the number up once, when the call begins.
EnterRecv(k) ==
  IF running /\ table[fd[k]] # None
  THEN /\ thread' = [thread EXCEPT ![k] = "recv"]
       /\ on' = [on EXCEPT ![k] = table[fd[k]]]
  ELSE /\ thread' = [thread EXCEPT ![k] = "erase"]
       /\ on' = [on EXCEPT ![k] = None]

Spawn ==
  /\ acceptor = "spawn"
  /\ EnterRecv(pending)
  /\ pending' = None
  /\ acceptor' = "accept"
  /\ UNCHANGED <<running, kernel, history, clients, snapshot, cast>>

(***************************************************************************)
(* clientLoop(c)                                                           *)
(***************************************************************************)
RecvLine(k) ==
  /\ thread[k] = "recv"
  /\ peer[on[k]] = "up"
  /\ thread' = [thread EXCEPT ![k] = "handle"]
  /\ UNCHANGED <<server, kernel, history, clients, snapshot, cast, on>>

\* cb_ returned (it may have broadcast: any thread may); back to recv.
Handled(k) ==
  /\ thread[k] = "handle"
  /\ EnterRecv(k)
  /\ UNCHANGED <<server, kernel, history, clients, snapshot, cast>>

RecvEnd(k) ==
  /\ thread[k] = "recv"
  /\ peer[on[k]] = "gone"
  /\ thread' = [thread EXCEPT ![k] = "erase"]
  /\ on' = [on EXCEPT ![k] = None]
  /\ UNCHANGED <<server, kernel, history, clients, snapshot, cast>>

\* The connection that has been given the number of k since.
Heir(k) == {table[fd[k]]} \ {k, None}

Erase(k) ==
  /\ thread[k] = "erase"
  /\ LockFree
  /\ clients' = clients \ {fd[k]}
  /\ thread' = [thread EXCEPT ![k] = "close"]
  /\ stolen' = stolen \cup (IF fd[k] \in clients THEN Heir(k) ELSE {})
  /\ UNCHANGED <<server, kernel, got, log, joined, snapshot, cast, on>>

Close(k) ==
  /\ thread[k] = "close"
  /\ table' = [table EXCEPT ![fd[k]] = None]
  /\ thread' = [thread EXCEPT ![k] = "ended"]
  /\ stolen' = stolen \cup Heir(k)
  /\ UNCHANGED <<server, peer, fd, unread, got, log, joined, clients, snapshot, cast, on>>

(***************************************************************************)
(* broadcast(json)                                                         *)
(***************************************************************************)
\* Mutant: insert instead of operator[]: the first value of a type stays.
BroadcastKeepsFirst(line) ==
  /\ LockFree
  /\ Len(log) < MaxLog
  /\ log' = Append(log, line)
  /\ snapshot' = [t \in Cached |->
                   IF t = line[1] /\ snapshot[t] = None THEN line[2] ELSE snapshot[t]]
  /\ cast' = [line |-> line, todo |-> clients]
  /\ UNCHANGED <<server, kernel, got, joined, stolen, clients, thread, on>>

Broadcast(line) ==
  /\ LockFree
  /\ Len(log) < MaxLog
  /\ log' = Append(log, line)
  /\ snapshot' = [t \in Cached |-> IF t = line[1] THEN line[2] ELSE snapshot[t]]
  /\ cast' = [line |-> line, todo |-> clients]
  /\ UNCHANGED <<server, kernel, got, joined, stolen, clients, thread, on>>

Done(f) == cast' = [cast EXCEPT !.todo = @ \ {f}]

\* A send that the socket can take; a client that does not read blocks it.
Send(f) ==
  /\ cast # None
  /\ f \in cast.todo
  /\ LET k == table[f]
     IN /\ k # None
        /\ peer[k] = "up"
        /\ unread[k] < Buffer
        /\ got' = [got EXCEPT ![k] = Append(@, cast.line)]
        /\ unread' = [unread EXCEPT ![k] = @ + 1]
  /\ Done(f)
  /\ UNCHANGED <<server, table, peer, fd, log, joined, stolen, clients, snapshot, thread, on>>

\* Mutant: the loop stays at a client whose send fails.
SendFailsStuck(f) ==
  /\ cast # None
  /\ f \in cast.todo
  /\ table[f] # None => peer[table[f]] = "gone"
  /\ UNCHANGED <<server, kernel, history, clients, snapshot, cast, thread, on>>

\* A send that fails: the client hung up, or the number is not open.
SendFails(f) ==
  /\ cast # None
  /\ f \in cast.todo
  /\ table[f] # None => peer[table[f]] = "gone"
  /\ table' = [table EXCEPT ![f] = None]
  /\ clients' = clients \ {f}
  /\ Done(f)
  /\ UNCHANGED <<server, peer, fd, unread, history, snapshot, thread, on>>

BroadcastEnd ==
  /\ cast # None
  /\ cast.todo = {}
  /\ cast' = None
  /\ UNCHANGED <<server, kernel, history, clients, snapshot, thread, on>>

BroadcastProceeds == BroadcastEnd \/ \E f \in Fds : Send(f) \/ SendFails(f)

(***************************************************************************)
(* stop(): the flag and the listening socket, the accept thread, and the  *)
(* descriptors, under mtx_. The client threads are detached.               *)
(***************************************************************************)
StopAccepting ==
  /\ running
  /\ running' = FALSE
  /\ UNCHANGED <<acceptor, pending, kernel, history, clients, snapshot, cast, thread, on>>

AcceptorEnds ==
  /\ ~running
  /\ acceptor = "accept"
  /\ acceptor' = "ended"
  /\ UNCHANGED <<running, pending, kernel, history, clients, snapshot, cast, thread, on>>

CloseAll ==
  /\ acceptor = "ended"
  /\ LockFree
  /\ table' = [f \in Fds |-> IF f \in clients THEN None ELSE table[f]]
  /\ clients' = {}
  /\ acceptor' = "closed"
  /\ UNCHANGED <<running, pending, peer, fd, unread, history, snapshot, cast, thread, on>>

Next ==
  \/ \E k \in Conns :
       \/ Read(k) \/ HangUp(k) \/ Accept(k)
       \/ RecvLine(k) \/ Handled(k) \/ RecvEnd(k) \/ Erase(k) \/ Close(k)
  \/ Register
  \/ Spawn
  \/ \E line \in Lines : Broadcast(line)
  \/ BroadcastProceeds
  \/ StopAccepting
  \/ AcceptorEnds
  \/ CloseAll

\* Broadcasting threads are scheduled, and clients that stay connected read.
Spec ==
  /\ Init
  /\ [][Next]_vars
  /\ WF_vars(BroadcastProceeds)
  /\ \A k \in Conns : WF_vars(Read(k))

(***************************************************************************)
(* Properties.                                                             *)
(***************************************************************************)
\* The type of every variable.
TypeOK ==
  /\ running \in BOOLEAN
  /\ acceptor \in {"accept", "register", "spawn", "ended", "closed"}
  /\ pending \in Conns \cup {None}
  /\ table \in [Fds -> Conns \cup {None}]
  /\ clients \subseteq Fds
  /\ snapshot \in [Cached -> Values \cup {None}]
  /\ cast \in {None} \cup [line : Lines, todo : SUBSET Fds]
  /\ peer \in [Conns -> {"new", "up", "gone"}]
  /\ fd \in [Conns -> Fds \cup {None}]
  /\ thread \in [Conns -> {"none", "recv", "handle", "erase", "close", "ended"}]
  /\ on \in [Conns -> Conns \cup {None}]
  /\ got \in [Conns -> Seq(Lines)]
  /\ unread \in [Conns -> 0..Buffer]
  /\ log \in Seq(Lines)
  /\ joined \in [Conns -> 0..MaxLog]
  /\ stolen \subseteq Conns

\* The last line of its type.
Latest(line, lines) ==
  \E i \in DOMAIN lines :
    lines[i] = line /\ \A j \in DOMAIN lines : j > i => lines[j][1] # line[1]

\* What a client that joins after these lines must be shown first: the
\* latest of each cached type, none left out, in the order of the map.
Current(shown, lines) ==
  /\ \A i \in DOMAIN shown : shown[i][1] \in Cached /\ Latest(shown[i], lines)
  /\ \A j \in DOMAIN lines :
       lines[j][1] \in Cached => \E i \in DOMAIN shown : shown[i][1] = lines[j][1]
  /\ \A i, j \in DOMAIN shown : i < j =>
       \E a, b \in DOMAIN CachedOrder :
         a < b /\ CachedOrder[a] = shown[i][1] /\ CachedOrder[b] = shown[j][1]

\* The acceptor has registered k, and the client was there to be shown
\* what is current.
Joined(k) ==
  /\ peer[k] = "up" \/ (peer[k] = "gone" /\ got[k] # <<>>)
  /\ ~(acceptor = "register" /\ pending = k)

\* Connection k was sent m lines when it joined, and n more since.
Fed(k, m, n) ==
  /\ Len(got[k]) = m + n
  /\ Current(SubSeq(got[k], 1, m), SubSeq(log, 1, joined[k]))
  /\ joined[k] + n <= Len(log)
  /\ \A i \in 1..n : got[k][m + i] = log[joined[k] + i]

\* A client sees the current captions and then every line broadcast since,
\* in order, none twice and none left out, and as long as it stays connected
\* it is up to date as soon as the broadcast in progress has passed it,
\* whatever joins, leaves and broadcasts cross each other. Not so a client
\* whose number a thread still takes for that of an earlier client, or that
\* was given one a broadcast still takes for another's (`stolen`).
FeedContiguous ==
  \A k \in Conns \ stolen : Joined(k) =>
    \E m \in 0..Len(got[k]) :
      LET n == Len(got[k]) - m
      IN  /\ Fed(k, m, n)
          /\ running /\ peer[k] = "up" /\ (cast # None => fd[k] \notin cast.todo)
               => joined[k] + n = Len(log)

\* No broadcast holds the mutex for ever as long as the connected clients
\* read: a client that hung up is skipped, not waited for.
BroadcastCompletes == (cast # None) ~> (cast = None)
=============================================================================
