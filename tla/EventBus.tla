------------------------------ MODULE EventBus ------------------------------
(***************************************************************************)
(* How an open dashboard learns that a table changed.  A thread that has   *)
(* committed rings Store.on_change, which is EventBus.publish: the names   *)
(* of the changed datasets are collected under a lock, a flush is put on   *)
(* the web server's event loop unless one is already on its way, and the   *)
(* flush marks every connected client.  The client's generator, a task of  *)
(* that loop, sends the names to the browser, which fetches the data anew. *)
(* Commits of other processes are seen by a watcher that polls the         *)
(* database's version.                                                     *)
(***************************************************************************)
EXTENDS Naturals, Sequences, FiniteSets

CONSTANTS
  Clients,   \* browsers with the dashboard open
  Handlers,  \* threads of this process that serve its web requests
  Daemon,    \* the thread that tracks the flights
  Datasets   \* the names the store publishes

Threads == Handlers \cup {Daemon}

Anything == "changed"   \* the watcher's name: fetch every dataset
Names == Datasets \cup {Anything}

ASSUME EventBusAssumption == Anything \notin Datasets

VARIABLES
  loop,       \* the web server's event loop: "none", "running" or "closed"
  onChange,   \* Store.on_change is set
  closed,     \* EventBus.closed
  pending,    \* EventBus._pending
  scheduled,  \* EventBus._flush_scheduled
  calls,      \* callbacks handed to the loop by call_soon_threadsafe
  timer,      \* the loop's call_later of _flush is running
  writer,     \* writer[t]: where t's write is, the names it has yet to ring
  holder,     \* the thread that rings while it holds the store's lock
  conn,       \* conn[c]: "off", or the generator is "waiting" or "sending"
  dirty,      \* dirty[c], woken[c]: _Client.dirty and its event
  woken,
  outbox,     \* outbox[c]: the names the generator has taken to send
  unseen,     \* another process committed since the watcher's last poll
  behind      \* history: <<c, d>> when c has not been told of a commit to d

bus == <<closed, pending, scheduled, calls, timer>>
clients == <<conn, dirty, woken, outbox>>
busVars == <<loop, onChange, bus, writer, holder, clients, unseen, behind>>

Nobody == "nobody"
Idle == [at |-> "idle", left |-> {}]
Connected == {c \in Clients : conn[c] # "off"}
Unaware(ns) == Connected \X ns

BusInit ==
  /\ loop = "none" /\ onChange = FALSE
  /\ closed = FALSE /\ pending = {} /\ scheduled = FALSE
  /\ calls = <<>> /\ timer = FALSE
  /\ writer = [t \in Threads |-> Idle] /\ holder = Nobody
  /\ conn = [c \in Clients |-> "off"]
  /\ dirty = [c \in Clients |-> {}]
  /\ woken = [c \in Clients |-> FALSE]
  /\ outbox = [c \in Clients |-> {}]
  /\ unseen = FALSE
  /\ behind = {}

BusTypeOK ==
  /\ loop \in {"none", "running", "closed"}
  /\ {onChange, closed, scheduled, timer, unseen} \subseteq BOOLEAN
  /\ pending \subseteq Names
  /\ calls \in Seq({"arm", "wake"})
  /\ writer \in [Threads -> [at: {"idle", "ring", "arm"}, left: SUBSET Datasets]]
  /\ holder \in Threads \cup {Nobody}
  /\ conn \in [Clients -> {"off", "waiting", "sending"}]
  /\ dirty \in [Clients -> SUBSET Names] /\ outbox \in [Clients -> SUBSET Names]
  /\ woken \in [Clients -> BOOLEAN]
  /\ behind \subseteq Clients \X Datasets

-----------------------------------------------------------------------------
(* The writers.                                                            *)

Free(t) == writer[t].at = "idle"

(* A write commits at once; what remains is to ring its names in turn.     *)
Commit(t, ns, held) ==
  /\ Free(t) /\ holder = Nobody
  /\ writer' = [writer EXCEPT ![t] = [at |-> "ring", left |-> ns]]
  /\ holder' = IF held THEN t ELSE Nobody
  /\ behind' = behind \cup Unaware(ns)
  /\ UNCHANGED <<loop, onChange, bus, clients, unseen>>

(* A method of the flight's life cycle rings under the lock; a batch holds *)
(* it through all its writes, then commits and rings what they changed.    *)
LifecycleWrite == \E d \in Datasets : Commit(Daemon, {d}, TRUE)
BatchWrite == \E ns \in SUBSET Datasets : Cardinality(ns) > 1 /\ Commit(Daemon, ns, TRUE)
(* The methods behind the dashboard's forms ring once they released it.    *)
FormWrite(t) == \E d \in Datasets : Commit(t, {d}, FALSE)

(* The call ends with the last name, or by the exception of a closed loop. *)
Done(t) ==
  /\ writer' = [writer EXCEPT ![t] = Idle]
  /\ holder' = IF holder = t THEN Nobody ELSE holder
Rung(t, d) ==
  IF writer[t].left = {d} THEN Done(t)
  ELSE /\ writer' = [writer EXCEPT ![t] = [at |-> "ring", left |-> @.left \ {d}]]
       /\ UNCHANGED holder

NextName(t) == CHOOSE d \in writer[t].left : TRUE

(* _changed() and publish(), up to the end of its lock: on_change is read  *)
(* once, the name is added, and one flush serves all that are added.       *)
ArmsFlush == ~scheduled /\ loop # "none"
Ring(t) ==
  /\ writer[t].at = "ring"
  /\ IF onChange
     THEN /\ pending' = pending \cup {NextName(t)}
          /\ scheduled' = (scheduled \/ ArmsFlush)
     ELSE UNCHANGED <<pending, scheduled>>
  /\ IF onChange /\ ArmsFlush
     THEN writer' = [writer EXCEPT ![t].at = "arm"] /\ UNCHANGED holder
     ELSE Rung(t, NextName(t))
  /\ UNCHANGED <<loop, onChange, closed, calls, timer, clients, unseen, behind>>

(* call_soon_threadsafe() raises once the loop is closed.                  *)
Arm(t) ==
  /\ writer[t].at = "arm"
  /\ IF loop = "closed"
     THEN Done(t) /\ UNCHANGED calls
     ELSE calls' = Append(calls, "arm") /\ Rung(t, NextName(t))
  /\ UNCHANGED <<loop, onChange, closed, pending, scheduled, timer, clients, unseen, behind>>

WriterStep(t) == Ring(t) \/ Arm(t)

-----------------------------------------------------------------------------
(* The loop.                                                               *)

LoopCall ==
  /\ loop = "running" /\ calls # <<>>
  /\ calls' = Tail(calls)
  /\ timer' = (timer \/ Head(calls) = "arm")
  /\ woken' = [c \in Clients |-> woken[c] \/ (Head(calls) = "wake" /\ c \in Connected)]
  /\ UNCHANGED <<loop, onChange, closed, pending, scheduled, writer, holder, conn, dirty, outbox, unseen, behind>>

Flush ==
  /\ loop = "running" /\ timer
  /\ pending' = {}
  /\ scheduled' = FALSE
  /\ timer' = FALSE
  /\ dirty' = [c \in Clients |-> IF c \in Connected THEN dirty[c] \cup pending ELSE dirty[c]]
  /\ woken' = [c \in Clients |-> woken[c] \/ c \in Connected]
  /\ UNCHANGED <<loop, onChange, closed, calls, writer, holder, conn, outbox, unseen, behind>>

(* The watcher's poll; it reads the version under the store's lock.        *)
Poll ==
  /\ loop = "running" /\ onChange /\ unseen /\ holder = Nobody
  /\ unseen' = FALSE
  /\ pending' = pending \cup {Anything}
  /\ scheduled' = TRUE
  /\ calls' = IF ArmsFlush THEN Append(calls, "arm") ELSE calls
  /\ UNCHANGED <<loop, onChange, closed, timer, writer, holder, clients, behind>>

(* A process with a connection of its own commits.                         *)
ForeignCommit(d) ==
  /\ unseen' = onChange
  /\ behind' = behind \cup Unaware({d})
  /\ UNCHANGED <<loop, onChange, bus, writer, holder, clients>>

-----------------------------------------------------------------------------
(* The generators of /api/events, one for each connected browser.          *)

(* unregister(): the client object is dropped with what it was marked with.*)
Unregister(c) ==
  /\ conn' = [conn EXCEPT ![c] = "off"]
  /\ dirty' = [dirty EXCEPT ![c] = {}]
  /\ woken' = [woken EXCEPT ![c] = FALSE]
  /\ outbox' = [outbox EXCEPT ![c] = {}]
  /\ behind' = {p \in behind : p[1] # c}

(* The browser fetches everything once its connection is up.               *)
Connect(c) ==
  /\ loop = "running" /\ ~closed /\ conn[c] = "off"
  /\ conn' = [conn EXCEPT ![c] = "waiting"]
  /\ UNCHANGED <<loop, onChange, bus, writer, holder, dirty, woken, outbox, unseen, behind>>

(* The event is cleared and the dirty names are taken, in one turn of the  *)
(* loop; with none to send, the generator sees at once whether to go on.   *)
Wake(c) ==
  /\ loop = "running" /\ conn[c] = "waiting" /\ woken[c]
  /\ IF dirty[c] = {} /\ closed
     THEN Unregister(c)
     ELSE /\ woken' = [woken EXCEPT ![c] = FALSE]
          /\ outbox' = [outbox EXCEPT ![c] = dirty[c]]
          /\ dirty' = [dirty EXCEPT ![c] = {}]
          /\ conn' = [conn EXCEPT ![c] = IF dirty[c] = {} THEN @ ELSE "sending"]
          /\ UNCHANGED behind
  /\ UNCHANGED <<loop, onChange, bus, writer, holder, unseen>>

(* STATS_TICK passed without an event: a stats name goes out, and the loop *)
(* of the generator ends if the bus was closed.                            *)
IdleTick(c) ==
  /\ loop = "running" /\ conn[c] = "waiting" /\ closed
  /\ Unregister(c)
  /\ UNCHANGED <<loop, onChange, bus, writer, holder, unseen>>

(* One name goes out and the browser fetches what it stands for; a flush   *)
(* between two names leaves its event set.                                 *)
ClearedLast(c) == FALSE
StillWoken(c) == woken[c]
Refetched(c, n) == {p \in behind : p[1] = c /\ n \in {p[2], Anything}}
Send(c) ==
  /\ loop = "running" /\ conn[c] = "sending"
  /\ \E n \in outbox[c] :
       IF outbox[c] = {n} /\ closed
       THEN Unregister(c)
       ELSE /\ outbox' = [outbox EXCEPT ![c] = @ \ {n}]
            /\ conn' = [conn EXCEPT ![c] = IF outbox[c] = {n} THEN "waiting" ELSE @]
            /\ behind' = behind \ Refetched(c, n)
            /\ woken' = [woken EXCEPT ![c] = StillWoken(c)]
            /\ UNCHANGED dirty
  /\ UNCHANGED <<loop, onChange, bus, writer, holder, unseen>>

Disconnect(c) ==
  /\ conn[c] # "off"
  /\ Unregister(c)
  /\ UNCHANGED <<loop, onChange, bus, writer, holder, unseen>>

-----------------------------------------------------------------------------
(* The lifespan of the web application.                                    *)

Attach ==
  /\ loop = "none"
  /\ loop' = "running" /\ onChange' = TRUE /\ unseen' = FALSE
  /\ UNCHANGED <<bus, writer, holder, clients, behind>>

(* Shut down, in one turn: the watcher is cancelled, writes publish        *)
(* nothing, and the bus wakes every generator.                             *)
Detach ==
  /\ loop = "running" /\ ~closed
  /\ onChange' = FALSE /\ closed' = TRUE /\ unseen' = FALSE
  /\ calls' = Append(calls, "wake")
  /\ UNCHANGED <<loop, pending, scheduled, timer, writer, holder, clients, behind>>
(* The loop ends, and with it whatever still runs on it.                   *)
LoopEnds ==
  /\ loop = "running" /\ closed
  /\ loop' = "closed"
  /\ conn' = [c \in Clients |-> "off"]
  /\ dirty' = [c \in Clients |-> {}]
  /\ woken' = [c \in Clients |-> FALSE]
  /\ outbox' = [c \in Clients |-> {}]
  /\ calls' = <<>> /\ timer' = FALSE
  /\ behind' = {}
  /\ UNCHANGED <<onChange, closed, pending, scheduled, writer, holder, unseen>>

(* The process exits or is killed: nothing of this outlives it.            *)
ProcessEnds ==
  /\ loop # "none"
  /\ loop' = "none" /\ onChange' = FALSE
  /\ closed' = FALSE /\ pending' = {} /\ scheduled' = FALSE
  /\ calls' = <<>> /\ timer' = FALSE
  /\ writer' = [t \in Threads |-> Idle] /\ holder' = Nobody
  /\ conn' = [c \in Clients |-> "off"]
  /\ dirty' = [c \in Clients |-> {}]
  /\ woken' = [c \in Clients |-> FALSE]
  /\ outbox' = [c \in Clients |-> {}]
  /\ unseen' = FALSE
  /\ behind' = {}

BusNext ==
  \/ LifecycleWrite \/ BatchWrite
  \/ \E t \in Handlers : FormWrite(t)
  \/ \E t \in Threads : WriterStep(t)
  \/ LoopCall \/ Flush \/ Poll
  \/ \E d \in Datasets : ForeignCommit(d)
  \/ \E c \in Clients :
       Connect(c) \/ Wake(c) \/ IdleTick(c) \/ Send(c) \/ Disconnect(c)
  \/ Attach \/ Detach \/ LoopEnds \/ ProcessEnds

BusSpec == BusInit /\ [][BusNext]_busVars

(* Threads run, the loop serves what is due on it, and the watcher, which  *)
(* contends for the store's lock, gets it now and then.                    *)
BusFairness ==
  /\ \A t \in Threads : WF_busVars(WriterStep(t))
  /\ WF_busVars(LoopCall) /\ WF_busVars(Flush) /\ SF_busVars(Poll)
  /\ \A c \in Clients : WF_busVars(Wake(c)) /\ WF_busVars(Send(c))

(* A browser that has the dashboard open is told of every commit, by this  *)
(* process or another, after the commit: however many names are coalesced  *)
(* and whatever thread committed, unless it or the server goes away.       *)
EveryChangeIsTold ==
  \A c \in Clients, d \in Datasets : (<<c, d>> \in behind) ~> (<<c, d>> \notin behind)

-----------------------------------------------------------------------------
(* What EveryChangeIsTold rests on, state by state.                        *)

Arming == {t \in Threads : writer[t].at = "arm"}
Queued(call) == {i \in 1..Len(calls) : calls[i] = call}

(* _flush_scheduled tells the truth: while the loop runs, it is set just   *)
(* when a flush is on its way - by a thread between publish's lock and     *)
(* call_soon_threadsafe, by a callback of the loop, or by the timer - and  *)
(* there is never a second one.                                            *)
OneFlush ==
  loop = "running" =>
    /\ scheduled <=> Arming # {} \/ Queued("arm") # {} \/ timer
    /\ \A t, u \in Arming : t = u
    /\ \A i, j \in Queued("arm") : i = j
    /\ Arming = {} \/ Queued("arm") = {}
    /\ timer => Arming = {} /\ Queued("arm") = {}

(* Where the news of a commit can be on its way to a browser.              *)
Coming(c, d) ==
  \/ \E t \in Threads : d \in writer[t].left
  \/ unseen
  \/ scheduled /\ {d, Anything} \cap pending # {}
  \/ woken[c] /\ {d, Anything} \cap dirty[c] # {}
  \/ conn[c] = "sending" /\ {d, Anything} \cap outbox[c] # {}

(* No commit that a browser was not told of is ever lost on the way: up to *)
(* the shutdown, a thread has yet to ring it, the watcher to see it, a     *)
(* scheduled flush to hand it out, or the client's generator, which is     *)
(* woken, to send it.                                                      *)
NothingIsLost == ~closed => \A p \in behind : Coming(p[1], p[2])

(* Closing the bus misses no generator, whatever each was doing: one that  *)
(* waits is woken, or will be by the loop; one that sends looks when done. *)
NoneLeftWaiting ==
  closed => \A c \in Connected :
              conn[c] = "sending" \/ woken[c] \/ Queued("wake") # {}

(* Whoever holds the store's lock still has a name to ring: the exception  *)
(* of a closed loop gives the lock back like a return does.                *)
LockIsGivenBack == holder # Nobody => ~Free(holder)
=============================================================================
