------------------------------ MODULE CollabHub ------------------------------
(***************************************************************************)
(* The collaboration hub (internal/collab): websocket clients that edit    *)
(* one resource join its room, keep a session row alive, take and release  *)
(* the resource's lock and hear of each other.  Tables collab_sessions and *)
(* collab_locks have unique keys (resource, user) and (resource), and rows *)
(* are soft-deleted, so that a key stays taken.                            *)
(***************************************************************************)
EXTENDS Integers, FiniteSets

CONSTANTS
  Peers,           \* connections
  UserOf,          \* the user of each connection
  MaxSubscribers   \* HubOptions.MaxSubscribers

VARIABLES
  at,          \* per peer: how far its goroutine is
  cancelled,   \* per peer: its context is cancelled
  sendOpen,    \* per peer: its channel send has not been closed
  once,        \* per peer: client.once, who runs close: "no", "self" or "shutdown"
  expired,     \* per peer: its own heartbeat found its session's row gone
  lockHeld,    \* per peer: client.lock is set
  sessions,    \* Hub.sessions
  room,        \* Hub.rooms of the resource
  mu,          \* who holds Hub.mu for writing, or Free
  sessionRow,  \* per user: [id, deleted] or NoLock
  lockRow,     \* the row of the resource's lock: [session, deleted] or NoLock
  stopping,    \* Hub.Shutdown: "no", "locked", "timeout" or "done"
  sentClosed   \* who has sent on a closed channel: a peer's own reader, or the hub

hubVars == <<at, cancelled, sendOpen, once, expired, lockHeld, sessions, room, mu, sessionRow,
             lockRow, stopping, sentClosed>>

NoLock == [none |-> TRUE]
Free == "free"
Shutdown_ == "shutdown"
TheHub == "hub"

HubInit ==
  /\ at = [c \in Peers |-> "away"]
  /\ cancelled = [c \in Peers |-> FALSE]
  /\ sendOpen = [c \in Peers |-> TRUE]
  /\ once = [c \in Peers |-> "no"]
  /\ expired = [c \in Peers |-> FALSE]
  /\ lockHeld = [c \in Peers |-> FALSE]
  /\ sessions = {} /\ room = {} /\ mu = Free
  /\ sessionRow = [u \in {UserOf[c] : c \in Peers} |-> NoLock]
  /\ lockRow = NoLock
  /\ stopping = "no" /\ sentClosed = {}

To(c, next) == at' = [at EXCEPT ![c] = next]

\* broadcast: under the read lock every member of the room but one is sent the
\* message; enqueue drops it when the channel is full and panics on a closed one.
broadcast(targets) ==
  /\ mu = Free
  /\ sentClosed' = IF \E p \in targets : ~sendOpen[p] THEN sentClosed \cup {TheHub} ELSE sentClosed

\* enqueue by a peer's own goroutine.
enqueue(c) == sentClosed' = IF sendOpen[c] THEN sentClosed ELSE sentClosed \cup {c}

---------------------------------------------------------------------------
\* Joining: ServeHTTP and newClient

ensureCapacity == mu = Free /\ Cardinality(sessions) < MaxSubscribers

ServeHTTP(c) ==
  /\ at[c] = "away" /\ ensureCapacity
  /\ To(c, "admitted")
  /\ UNCHANGED <<cancelled, sendOpen, once, expired, lockHeld, sessions, room, mu, sessionRow, lockRow,
                 stopping, sentClosed>>

\* UpsertSession: a row of the same user keeps its id and is revived.
UpsertSession(c) ==
  /\ at[c] = "admitted"
  /\ LET u == UserOf[c] IN
       sessionRow' = [sessionRow EXCEPT ![u] =
         IF @ = NoLock THEN [id |-> c, deleted |-> FALSE] ELSE [@ EXCEPT !.deleted = FALSE]]
  /\ To(c, "stored")
  /\ UNCHANGED <<cancelled, sendOpen, once, expired, lockHeld, sessions, room, mu, lockRow, stopping, sentClosed>>

register(c) ==
  /\ at[c] = "stored" /\ mu = Free
  /\ sessions' = sessions \union {c} /\ room' = room \union {c}
  /\ To(c, "registered")
  /\ UNCHANGED <<cancelled, sendOpen, once, expired, lockHeld, mu, sessionRow, lockRow, stopping, sentClosed>>

\* The snapshot is queued and the others hear of the newcomer; then its loops run.
newClient(c) ==
  /\ at[c] = "registered"
  /\ broadcast(room)
  /\ To(c, "running")
  /\ UNCHANGED <<cancelled, sendOpen, once, expired, lockHeld, sessions, room, mu, sessionRow, lockRow, stopping>>

\* ServeHTTP returns as soon as the loops are started, and net/http cancels the
\* request's context, from which the client's is made.
HandlerReturns(c) ==
  /\ at[c] = "running" /\ ~cancelled[c]
  /\ cancelled' = [cancelled EXCEPT ![c] = TRUE]
  /\ UNCHANGED <<at, sendOpen, once, expired, lockHeld, sessions, room, mu, sessionRow, lockRow, stopping,
                 sentClosed>>

---------------------------------------------------------------------------
\* Messages of a client

\* TouchSession finds the row by the id of this connection.
TouchSession(c) == sessionRow[UserOf[c]] = [id |-> c, deleted |-> FALSE]

\* readLoop hands over one message after the other.  The close of a heartbeat
\* does not end it: it goes on with what it has already read in.
Reading(c) == at[c] = "running" \/ (at[c] = "closed" /\ expired[c])

\* A row that is gone closes the client; any other error is only logged.
handleHeartbeat(c) ==
  /\ Reading(c)
  /\ enqueue(c)
  /\ IF ~cancelled[c] /\ ~TouchSession(c)
       THEN To(c, "close") /\ expired' = [expired EXCEPT ![c] = TRUE]
       ELSE UNCHANGED <<at, expired>>
  /\ UNCHANGED <<cancelled, sendOpen, once, lockHeld, sessions, room, mu, sessionRow, lockRow, stopping>>

\* AcquireLock: the session must exist and the key must be free, and a released
\* lock still occupies it.
AcquireLock(c) == ~cancelled[c] /\ TouchSession(c) /\ lockRow = NoLock

handleLockAcquire(c) ==
  /\ Reading(c)
  /\ IF ~lockHeld[c] /\ AcquireLock(c)
       THEN /\ lockRow' = [session |-> c, deleted |-> FALSE]
            /\ lockHeld' = [lockHeld EXCEPT ![c] = TRUE]
            /\ To(c, "granted")
       ELSE UNCHANGED <<lockRow, lockHeld, at>>
  /\ enqueue(c)
  /\ UNCHANGED <<cancelled, sendOpen, once, expired, sessions, room, mu, sessionRow, stopping>>

AnnounceGrant(c) ==
  /\ at[c] = "granted"
  /\ broadcast(room)
  /\ To(c, "running")
  /\ UNCHANGED <<cancelled, sendOpen, once, expired, lockHeld, sessions, room, mu, sessionRow, lockRow, stopping>>

ReleaseLock(c) ==
  IF lockHeld[c] /\ ~cancelled[c] /\ lockRow # NoLock /\ lockRow.session = c
  THEN [lockRow EXCEPT !.deleted = TRUE] ELSE lockRow

\* The client forgets its lock although the statement may have failed.
handleLockRelease(c) ==
  /\ Reading(c) /\ lockHeld[c]
  /\ lockRow' = ReleaseLock(c)
  /\ To(c, "released")
  /\ UNCHANGED <<cancelled, sendOpen, once, expired, lockHeld, sessions, room, mu, sessionRow, stopping, sentClosed>>

AnnounceRelease(c) ==
  /\ at[c] = "released"
  /\ broadcast(room)
  /\ lockHeld' = [lockHeld EXCEPT ![c] = FALSE]
  /\ To(c, IF expired[c] THEN "closed" ELSE "running")
  /\ UNCHANGED <<cancelled, sendOpen, once, expired, sessions, room, mu, sessionRow, lockRow, stopping>>

Disconnect(c) ==
  /\ at[c] = "running"
  /\ To(c, "close")
  /\ UNCHANGED <<cancelled, sendOpen, once, expired, lockHeld, sessions, room, mu, sessionRow, lockRow, stopping,
                 sentClosed>>

---------------------------------------------------------------------------
\* client.close by the client's own goroutine

DeleteSession(c) ==
  IF ~cancelled[c] /\ TouchSession(c)
  THEN [sessionRow EXCEPT ![UserOf[c]].deleted = TRUE] ELSE sessionRow

CloseRows(c) ==
  /\ at[c] = "close" /\ once[c] = "no"
  /\ once' = [once EXCEPT ![c] = "self"]
  /\ lockRow' = ReleaseLock(c) /\ sessionRow' = DeleteSession(c)
  /\ To(c, "leave")
  /\ UNCHANGED <<cancelled, sendOpen, expired, lockHeld, sessions, room, mu, stopping, sentClosed>>

CloseLeave(c) ==
  /\ at[c] = "leave"
  /\ broadcast(room \ {c})
  /\ To(c, "unregister")
  /\ UNCHANGED <<cancelled, sendOpen, once, expired, lockHeld, sessions, room, mu, sessionRow, lockRow, stopping>>

\* unregister, then the channel and the connection are closed.
CloseLast_ChannelFirst(c) ==
  \/ /\ at[c] = "unregister" /\ sendOpen[c]
     /\ sendOpen' = [sendOpen EXCEPT ![c] = FALSE]
     /\ UNCHANGED <<at, cancelled, once, expired, lockHeld, sessions, room, mu, sessionRow, lockRow, stopping,
                    sentClosed>>
  \/ /\ at[c] = "unregister" /\ ~sendOpen[c] /\ mu = Free
     /\ sessions' = sessions \ {c} /\ room' = room \ {c}
     /\ cancelled' = [cancelled EXCEPT ![c] = TRUE]
     /\ To(c, "closed")
     /\ UNCHANGED <<sendOpen, once, expired, lockHeld, mu, sessionRow, lockRow, stopping, sentClosed>>

CloseLast(c) ==
  \/ /\ at[c] = "unregister" /\ mu = Free
     /\ sessions' = sessions \ {c} /\ room' = room \ {c}
     /\ To(c, "drop")
     /\ UNCHANGED <<cancelled, sendOpen, once, expired, lockHeld, mu, sessionRow, lockRow, stopping, sentClosed>>
  \/ /\ at[c] = "drop"
     /\ sendOpen' = [sendOpen EXCEPT ![c] = FALSE]
     /\ cancelled' = [cancelled EXCEPT ![c] = TRUE]
     /\ To(c, "closed")
     /\ UNCHANGED <<once, expired, lockHeld, sessions, room, mu, sessionRow, lockRow, stopping, sentClosed>>

---------------------------------------------------------------------------
\* Shutdown: a goroutine takes the write lock and closes session after session
\* under it; Shutdown itself waits for it or for its context.

ShutdownLock ==
  /\ stopping = "no" /\ mu = Free
  /\ mu' = Shutdown_ /\ stopping' = "locked"
  /\ UNCHANGED <<at, cancelled, sendOpen, once, expired, lockHeld, sessions, room, sessionRow, lockRow, sentClosed>>

\* It takes the session's once, releases the rows, and comes to broadcast, which
\* waits for the lock its own goroutine holds; if the client itself is closing,
\* it waits for the once, and the client for the lock.
ShutdownClose(c) ==
  /\ mu = Shutdown_ /\ c \in sessions /\ once[c] = "no"
  /\ \A p \in sessions : once[p] = "no"
  /\ once' = [once EXCEPT ![c] = "shutdown"]
  /\ lockRow' = ReleaseLock(c) /\ sessionRow' = DeleteSession(c)
  /\ UNCHANGED <<at, cancelled, sendOpen, expired, lockHeld, sessions, room, mu, stopping, sentClosed>>

ShutdownDone ==
  /\ mu = Shutdown_ /\ sessions = {}
  /\ mu' = Free /\ stopping' = "done"
  /\ UNCHANGED <<at, cancelled, sendOpen, once, expired, lockHeld, sessions, room, sessionRow, lockRow, sentClosed>>

ShutdownTimeout ==
  /\ stopping = "locked"
  /\ stopping' = "timeout"
  /\ UNCHANGED <<at, cancelled, sendOpen, once, expired, lockHeld, sessions, room, mu, sessionRow, lockRow,
                 sentClosed>>

Closing(c) == CloseRows(c) \/ CloseLeave(c) \/ CloseLast(c)

\* A send on a closed channel panics, and ends the process.
HubNext ==
  /\ sentClosed = {}
  /\ \/ \E c \in Peers :
          \/ ServeHTTP(c) \/ UpsertSession(c) \/ register(c) \/ newClient(c) \/ HandlerReturns(c)
          \/ handleHeartbeat(c) \/ handleLockAcquire(c) \/ AnnounceGrant(c)
          \/ handleLockRelease(c) \/ AnnounceRelease(c) \/ Disconnect(c)
          \/ Closing(c) \/ ShutdownClose(c)
     \/ ShutdownLock \/ ShutdownDone \/ ShutdownTimeout

HubFairness ==
  /\ \A c \in Peers : WF_hubVars(Closing(c)) /\ WF_hubVars(ShutdownClose(c))
  /\ WF_hubVars(ShutdownDone)

HubSpec == HubInit /\ [][HubNext]_hubVars /\ HubFairness

\* Nobody sends on a channel of another client that has been closed: a client
\* leaves the room, under the lock that broadcast reads the room under, before its
\* channel is closed.  Only the reader of a client whose own heartbeat found its
\* session gone, and which had a further message read in, can send on its own
\* (hub.go close, broadcast, unregister, readLoop).
PanicOnlyAfterExpiry == sentClosed \subseteq {c \in Peers : expired[c]}

=============================================================================
