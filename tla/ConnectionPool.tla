--------------------------- MODULE ConnectionPool ---------------------------
(***************************************************************************)
(* db.ConnectionPool: the connections that the threads of one process      *)
(* share, and SQLite's one write lock among them.  The queue's lock and    *)
(* the pool's lock are taken one after the other, so what a thread saw in  *)
(* the queue may be out of date when it asks for a new connection.         *)
(***************************************************************************)
EXTENDS Naturals, FiniteSets

CONSTANTS
  Threads,      \* handler threads that call the database
  Connections,  \* sqlite3 connections
  NoConnection, \* of a thread that has none; of a lock that is free
  PoolSize      \* DB_POOL_SIZE

ASSUME PoolAssumption ==
  /\ NoConnection \notin Connections /\ IsFiniteSet(Connections)
  /\ PoolSize \in Nat \ {0} /\ Cardinality(Connections) >= PoolSize

VARIABLES
  idle,     \* connections in the queue
  borrow,   \* each thread's place in a database call, and its connection
  created,  \* _created
  lost,     \* history: places that are counted in _created and hold no connection
  writer,   \* the connection whose transaction holds the write lock
  left      \* connections whose last transaction was left open by an exception

poolVars == <<idle, borrow, created, lost, writer, left>>

NoBorrow == [pc |-> "out", con |-> NoConnection]

PoolTypeOK ==
  /\ idle \in SUBSET Connections
  /\ borrow \in [Threads -> [pc : {"out", "empty", "wait", "using", "writing", "ended"},
                             con : Connections \cup {NoConnection}]]
  /\ created \in Nat /\ lost \in Nat
  /\ writer \in Connections \cup {NoConnection}
  /\ left \in SUBSET Connections

PoolInit ==
  /\ idle = {} /\ created = 0 /\ lost = 0
  /\ borrow = [t \in Threads |-> NoBorrow]
  /\ writer = NoConnection /\ left = {}

Using  == {t \in Threads : borrow[t].con # NoConnection}
InUse  == {borrow[t].con : t \in Using}
Unused == Connections \ (idle \cup InUse)

Set(t, pc, c) == borrow' = [borrow EXCEPT ![t] = [pc |-> pc, con |-> c]]

-----------------------------------------------------------------------------
(* _acquire                                                                 *)

\* The queue has one, at once or while the thread waits.
Take(t) ==
  /\ borrow[t].pc \in {"out", "wait"}
  /\ \E c \in idle : idle' = idle \ {c} /\ Set(t, "using", c)
  /\ UNCHANGED <<created, lost, writer, left>>

FindEmpty(t) ==
  /\ borrow[t].pc = "out" /\ idle = {}
  /\ Set(t, "empty", NoConnection)
  /\ UNCHANGED <<idle, created, lost, writer, left>>

\* Mutant: the count is not looked at again under the lock.
OpenUnchecked(t) ==
  /\ borrow[t].pc = "empty"
  /\ created' = created + 1
  /\ \E c \in Unused : Set(t, "using", c)
  /\ UNCHANGED <<idle, lost, writer, left>>

Open(t) ==
  /\ borrow[t].pc = "empty" /\ created < PoolSize
  /\ created' = created + 1
  /\ \E c \in Unused : Set(t, "using", c)
  /\ UNCHANGED <<idle, lost, writer, left>>

\* sqlite3.connect raises after the place was counted.
OpenFails(t) ==
  /\ borrow[t].pc = "empty" /\ created < PoolSize
  /\ created' = created + 1 /\ lost' = lost + 1
  /\ Set(t, "out", NoConnection)
  /\ UNCHANGED <<idle, writer, left>>

StartWaiting(t) ==
  /\ borrow[t].pc = "empty" /\ created >= PoolSize
  /\ Set(t, "wait", NoConnection)
  /\ UNCHANGED <<idle, created, lost, writer, left>>

WaitsTooLong(t) ==
  /\ borrow[t].pc = "wait" /\ idle = {}
  /\ Set(t, "out", NoConnection)
  /\ UNCHANGED <<idle, created, lost, writer, left>>

-----------------------------------------------------------------------------
(* The call itself.                                                         *)

\* A SELECT: nothing is locked for other writers, and no transaction is ended.
Read(t) ==
  /\ borrow[t].pc = "using"
  /\ Set(t, "ended", borrow[t].con)
  /\ UNCHANGED <<idle, created, lost, writer, left>>

\* The first INSERT or UPDATE of the call takes the lock; a transaction that an
\* earlier call left open is simply continued.
Write(t) ==
  /\ borrow[t].pc = "using" /\ writer \in {NoConnection, borrow[t].con}
  /\ writer' = borrow[t].con
  /\ Set(t, "writing", borrow[t].con)
  /\ UNCHANGED <<idle, created, lost, left>>

\* Mutant: a refusal ends the call without a rollback.
EndWriteOpen(t) ==
  /\ borrow[t].pc = "writing"
  /\ writer' \in {writer, NoConnection}
  /\ Set(t, "ended", borrow[t].con)
  /\ UNCHANGED <<idle, created, lost, left>>

\* commit, or the rollback of a refused reservation, claim or outcome.
EndWrite(t) ==
  /\ borrow[t].pc = "writing"
  /\ writer' = NoConnection /\ left' = left \ {borrow[t].con}
  /\ Set(t, "ended", borrow[t].con)
  /\ UNCHANGED <<idle, created, lost>>

\* insert_rejected meets a key that is taken: no commit, no rollback.
DuplicateKey(t) ==
  /\ borrow[t].pc = "writing"
  /\ left' = left \cup {borrow[t].con}
  /\ Set(t, "ended", borrow[t].con)
  /\ UNCHANGED <<idle, created, lost, writer>>

\* "database is locked": busy_timeout is over while another connection, of this
\* process or of another one, holds the lock, or the transaction that was left
\* open reads too old a snapshot.  connection() puts the connection back with the
\* transaction that sqlite3 began for the refused write.
Locked(t) ==
  /\ borrow[t].pc = "using" /\ writer # borrow[t].con
  /\ left' = left \cup {borrow[t].con}
  /\ Set(t, "ended", borrow[t].con)
  /\ UNCHANGED <<idle, created, lost, writer>>

\* Mutant: the connection is closed after its call, and its place given up.
ReleaseClosing(t) ==
  /\ borrow[t].pc = "ended"
  /\ created' = created - 1
  /\ writer' = IF writer = borrow[t].con THEN NoConnection ELSE writer
  /\ left' = left \ {borrow[t].con}
  /\ Set(t, "out", NoConnection)
  /\ UNCHANGED <<idle, lost>>

\* _release: back into the queue, or closed when the queue is full.
Release(t) ==
  /\ borrow[t].pc = "ended"
  /\ IF Cardinality(idle) < PoolSize
     THEN idle' = idle \cup {borrow[t].con} /\ UNCHANGED <<created, writer, left>>
     ELSE /\ created' = created - 1 /\ UNCHANGED idle
          /\ writer' = IF writer = borrow[t].con THEN NoConnection ELSE writer
          /\ left' = left \ {borrow[t].con}
  /\ Set(t, "out", NoConnection)
  /\ UNCHANGED lost

-----------------------------------------------------------------------------

\* A connection is with one thread or in the queue, never in two places, and
\* never more are open than the pool may have: a thread that found the queue
\* empty cannot overdraw the pool when the queue fills before it takes the lock
\* (db.py:61-91).
OneHolder ==
  /\ \A t, u \in Using : t # u => borrow[t].con # borrow[u].con
  /\ idle \cap InUse = {}
  /\ Cardinality(idle) + Cardinality(Using) + lost = created
  /\ created <= PoolSize

\* A thread waits for a connection only while all the places are taken: none is
\* given up behind its back, which would leave it waiting in the queue until its
\* timeout with room in the pool, because only a connection that is put back wakes
\* it (db.py:72-80, 93-101).
WaitsForOthers ==
  (\E t \in Threads : borrow[t].pc = "wait") /\ idle = {}
    => Cardinality(Using) + lost = PoolSize
=============================================================================
