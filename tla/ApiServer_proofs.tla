-------------------------- MODULE ApiServer_proofs --------------------------
(***************************************************************************)
(* Safety of ApiServer.tla for every number of requests, slots, upload     *)
(* slots, connections, calls and faults.                                   *)
(***************************************************************************)
EXTENDS ApiServer, FiniteSetTheorems, TLAPS

LEMMA FiniteRequests ==
  IsFiniteSet(Requests) /\ Threads = Requests /\ IsFiniteSet(Connections)
BY SlotsAssumption, PoolAssumption, ApiAssumption

LEMMA CountOf ==
  ASSUME NEW S, IsFiniteSet(S), NEW T \in SUBSET S
  PROVE  IsFiniteSet(T) /\ Cardinality(T) \in Nat
BY FS_Subset, FS_CardinalityType

LEMMA CountAdd ==
  ASSUME NEW S, IsFiniteSet(S), NEW x, x \notin S
  PROVE  Cardinality(S \cup {x}) = Cardinality(S) + 1
BY FS_AddElement

LEMMA CountRemove ==
  ASSUME NEW S, IsFiniteSet(S), NEW x \in S
  PROVE  Cardinality(S \ {x}) = Cardinality(S) - 1 /\ Cardinality(S) >= 1
<1>1. Cardinality(S \ {x}) = Cardinality(S) - 1 BY FS_RemoveElement
<1>2. IsFiniteSet(S \ {x}) BY FS_RemoveElement
<1>3. Cardinality(S \ {x}) \in Nat /\ Cardinality(S) \in Nat BY <1>2, FS_CardinalityType
<1>4. QED BY <1>1, <1>3

-----------------------------------------------------------------------------
(* The connection pool.                                                     *)

Places == [pc : {"out", "empty", "wait", "using", "writing", "ended"},
           con : Connections \cup {NoConnection}]

\* A thread has a connection exactly while it uses it.
PoolInv ==
  /\ PoolTypeOK /\ OneHolder
  /\ \A t \in Threads :
       borrow[t].con # NoConnection <=> borrow[t].pc \in {"using", "writing", "ended"}

LEMMA PoolCounts ==
  ASSUME PoolTypeOK
  PROVE  /\ IsFiniteSet(idle) /\ Cardinality(idle) \in Nat
         /\ IsFiniteSet(Using) /\ Cardinality(Using) \in Nat
<1>1. Using \in SUBSET Requests BY FiniteRequests DEF Using
<1>2. idle \in SUBSET Connections BY DEF PoolTypeOK
<1>3. QED BY <1>1, <1>2, FiniteRequests, CountOf

\* Where a thread's place does not matter to the pool but its connection does.
LEMMA SetFacts ==
  ASSUME PoolInv, NEW t \in Threads, NEW pc, NEW c, [pc |-> pc, con |-> c] \in Places,
         Set(t, pc, c)
  PROVE  /\ borrow' \in [Threads -> Places]
         /\ borrow'[t].pc = pc /\ borrow'[t].con = c
         /\ \A u \in Threads \ {t} : borrow'[u] = borrow[u]
BY DEF PoolInv, PoolTypeOK, Set, Places

\* The thread keeps the connection that it has, or none.
LEMMA KeepsConnection ==
  ASSUME PoolInv, NEW t \in Threads, NEW pc,
         pc \in {"out", "empty", "wait", "using", "writing", "ended"},
         Set(t, pc, borrow[t].con),
         borrow[t].con # NoConnection <=> pc \in {"using", "writing", "ended"},
         idle' = idle, created' \in Nat, lost' \in Nat, created' <= PoolSize,
         created' + lost = created + lost',
         writer' \in Connections \cup {NoConnection}, left' \subseteq Connections
  PROVE  PoolInv' /\ InUse' = InUse
<1>1. borrow[t] \in Places BY DEF PoolInv, PoolTypeOK, Places
<1>2. [pc |-> pc, con |-> borrow[t].con] \in Places BY <1>1 DEF Places
<1>3. /\ borrow' \in [Threads -> Places]
      /\ borrow'[t].pc = pc /\ borrow'[t].con = borrow[t].con
      /\ \A u \in Threads \ {t} : borrow'[u] = borrow[u]
  BY <1>2, SetFacts
<1>4. \A u \in Threads : borrow'[u].con = borrow[u].con BY <1>3
<1>5. Using' = Using /\ InUse' = InUse BY <1>4 DEF Using, InUse
<1>6. Cardinality(idle) \in Nat /\ Cardinality(Using) \in Nat
  BY PoolCounts DEF PoolInv
<1>7. Cardinality(idle') + Cardinality(Using') + lost' = created'
  BY <1>5, <1>6 DEF PoolInv, PoolTypeOK, OneHolder
<1>8. OneHolder'
  <2>1. \A u \in Using : borrow'[u].con = borrow[u].con BY <1>4 DEF Using
  <2>2. \A u, v \in Using' : u # v => borrow'[u].con # borrow'[v].con
    BY <1>5, <2>1 DEF PoolInv, OneHolder
  <2>3. idle' \cap InUse' = {} BY <1>5 DEF PoolInv, OneHolder
  <2>4. QED BY <1>7, <2>2, <2>3 DEF OneHolder
<1>9. PoolTypeOK' BY <1>3 DEF PoolInv, PoolTypeOK, Places
<1>10. QED BY <1>3, <1>5, <1>8, <1>9 DEF PoolInv

\* The thread gets a connection that nobody uses, from the queue or a new one.
LEMMA GetsConnection ==
  ASSUME PoolInv, NEW t \in Threads, borrow[t].con = NoConnection,
         NEW c \in Connections, c \notin InUse, Set(t, "using", c),
         idle' = idle \ {c}, lost' = lost, writer' = writer, left' = left,
         created' = IF c \in idle THEN created ELSE created + 1,
         created' <= PoolSize
  PROVE  PoolInv' /\ InUse' = InUse \cup {c}
<1>1. c # NoConnection /\ [pc |-> "using", con |-> c] \in Places
  BY PoolAssumption DEF Places
<1>2. /\ borrow' \in [Threads -> Places]
      /\ borrow'[t].pc = "using" /\ borrow'[t].con = c
      /\ \A u \in Threads \ {t} : borrow'[u] = borrow[u]
  BY <1>1, SetFacts
<1>3. t \notin Using /\ Using' = Using \cup {t} BY <1>1, <1>2 DEF Using
<1>4. InUse' = InUse \cup {c}
  <2>1. \A u \in Using : borrow'[u].con = borrow[u].con BY <1>2, <1>3 DEF Using
  <2>2. QED BY <1>2, <1>3, <2>1 DEF InUse
<1>5. /\ IsFiniteSet(idle) /\ Cardinality(idle) \in Nat
      /\ IsFiniteSet(Using) /\ Cardinality(Using) \in Nat
  BY PoolCounts DEF PoolInv
<1>6. Cardinality(Using') = Cardinality(Using) + 1 BY <1>3, <1>5, CountAdd
<1>7. Cardinality(idle') = IF c \in idle THEN Cardinality(idle) - 1 ELSE Cardinality(idle)
  <2>1. CASE c \in idle BY <1>5, <2>1, CountRemove
  <2>2. CASE c \notin idle
    <3>1. idle' = idle BY <2>2
    <3>2. QED BY <2>2, <3>1
  <2>3. QED BY <2>1, <2>2
<1>8. created \in Nat /\ lost \in Nat /\ Cardinality(idle) + Cardinality(Using) + lost = created
  BY DEF PoolInv, PoolTypeOK, OneHolder
<1>9. Cardinality(idle') + Cardinality(Using') + lost' = created'
  <2>1. CASE c \in idle BY <1>5, <1>6, <1>7, <1>8, <2>1
  <2>2. CASE c \notin idle BY <1>5, <1>6, <1>7, <1>8, <2>2
  <2>3. QED BY <2>1, <2>2
<1>10. \A u, v \in Using' : u # v => borrow'[u].con # borrow'[v].con
  BY <1>2, <1>3 DEF PoolInv, OneHolder, InUse, Using
<1>11. idle' \cap InUse' = {} BY <1>4 DEF PoolInv, OneHolder
<1>12. OneHolder' BY <1>9, <1>10, <1>11 DEF OneHolder
<1>13. PoolTypeOK' BY <1>2, <1>8 DEF PoolInv, PoolTypeOK, Places
<1>14. QED BY <1>1, <1>2, <1>4, <1>12, <1>13 DEF PoolInv

LEMMA ReleaseKeeps ==
  ASSUME PoolInv, NEW t \in Threads, Release(t)
  PROVE  /\ PoolInv' /\ InUse' = InUse \ {borrow[t].con}
         /\ writer' # NoConnection => writer' = writer
<1> DEFINE c == borrow[t].con
<1>1. c \in Connections /\ c # NoConnection /\ t \in Using
  BY DEF Release, PoolInv, PoolTypeOK, Using
<1>2. [pc |-> "out", con |-> NoConnection] \in Places BY DEF Places
<1>3. /\ borrow' \in [Threads -> Places]
      /\ borrow'[t].pc = "out" /\ borrow'[t].con = NoConnection
      /\ \A u \in Threads \ {t} : borrow'[u] = borrow[u]
  BY <1>2, SetFacts DEF Release
<1>4. Using' = Using \ {t} /\ \A u \in Using \ {t} : borrow'[u].con = borrow[u].con
  BY <1>3 DEF Using
<1>5. InUse' = InUse \ {c}
  <2>1. \A u \in Using \ {t} : borrow[u].con # c BY <1>1 DEF PoolInv, OneHolder
  <2>2. InUse' = {borrow[u].con : u \in Using \ {t}} BY <1>4 DEF InUse
  <2>3. QED BY <1>1, <2>1, <2>2 DEF InUse
<1>6. /\ IsFiniteSet(idle) /\ Cardinality(idle) \in Nat
      /\ IsFiniteSet(Using) /\ Cardinality(Using) \in Nat
  BY PoolCounts DEF PoolInv
<1>7. Cardinality(Using') = Cardinality(Using) - 1 /\ Cardinality(Using) >= 1
  BY <1>1, <1>4, <1>6, CountRemove
<1>8. /\ created \in Nat /\ lost \in Nat /\ created <= PoolSize /\ PoolSize \in Nat
      /\ Cardinality(idle) + Cardinality(Using) + lost = created
  BY PoolAssumption DEF PoolInv, PoolTypeOK, OneHolder
<1>9. c \notin idle BY <1>1 DEF PoolInv, OneHolder, InUse
<1>10. /\ idle' \in SUBSET Connections /\ created' \in Nat /\ created' <= PoolSize /\ lost' = lost
       /\ Cardinality(idle') + Cardinality(Using') + lost' = created'
       /\ idle' \cap InUse' = {}
  <2>1. CASE Cardinality(idle) < PoolSize
    <3>1. idle' = idle \cup {c} /\ created' = created /\ lost' = lost BY <2>1 DEF Release
    <3>2. Cardinality(idle') = Cardinality(idle) + 1 BY <1>6, <1>9, <3>1, CountAdd
    <3>3. idle' \cap InUse' = {} BY <1>5, <3>1 DEF PoolInv, OneHolder
    <3>4. QED BY <1>1, <1>6, <1>7, <1>8, <3>1, <3>2, <3>3 DEF PoolInv, PoolTypeOK
  <2>2. CASE ~(Cardinality(idle) < PoolSize)
    <3>1. idle' = idle /\ created' = created - 1 /\ lost' = lost BY <2>2 DEF Release
    <3>2. idle' \cap InUse' = {} BY <1>5, <3>1 DEF PoolInv, OneHolder
    <3>3. QED BY <1>6, <1>7, <1>8, <3>1, <3>2 DEF PoolInv, PoolTypeOK
  <2>3. QED BY <2>1, <2>2
<1>11. writer' \in {writer, NoConnection} /\ left' \subseteq left BY DEF Release
<1>12. PoolTypeOK' BY <1>3, <1>8, <1>10, <1>11 DEF PoolInv, PoolTypeOK, Places
<1>13. OneHolder'
  <2>1. \A u, v \in Using' : u # v => borrow'[u].con # borrow'[v].con
    BY <1>4 DEF PoolInv, OneHolder
  <2>2. QED BY <1>10, <2>1 DEF OneHolder
<1>14. QED BY <1>3, <1>5, <1>11, <1>12, <1>13 DEF PoolInv

PoolSteps(t) ==
  \/ Take(t) \/ FindEmpty(t) \/ Open(t) \/ OpenFails(t) \/ StartWaiting(t) \/ WaitsTooLong(t)
  \/ Read(t) \/ Write(t) \/ EndWrite(t) \/ DuplicateKey(t) \/ Locked(t) \/ Release(t)

LEMMA PoolKeeps ==
  ASSUME PoolInv, NEW t \in Threads, PoolSteps(t)
  PROVE  PoolInv'
<1>1. /\ borrow[t] \in Places /\ created \in Nat /\ lost \in Nat /\ created <= PoolSize
      /\ writer \in Connections \cup {NoConnection} /\ idle \in SUBSET Connections
      /\ left \subseteq Connections /\ PoolSize \in Nat
      /\ borrow[t].con # NoConnection <=> borrow[t].pc \in {"using", "writing", "ended"}
  BY PoolAssumption DEF PoolInv, PoolTypeOK, OneHolder, Places
<1>2. CASE Take(t)
  <2>1. PICK c \in idle : idle' = idle \ {c} /\ Set(t, "using", c) BY <1>2 DEF Take
  <2>2. c \in Connections /\ c \notin InUse BY <1>1 DEF PoolInv, OneHolder
  <2>3. borrow[t].con = NoConnection BY <1>1, <1>2 DEF Take
  <2>4. UNCHANGED <<created, lost, writer, left>> BY <1>2 DEF Take
  <2>5. QED BY <1>1, <2>1, <2>2, <2>3, <2>4, GetsConnection
<1>3. CASE Open(t)
  <2>1. PICK c \in Unused : Set(t, "using", c) BY <1>3 DEF Open
  <2>2. c \in Connections /\ c \notin InUse /\ c \notin idle BY DEF Unused
  <2>3. borrow[t].con = NoConnection BY <1>1, <1>3 DEF Open
  <2>4. created' = created + 1 /\ created < PoolSize /\ UNCHANGED <<idle, lost, writer, left>>
    BY <1>3 DEF Open
  <2>5. idle' = idle \ {c} /\ created' <= PoolSize BY <1>1, <2>2, <2>4
  <2>6. QED BY <2>1, <2>2, <2>3, <2>4, <2>5, GetsConnection
<1>4. CASE FindEmpty(t) \/ StartWaiting(t) \/ WaitsTooLong(t)
  <2>1. /\ borrow[t].con = NoConnection /\ UNCHANGED <<idle, created, lost, writer, left>>
        /\ \E pc \in {"out", "empty", "wait"} : Set(t, pc, NoConnection)
    BY <1>1, <1>4 DEF FindEmpty, StartWaiting, WaitsTooLong
  <2>2. PICK pc \in {"out", "empty", "wait"} : Set(t, pc, borrow[t].con)
    BY <2>1 DEF Set
  <2>3. QED BY <1>1, <2>1, <2>2, KeepsConnection
<1>5. CASE OpenFails(t)
  <2>1. /\ borrow[t].con = NoConnection /\ UNCHANGED <<idle, writer, left>>
        /\ created' = created + 1 /\ lost' = lost + 1 /\ created < PoolSize
    BY <1>1, <1>5 DEF OpenFails
  <2>2. Set(t, "out", borrow[t].con) BY <1>5, <2>1 DEF OpenFails, Set
  <2>3. created' <= PoolSize /\ created' \in Nat /\ lost' \in Nat
        /\ created' + lost = created + lost'
    BY <1>1, <2>1
  <2>4. QED BY <1>1, <2>1, <2>2, <2>3, KeepsConnection
<1>6. CASE Read(t) \/ Write(t) \/ EndWrite(t) \/ DuplicateKey(t) \/ Locked(t)
  <2>1. /\ borrow[t].con # NoConnection /\ UNCHANGED <<idle, created, lost>>
        /\ writer' \in {writer, borrow[t].con, NoConnection}
        /\ left' \in {left, left \cup {borrow[t].con}, left \ {borrow[t].con}}
    BY <1>1, <1>6 DEF Read, Write, EndWrite, DuplicateKey, Locked
  <2>2. PICK pc \in {"writing", "ended"} : Set(t, pc, borrow[t].con)
    BY <1>6 DEF Read, Write, EndWrite, DuplicateKey, Locked, Set
  <2>3. writer' \in Connections \cup {NoConnection} /\ left' \subseteq Connections
    BY <1>1, <2>1 DEF Places
  <2>4. QED BY <1>1, <2>1, <2>2, <2>3, KeepsConnection
<1>7. CASE Release(t) BY <1>7, ReleaseKeeps
<1>8. QED BY <1>2, <1>3, <1>4, <1>5, <1>6, <1>7 DEF PoolSteps

LEMMA PoolOthers ==
  ASSUME PoolInv, NEW t \in Threads, PoolSteps(t)
  PROVE  \A u \in Threads \ {t} : borrow'[u] = borrow[u]
BY DEF PoolSteps, Take, FindEmpty, Open, OpenFails, StartWaiting, WaitsTooLong,
       Read, Write, EndWrite, DuplicateKey, Locked, Release, Set, PoolInv, PoolTypeOK

\* The write lock is with a thread that is writing, or with a connection whose
\* transaction was left open.
LockHeld ==
  writer # NoConnection =>
    \/ \E t \in Threads : borrow[t].con = writer /\ borrow[t].pc = "writing"
    \/ writer \in left

LEMMA LockKeeps ==
  ASSUME PoolInv, LockHeld, NEW t \in Threads, PoolSteps(t)
  PROVE  LockHeld'
<1>1. \A u \in Threads \ {t} : borrow'[u] = borrow[u] BY PoolOthers
<1>2. CASE Write(t)
  <2>1. writer' = borrow[t].con /\ Set(t, "writing", borrow[t].con) BY <1>2 DEF Write
  <2>2. borrow'[t].con = writer' /\ borrow'[t].pc = "writing"
    BY <2>1 DEF Set, PoolInv, PoolTypeOK
  <2>3. QED BY <2>2 DEF LockHeld
<1>3. CASE EndWrite(t) BY <1>3 DEF EndWrite, LockHeld
<1>4. CASE DuplicateKey(t)
  <2>1. writer' = writer /\ left' = left \cup {borrow[t].con} BY <1>4 DEF DuplicateKey
  <2>2. QED BY <1>1, <2>1 DEF LockHeld
<1>5. CASE Release(t)
  <2>1. borrow[t].pc # "writing" BY <1>5 DEF Release
  <2>2. \/ writer' = writer /\ left' = left
        \/ writer' = NoConnection
        \/ writer' = writer /\ writer # borrow[t].con /\ left' = left \ {borrow[t].con}
    BY <1>5 DEF Release
  <2>3. QED BY <1>1, <2>1, <2>2 DEF LockHeld
<1>6. CASE ~Write(t) /\ ~EndWrite(t) /\ ~DuplicateKey(t) /\ ~Release(t)
  <2>1. borrow[t].pc # "writing" /\ writer' = writer /\ left \subseteq left'
    BY <1>6 DEF PoolSteps, Take, FindEmpty, Open, OpenFails, StartWaiting, WaitsTooLong,
                Read, Locked
  <2>2. QED BY <1>1, <2>1 DEF LockHeld
<1>7. QED BY <1>2, <1>3, <1>4, <1>5, <1>6

-----------------------------------------------------------------------------
(* The request slots.                                                       *)

Held == {r \in Requests : stage[r] \in Holding}
Live == {r \in Requests : stage[r] \in Threaded}

SlotsInv == SlotsTypeOK /\ SlotsConserved

LEMMA SlotCounts ==
  /\ IsFiniteSet(Held) /\ Cardinality(Held) \in Nat
  /\ IsFiniteSet(Live) /\ Cardinality(Live) \in Nat
  /\ Cardinality(Live) <= Cardinality(Held)
<1>1. Held \in SUBSET Requests BY DEF Held
<1>2. Live \in SUBSET Held BY DEF Held, Live, Threaded
<1>3. IsFiniteSet(Held) /\ Cardinality(Held) \in Nat BY <1>1, FiniteRequests, CountOf
<1>4. IsFiniteSet(Live) /\ Cardinality(Live) \in Nat BY <1>2, <1>3, CountOf
<1>5. Cardinality(Live) <= Cardinality(Held) BY <1>2, <1>3, FS_Subset
<1>6. QED BY <1>3, <1>4, <1>5

\* What is left to show of a step: that it keeps the books.
LEMMA BooksSuffice ==
  ASSUME stage' \in [Requests -> Holding \cup {"away"}],
         watch' \in [Requests -> {"off", "armed", "firing", "fired"}],
         slots' \in Nat, leaked' \in Nat,
         slots' + Cardinality(Held)' + leaked' = MaxActive,
         active' = Cardinality(Live)' + leaked'
  PROVE  SlotsInv'
<1>1. (Cardinality(Held) \in Nat /\ Cardinality(Live) \in Nat
       /\ Cardinality(Live) <= Cardinality(Held))'
  BY SlotCounts, PTL
<1>2. slots' \in 0..MaxActive /\ active' \in 0..MaxActive BY <1>1, SlotsAssumption
<1>3. SlotsConserved' BY DEF SlotsConserved, Held, Live
<1>4. QED BY <1>2, <1>3 DEF SlotsInv, SlotsTypeOK

SlotSteps(r) ==
  \/ Accept(r) \/ StartThread(r) \/ NoThread(r) \/ StartWatchdog(r) \/ WatchdogFails(r)
  \/ Close(r) \/ SetFinished(r) \/ ReleaseSlot(r) \/ Expire(r) \/ Shutdown(r)

LEMMA GoFacts ==
  ASSUME SlotsInv, NEW r \in Requests, NEW from, NEW to \in Holding \cup {"away"}, Go(r, from, to)
  PROVE  /\ stage' \in [Requests -> Holding \cup {"away"}] /\ stage[r] = from /\ stage'[r] = to
         /\ \A q \in Requests \ {r} : stage'[q] = stage[q]
         /\ Held' = IF to \in Holding THEN Held \cup {r} ELSE Held \ {r}
         /\ Live' = IF to \in Threaded THEN Live \cup {r} ELSE Live \ {r}
<1>1. /\ stage' \in [Requests -> Holding \cup {"away"}] /\ stage[r] = from /\ stage'[r] = to
      /\ \A q \in Requests \ {r} : stage'[q] = stage[q]
  BY DEF SlotsInv, SlotsTypeOK, Go
<1>2. Held' = IF to \in Holding THEN Held \cup {r} ELSE Held \ {r} BY <1>1 DEF Held
<1>3. Live' = IF to \in Threaded THEN Live \cup {r} ELSE Live \ {r} BY <1>1 DEF Live
<1>4. QED BY <1>1, <1>2, <1>3

LEMMA SlotsKeep ==
  ASSUME SlotsInv, NEW r \in Requests, SlotSteps(r)
  PROVE  SlotsInv'
<1>1. /\ slots \in Nat /\ active \in Nat /\ leaked \in Nat
      /\ stage \in [Requests -> Holding \cup {"away"}]
      /\ watch \in [Requests -> {"off", "armed", "firing", "fired"}]
      /\ slots + Cardinality(Held) + leaked = MaxActive
      /\ active = Cardinality(Live) + leaked
  BY SlotsAssumption DEF SlotsInv, SlotsTypeOK, SlotsConserved, Held, Live
<1>2. /\ IsFiniteSet(Held) /\ Cardinality(Held) \in Nat
      /\ IsFiniteSet(Live) /\ Cardinality(Live) \in Nat
  BY SlotCounts
<1>3. /\ "away" \notin Holding /\ "away" \notin Threaded
      /\ {"accepted", "started", "serving", "closed", "finished"} \subseteq Holding
      /\ "accepted" \notin Threaded
      /\ {"started", "serving", "closed", "finished"} \subseteq Threaded
  BY DEF Holding, Threaded
<1>4. r \in Held <=> stage[r] \in Holding BY DEF Held
<1>5. r \in Live <=> stage[r] \in Threaded BY DEF Live
<1>6. watch' \in [Requests -> {"off", "armed", "firing", "fired"}]
  BY <1>1 DEF SlotSteps, Accept, StartThread, NoThread, StartWatchdog, WatchdogFails, Close,
              SetFinished, ReleaseSlot, Expire, Shutdown
<1>7. CASE Accept(r)
  <2>1. /\ Go(r, "away", "accepted") /\ slots > 0 /\ slots' = slots - 1
        /\ active' = active /\ leaked' = leaked
    BY <1>7 DEF Accept
  <2>2. /\ stage' \in [Requests -> Holding \cup {"away"}] /\ r \notin Held /\ r \notin Live
        /\ Held' = Held \cup {r} /\ Live' = Live \ {r}
    BY <1>3, <1>4, <1>5, <2>1, GoFacts
  <2>3. Cardinality(Held') = Cardinality(Held) + 1 BY <1>2, <2>2, CountAdd
  <2>4. Live' = Live BY <2>2
  <2>5. slots' \in Nat /\ slots' + Cardinality(Held') + leaked' = MaxActive
        /\ active' = Cardinality(Live') + leaked' /\ leaked' \in Nat
    BY <1>1, <1>2, <2>1, <2>3, <2>4
  <2>6. QED BY <1>6, <2>2, <2>5, BooksSuffice
<1>8. CASE StartThread(r)
  <2>1. /\ Go(r, "accepted", "started") /\ slots' = slots
        /\ active' = active + 1 /\ leaked' = leaked
    BY <1>8 DEF StartThread
  <2>2. /\ stage' \in [Requests -> Holding \cup {"away"}] /\ r \in Held /\ r \notin Live
        /\ Held' = Held \cup {r} /\ Live' = Live \cup {r}
    BY <1>3, <1>4, <1>5, <2>1, GoFacts
  <2>3. Cardinality(Live') = Cardinality(Live) + 1 BY <1>2, <2>2, CountAdd
  <2>4. Held' = Held BY <2>2
  <2>5. slots' \in Nat /\ slots' + Cardinality(Held') + leaked' = MaxActive
        /\ active' = Cardinality(Live') + leaked' /\ leaked' \in Nat
    BY <1>1, <1>2, <2>1, <2>3, <2>4
  <2>6. QED BY <1>6, <2>2, <2>5, BooksSuffice
<1>9. CASE NoThread(r)
  <2>1. /\ Go(r, "accepted", "away") /\ slots' = slots + 1
        /\ active' = active /\ leaked' = leaked
    BY <1>9 DEF NoThread
  <2>2. /\ stage' \in [Requests -> Holding \cup {"away"}] /\ r \in Held /\ r \notin Live
        /\ Held' = Held \ {r} /\ Live' = Live \ {r}
    BY <1>3, <1>4, <1>5, <2>1, GoFacts
  <2>3. Cardinality(Held') = Cardinality(Held) - 1 BY <1>2, <2>2, CountRemove
  <2>4. Live' = Live BY <2>2
  <2>5. slots' \in Nat /\ slots' + Cardinality(Held') + leaked' = MaxActive
        /\ active' = Cardinality(Live') + leaked' /\ leaked' \in Nat
    BY <1>1, <1>2, <2>1, <2>3, <2>4
  <2>6. QED BY <1>6, <2>2, <2>5, BooksSuffice
<1>10. CASE StartWatchdog(r) \/ Close(r) \/ SetFinished(r)
  <2>1. /\ \E from, to \in {"started", "serving", "closed", "finished"} : Go(r, from, to)
        /\ slots' = slots /\ active' = active /\ leaked' = leaked
    BY <1>10 DEF StartWatchdog, Close, SetFinished
  <2>2. /\ stage' \in [Requests -> Holding \cup {"away"}] /\ r \in Held /\ r \in Live
        /\ Held' = Held \cup {r} /\ Live' = Live \cup {r}
    BY <1>3, <1>4, <1>5, <2>1, GoFacts
  <2>3. Held' = Held /\ Live' = Live BY <2>2
  <2>4. QED BY <1>1, <1>6, <2>1, <2>2, <2>3, BooksSuffice
<1>11. CASE WatchdogFails(r) \/ ReleaseSlot(r)
  <2>1. /\ \E from \in {"started", "finished"} : Go(r, from, "away")
        /\ \/ slots' = slots /\ active' = active /\ leaked' = leaked + 1
           \/ slots' = slots + 1 /\ active' = active - 1 /\ leaked' = leaked
    BY <1>11 DEF WatchdogFails, ReleaseSlot
  <2>2. /\ stage' \in [Requests -> Holding \cup {"away"}] /\ r \in Held /\ r \in Live
        /\ Held' = Held \ {r} /\ Live' = Live \ {r}
    BY <1>3, <1>4, <1>5, <2>1, GoFacts
  <2>3. /\ Cardinality(Held') = Cardinality(Held) - 1
        /\ Cardinality(Live') = Cardinality(Live) - 1
    BY <1>2, <2>2, CountRemove
  <2>4. slots' \in Nat /\ slots' + Cardinality(Held') + leaked' = MaxActive
        /\ active' = Cardinality(Live') + leaked' /\ leaked' \in Nat
    BY <1>1, <1>2, <2>1, <2>3
  <2>5. QED BY <1>6, <2>2, <2>4, BooksSuffice
<1>12. CASE Expire(r) \/ Shutdown(r)
  <2>1. UNCHANGED <<slots, active, stage, leaked>> BY <1>12 DEF Expire, Shutdown
  <2>2. Held' = Held /\ Live' = Live BY <2>1 DEF Held, Live
  <2>3. QED BY <1>1, <1>6, <2>1, <2>2, BooksSuffice
<1>13. QED BY <1>7, <1>8, <1>9, <1>10, <1>11, <1>12 DEF SlotSteps

-----------------------------------------------------------------------------
(* The handlers.                                                            *)

Handlers == [pc : {"none", "headers", "auth", "body", "work", "reply", "end"},
             upload : BOOLEAN, calls : 0..MaxCalls]

\* A handler exists while its request is served, has a connection only where it
\* calls or answers, a slot only between its headers and its end, and a call left
\* as long as one is under way.
Fits(h, b, s) ==
  /\ h.pc # "none" <=> s = "serving"
  /\ h.pc \in {"none", "headers", "body", "end"} => b.pc = "out"
  /\ h.pc \in {"none", "headers", "end"} => ~h.upload
  /\ b.pc # "out" => h.calls < MaxCalls

Uploading == {r \in Requests : handler[r].upload}

ServerInv ==
  /\ handler \in [Requests -> Handlers]
  /\ uploads \in Nat /\ used \in [faults : Nat, duplicates : Nat]
  /\ \A r \in Requests : Fits(handler[r], borrow[r], stage[r])
  /\ uploads + Cardinality(Uploading) = MaxUploads

LEMMA NoHandlerTyped == NoHandler \in Handlers
BY ApiAssumption DEF NoHandler, Handlers

LEMMA UploadCounts ==
  IsFiniteSet(Uploading) /\ Cardinality(Uploading) \in Nat
<1>1. Uploading \in SUBSET Requests BY DEF Uploading
<1>2. QED BY <1>1, FiniteRequests, CountOf

LEMMA HandlerMoves ==
  ASSUME ServerInv, NEW r \in Requests, NEW h \in Handlers,
         Move(r, h),
         \A q \in Requests \ {r} : borrow'[q] = borrow[q] /\ stage'[q] = stage[q],
         Fits(h, borrow'[r], stage'[r]),
         used' \in [faults : Nat, duplicates : Nat],
         \/ uploads' = uploads /\ h.upload = handler[r].upload
         \/ uploads > 0 /\ uploads' = uploads - 1 /\ h.upload /\ ~handler[r].upload
         \/ uploads' = uploads + 1 /\ ~h.upload /\ handler[r].upload
  PROVE  ServerInv'
<1>1. /\ handler' \in [Requests -> Handlers] /\ handler'[r] = h
      /\ \A q \in Requests \ {r} : handler'[q] = handler[q]
  BY DEF ServerInv, Move
<1>2. uploads \in Nat /\ uploads + Cardinality(Uploading) = MaxUploads /\ MaxUploads \in Nat
  BY ApiAssumption DEF ServerInv
<1>3. IsFiniteSet(Uploading) /\ Cardinality(Uploading) \in Nat BY UploadCounts
<1>4. (r \in Uploading <=> handler[r].upload)
      /\ Uploading' = IF h.upload THEN Uploading \cup {r} ELSE Uploading \ {r}
  BY <1>1 DEF Uploading
<1>5. uploads' \in Nat /\ uploads' + Cardinality(Uploading') = MaxUploads
  <2>1. CASE uploads' = uploads /\ h.upload = handler[r].upload
    <3>1. Uploading' = Uploading BY <1>4, <2>1
    <3>2. QED BY <1>2, <1>3, <2>1, <3>1
  <2>2. CASE uploads > 0 /\ uploads' = uploads - 1 /\ h.upload /\ ~handler[r].upload
    <3>1. Uploading' = Uploading \cup {r} /\ r \notin Uploading BY <1>4, <2>2
    <3>2. Cardinality(Uploading') = Cardinality(Uploading) + 1 BY <1>3, <3>1, CountAdd
    <3>3. QED BY <1>2, <1>3, <2>2, <3>2
  <2>3. CASE uploads' = uploads + 1 /\ ~h.upload /\ handler[r].upload
    <3>1. Uploading' = Uploading \ {r} /\ r \in Uploading BY <1>4, <2>3
    <3>2. Cardinality(Uploading') = Cardinality(Uploading) - 1 BY <1>3, <3>1, CountRemove
    <3>3. QED BY <1>2, <1>3, <2>3, <3>2
  <2>4. QED BY <2>1, <2>2, <2>3
<1>6. \A q \in Requests : Fits(handler'[q], borrow'[q], stage'[q])
  BY <1>1 DEF ServerInv
<1>7. QED BY <1>1, <1>5, <1>6 DEF ServerInv, Fits

\* The pool or the server moves around a handler.
LEMMA HandlerStays ==
  ASSUME ServerInv, NEW r \in Requests, KeepHandlers,
         \A q \in Requests \ {r} : borrow'[q] = borrow[q] /\ stage'[q] = stage[q],
         Fits(handler[r], borrow'[r], stage'[r])
  PROVE  ServerInv'
<1>1. handler' = handler /\ uploads' = uploads /\ used' = used BY DEF KeepHandlers
<1>2. \A q \in Requests : Fits(handler'[q], borrow'[q], stage'[q]) BY <1>1 DEF ServerInv
<1>3. Uploading' = Uploading BY <1>1 DEF Uploading
<1>4. QED BY <1>1, <1>2, <1>3 DEF ServerInv, Fits

-----------------------------------------------------------------------------
(* The whole state.                                                         *)

IInv == PoolInv /\ SlotsInv /\ ServerInv /\ LockHeld

LEMMA HandlerFacts ==
  ASSUME IInv, NEW r \in Requests
  PROVE  /\ handler[r] \in Handlers /\ Fits(handler[r], borrow[r], stage[r])
         /\ borrow[r] \in Places /\ used \in [faults : Nat, duplicates : Nat]
         /\ Free(r) <=> borrow[r].pc = "out"
<1>1. borrow[r] \in Places
      /\ (borrow[r].con # NoConnection <=> borrow[r].pc \in {"using", "writing", "ended"})
  BY FiniteRequests DEF IInv, PoolInv, PoolTypeOK, Places
<1>2. Free(r) <=> borrow[r].pc = "out" BY <1>1 DEF Free, NoBorrow, Places
<1>3. QED BY <1>1, <1>2 DEF IInv, ServerInv

LEMMA PoolStill == ASSUME PoolInv, UNCHANGED poolVars PROVE PoolInv'
BY DEF PoolInv, PoolTypeOK, OneHolder, Using, InUse, poolVars

LEMMA LockStill == ASSUME LockHeld, UNCHANGED poolVars PROVE LockHeld'
BY DEF LockHeld, poolVars

LEMMA SlotsStill == ASSUME SlotsInv, UNCHANGED slotVars PROVE SlotsInv'
BY DEF SlotsInv, SlotsTypeOK, SlotsConserved, slotVars

\* The server or the watchdog moves.
LEMMA SlotStep ==
  ASSUME IInv, NEW r \in Requests, SlotSteps(r), UNCHANGED poolVars, ServerInv'
  PROVE  IInv'
BY SlotsKeep, PoolStill, LockStill DEF IInv

\* A handler moves on its own.
LEMMA HandlerStep ==
  ASSUME IInv, UNCHANGED slotVars, UNCHANGED poolVars, ServerInv'
  PROVE  IInv'
BY SlotsStill, PoolStill, LockStill DEF IInv

\* A handler is in a call.
LEMMA CallStep ==
  ASSUME IInv, NEW r \in Requests, PoolSteps(r), UNCHANGED slotVars, ServerInv'
  PROVE  IInv'
<1>1. r \in Threads BY FiniteRequests
<1>2. QED BY <1>1, PoolKeeps, SlotsStill, LockKeeps DEF IInv

-----------------------------------------------------------------------------
(* The steps of a request.                                                  *)

LEMMA StageFacts ==
  ASSUME IInv, NEW r \in Requests, NEW from, NEW to \in Holding \cup {"away"}, Go(r, from, to)
  PROVE  stage[r] = from /\ stage'[r] = to /\ \A q \in Requests \ {r} : stage'[q] = stage[q]
BY GoFacts DEF IInv

LEMMA ServerKeeps ==
  ASSUME IInv, NEW r \in Requests, Admit(r) \/ Serve(r) \/ ServeFails(r) \/ Watch(r)
  PROVE  IInv'
<1>1. /\ handler[r] \in Handlers /\ Fits(handler[r], borrow[r], stage[r])
      /\ used \in [faults : Nat, duplicates : Nat] /\ ServerInv
  BY HandlerFacts DEF IInv
<1>2. UNCHANGED poolVars /\ borrow' = borrow
  BY DEF Admit, Serve, ServeFails, Watch, poolVars
<1>3. SlotSteps(r)
  BY DEF Admit, Serve, ServeFails, Watch, SlotSteps
<1>4. CASE /\ KeepHandlers
           /\ \/ Accept(r) \/ StartThread(r) \/ SetFinished(r) \/ ReleaseSlot(r)
              \/ Expire(r) \/ Shutdown(r)
  <2>1. /\ \A q \in Requests \ {r} : stage'[q] = stage[q]
        /\ stage'[r] = "serving" <=> stage[r] = "serving"
    <3>1. CASE Expire(r) \/ Shutdown(r) BY <3>1 DEF Expire, Shutdown
    <3>2. CASE Accept(r) \/ StartThread(r) \/ SetFinished(r) \/ ReleaseSlot(r)
      <4>1. \E from \in {"away", "accepted", "closed", "finished"},
               to \in {"accepted", "started", "finished", "away"} : Go(r, from, to)
        BY <3>2 DEF Accept, StartThread, SetFinished, ReleaseSlot
      <4>2. QED BY <4>1, StageFacts DEF Holding
    <3>3. QED BY <1>4, <3>1, <3>2
  <2>2. Fits(handler[r], borrow'[r], stage'[r]) BY <1>1, <1>2, <2>1 DEF Fits
  <2>3. ServerInv' BY <1>1, <1>2, <1>4, <2>1, <2>2, HandlerStays
  <2>4. QED BY <1>2, <1>3, <1>4, <2>3, SlotStep DEF KeepHandlers
<1>5. CASE /\ StartWatchdog(r) /\ UNCHANGED <<uploads, used>>
           /\ Move(r, [NoHandler EXCEPT !.pc = "headers"])
  <2> DEFINE h == [NoHandler EXCEPT !.pc = "headers"]
  <2>1. h \in Handlers /\ h.pc = "headers" /\ ~h.upload
    <3>1. h \in Handlers BY NoHandlerTyped, Zenon DEF Handlers
    <3>2. QED BY <3>1 DEF NoHandler
  <2>2. Move(r, h) BY <1>5
  <2> HIDE DEF h
  <2>3. stage[r] = "started" /\ stage'[r] = "serving"
        /\ \A q \in Requests \ {r} : stage'[q] = stage[q]
    BY <1>5, StageFacts DEF StartWatchdog, Holding
  <2>4. borrow[r].pc = "out" /\ ~handler[r].upload BY <1>1, <2>3 DEF Fits, Handlers
  <2>5. Fits(h, borrow'[r], stage'[r]) BY <1>2, <2>1, <2>3, <2>4 DEF Fits
  <2>6. h.upload = handler[r].upload
    <3>1. h.upload \in BOOLEAN /\ handler[r].upload \in BOOLEAN BY <1>1, <2>1 DEF Handlers
    <3>2. QED BY <2>1, <2>4, <3>1
  <2>7. ServerInv' BY <1>1, <1>2, <1>5, <2>1, <2>2, <2>3, <2>5, <2>6, HandlerMoves
  <2>8. QED BY <1>2, <1>3, <1>5, <2>7, SlotStep
<1>6. CASE /\ At(r, "end") /\ Close(r) /\ UNCHANGED <<uploads, used>>
           /\ Move(r, NoHandler)
  <2>1. NoHandler \in Handlers /\ NoHandler.pc = "none" /\ ~NoHandler.upload
    BY ApiAssumption DEF NoHandler, Handlers
  <2>2. stage'[r] = "closed" /\ \A q \in Requests \ {r} : stage'[q] = stage[q]
    BY <1>6, StageFacts DEF Close, Holding
  <2>3. borrow[r].pc = "out" /\ ~handler[r].upload BY <1>1, <1>6 DEF At, Fits
  <2>4. Fits(NoHandler, borrow'[r], stage'[r]) BY <1>2, <2>1, <2>2, <2>3 DEF Fits
  <2>5. NoHandler.upload = handler[r].upload
    <3>1. NoHandler.upload \in BOOLEAN /\ handler[r].upload \in BOOLEAN BY <1>1, <2>1 DEF Handlers
    <3>2. QED BY <2>1, <2>3, <3>1
  <2>6. ServerInv' BY <1>1, <1>2, <1>6, <2>1, <2>2, <2>4, <2>5, HandlerMoves
  <2>7. QED BY <1>2, <1>3, <1>6, <2>6, SlotStep
<1>7. CASE ServeFails(r)
  <2>1. /\ UNCHANGED <<handler, uploads>>
        /\ used' = [used EXCEPT !.faults = @ + 1]
        /\ \E from \in {"accepted", "started"} : Go(r, from, "away")
    BY <1>7 DEF ServeFails, NoThread, WatchdogFails, Fault
  <2>2. used' \in [faults : Nat, duplicates : Nat] /\ used'.duplicates = used.duplicates
    BY <1>1, <2>1
  <2>3. /\ \A q \in Requests \ {r} : stage'[q] = stage[q]
        /\ stage'[r] # "serving" /\ stage[r] # "serving"
    BY <2>1, StageFacts
  <2>4. \A q \in Requests : Fits(handler'[q], borrow'[q], stage'[q])
    BY <1>1, <1>2, <2>1, <2>3 DEF ServerInv, Fits
  <2>5. Uploading' = Uploading BY <2>1 DEF Uploading
  <2>6. ServerInv' BY <1>1, <2>1, <2>2, <2>4, <2>5 DEF ServerInv, Fits
  <2>7. QED BY <1>2, <1>3, <2>2, <2>6, SlotStep
<1>8. QED BY <1>4, <1>5, <1>6, <1>7 DEF Admit, Serve, Watch, KeepHandlers

LEMMA ClientKeeps ==
  ASSUME IInv, NEW r \in Requests,
         ReadHeaders(r) \/ ReadBody(r) \/ Reply(r) \/ Disconnect(r) \/ CutOff(r)
  PROVE  IInv'
<1>1. /\ handler[r] \in Handlers /\ Fits(handler[r], borrow[r], stage[r])
      /\ used \in [faults : Nat, duplicates : Nat] /\ ServerInv
      /\ Free(r) <=> borrow[r].pc = "out"
  BY HandlerFacts DEF IInv
<1>2. UNCHANGED slotVars /\ UNCHANGED poolVars /\ used' = used
  BY DEF ReadHeaders, ReadBody, Reply, CutOff, Disconnect, Leave
<1>3. borrow' = borrow /\ stage' = stage BY <1>2 DEF slotVars, poolVars
<1>4. SUFFICES ServerInv' BY <1>2, <1>4, HandlerStep
<1>5. CASE ReadHeaders(r)
  <2>1. stage[r] = "serving" /\ borrow[r].pc = "out" /\ ~handler[r].upload
    BY <1>1, <1>5 DEF ReadHeaders, At, Fits
  <2>2. CASE \E pc \in {"auth", "reply"} : Move(r, [handler[r] EXCEPT !.pc = pc]) /\ uploads' = uploads
    <3>1. PICK pc \in {"auth", "reply"} : Move(r, [handler[r] EXCEPT !.pc = pc]) /\ uploads' = uploads
      BY <2>2
    <3> DEFINE h == [handler[r] EXCEPT !.pc = pc]
    <3>2. h \in Handlers BY <1>1, Zenon DEF Handlers
    <3>3. h.pc = pc /\ h.upload = handler[r].upload BY <1>1 DEF Handlers
    <3>4. Move(r, h) BY <3>1
    <3> HIDE DEF h
    <3>5. Fits(h, borrow'[r], stage'[r]) BY <1>3, <2>1, <3>3 DEF Fits
    <3>6. QED BY <1>1, <1>2, <1>3, <3>1, <3>2, <3>3, <3>4, <3>5, HandlerMoves
  <2>3. CASE /\ uploads > 0 /\ uploads' = uploads - 1
             /\ Move(r, [handler[r] EXCEPT !.pc = "auth", !.upload = TRUE])
    <3> DEFINE h == [handler[r] EXCEPT !.pc = "auth", !.upload = TRUE]
    <3>1. h \in Handlers BY <1>1, Zenon DEF Handlers
    <3>2. h.pc = "auth" /\ h.upload BY <1>1 DEF Handlers
    <3>3. Move(r, h) BY <2>3
    <3> HIDE DEF h
    <3>4. Fits(h, borrow'[r], stage'[r]) BY <1>3, <2>1, <3>2 DEF Fits
    <3>5. QED BY <1>1, <1>2, <1>3, <2>1, <2>3, <3>1, <3>2, <3>3, <3>4, HandlerMoves
  <2>4. QED BY <1>5, <2>2, <2>3 DEF ReadHeaders
<1>6. CASE ReadBody(r)
  <2> DEFINE h == [handler[r] EXCEPT !.pc = "work"]
  <2>1. stage[r] = "serving" /\ borrow[r].pc = "out" BY <1>1, <1>6 DEF ReadBody, At, Fits
  <2>2. h \in Handlers BY <1>1, Zenon DEF Handlers
  <2>3. h.pc = "work" /\ h.upload = handler[r].upload BY <1>1 DEF Handlers
  <2>4. Move(r, h) /\ uploads' = uploads BY <1>6 DEF ReadBody
  <2> HIDE DEF h
  <2>5. Fits(h, borrow'[r], stage'[r]) BY <1>3, <2>1, <2>3 DEF Fits
  <2>6. QED BY <1>1, <1>2, <1>3, <2>2, <2>3, <2>4, <2>5, HandlerMoves
<1>7. CASE Reply(r) \/ Disconnect(r) \/ CutOff(r)
  <2>1. /\ handler[r].pc \in {"headers", "body", "reply"} /\ Free(r) /\ Leave(r)
    BY <1>7 DEF Reply, Disconnect, CutOff, At
  <2> DEFINE h == [NoHandler EXCEPT !.pc = "end"]
  <2>2. h \in Handlers /\ h.pc = "end" /\ ~h.upload
    <3>1. h \in Handlers BY NoHandlerTyped, Zenon DEF Handlers
    <3>2. QED BY <3>1 DEF NoHandler
  <2>3. Move(r, h) /\ uploads' = IF handler[r].upload THEN uploads + 1 ELSE uploads
    BY <2>1 DEF Leave
  <2> HIDE DEF h
  <2>4. stage[r] = "serving" /\ borrow[r].pc = "out" BY <1>1, <2>1 DEF Fits
  <2>5. Fits(h, borrow'[r], stage'[r]) BY <1>3, <2>2, <2>4 DEF Fits
  <2>6. \/ uploads' = uploads /\ h.upload = handler[r].upload
        \/ uploads' = uploads + 1 /\ ~h.upload /\ handler[r].upload
    <3>1. h.upload \in BOOLEAN /\ handler[r].upload \in BOOLEAN BY <1>1, <2>2 DEF Handlers
    <3>2. QED BY <2>2, <2>3, <3>1
  <2>7. QED BY <1>1, <1>2, <1>3, <2>2, <2>3, <2>5, <2>6, HandlerMoves
<1>8. QED BY <1>5, <1>6, <1>7

\* Where the call leaves the handler's thread.
LEMMA CallFacts ==
  ASSUME IInv, NEW r \in Requests, PoolSteps(r)
  PROVE  /\ \A q \in Requests \ {r} : borrow'[q] = borrow[q]
         /\ OpenFails(r) \/ WaitsTooLong(r) \/ Release(r) => borrow'[r].pc = "out"
         /\ Read(r) \/ Write(r) \/ EndWrite(r) \/ DuplicateKey(r) \/ Locked(r) \/ WaitsTooLong(r)
            \/ Release(r) => borrow[r].pc # "out"
<1>1. PoolInv /\ r \in Threads BY FiniteRequests DEF IInv
<1>2. \A q \in Requests \ {r} : borrow'[q] = borrow[q] BY <1>1, FiniteRequests, PoolOthers
<1>3. borrow \in [Threads -> Places] BY <1>1 DEF PoolInv, PoolTypeOK, Places
<1>4. OpenFails(r) \/ WaitsTooLong(r) \/ Release(r) => borrow'[r].pc = "out"
  BY <1>1, <1>3 DEF OpenFails, WaitsTooLong, Release, Set
<1>5. QED BY <1>2, <1>4
  DEF Read, Write, EndWrite, DuplicateKey, Locked, WaitsTooLong, Release

LEMMA CallKeeps ==
  ASSUME IInv, NEW r \in Requests, Borrow(r) \/ Execute(r)
  PROVE  IInv'
<1>1. /\ handler[r] \in Handlers /\ Fits(handler[r], borrow[r], stage[r]) /\ ServerInv
  BY HandlerFacts DEF IInv
<1>2. /\ PoolSteps(r) /\ (DuplicateKey(r) => EndWrite(r)) /\ UNCHANGED slotVars /\ KeepHandlers
      /\ handler[r].pc \in {"auth", "work"} /\ handler[r].calls < MaxCalls
  <2>1. PoolSteps(r) /\ UNCHANGED slotVars /\ KeepHandlers /\ handler[r].pc \in {"auth", "work"}
    BY DEF Borrow, Execute, Calling, PoolSteps
  <2>2. handler[r].calls < MaxCalls
    <3>1. CASE Borrow(r) BY <3>1 DEF Borrow
    <3>2. CASE Execute(r)
      <4>1. borrow[r].pc # "out" BY <2>1, <3>2, CallFacts DEF Execute
      <4>2. QED BY <1>1, <4>1 DEF Fits
    <3>3. QED BY <3>1, <3>2
  <2>3. DuplicateKey(r) => EndWrite(r)
    BY DEF DuplicateKey, Borrow, Execute, Take, FindEmpty, Open, StartWaiting, Read, Write
  <2>4. QED BY <2>1, <2>2, <2>3
<1>3. stage' = stage /\ used' = used BY <1>2 DEF slotVars, KeepHandlers
<1>4. Fits(handler[r], borrow'[r], stage'[r]) BY <1>1, <1>2, <1>3 DEF Fits
<1>5. ServerInv' BY <1>1, <1>2, <1>3, <1>4, CallFacts, HandlerStays
<1>6. QED BY <1>2, <1>3, <1>5, CallStep

LEMMA ReturnKeeps ==
  ASSUME IInv, NEW r \in Requests, Return(r)
  PROVE  IInv'
<1>1. /\ handler[r] \in Handlers /\ Fits(handler[r], borrow[r], stage[r]) /\ ServerInv
      /\ used \in [faults : Nat, duplicates : Nat]
  BY HandlerFacts DEF IInv
<1>2. Release(r) /\ PoolSteps(r) /\ UNCHANGED slotVars /\ uploads' = uploads /\ used' = used
  BY DEF Return, PoolSteps
<1>3. /\ \A q \in Requests \ {r} : borrow'[q] = borrow[q] /\ stage'[q] = stage[q]
      /\ borrow'[r].pc = "out" /\ borrow[r].pc # "out" /\ stage' = stage
  BY <1>2, CallFacts DEF slotVars
<1>4. handler[r].calls < MaxCalls /\ stage[r] = "serving" BY <1>1, <1>3 DEF Fits
<1>5. PICK n : n = handler[r].calls + 1 OBVIOUS
<1>6. n \in 0..MaxCalls BY <1>1, <1>4, <1>5, ApiAssumption DEF Handlers
<1>7. PICK pc \in {"body", "work", "reply"} : Move(r, [handler[r] EXCEPT !.pc = pc, !.calls = n])
  <2>1. PICK next \in {"body", "work", "reply"} :
          Move(r, [handler[r] EXCEPT !.pc = IF next = "work" /\ n = MaxCalls THEN "reply" ELSE next,
                                     !.calls = n])
    <3>1. CASE At(r, "auth") BY <1>5, <3>1 DEF Return, At
    <3>2. CASE At(r, "work") BY <1>5, <3>2 DEF Return, At
    <3>3. CASE ~At(r, "auth") /\ ~At(r, "work") BY <1>5, <3>3 DEF Return
    <3>4. QED BY <3>1, <3>2, <3>3
  <2>2. CASE next = "work" /\ n = MaxCalls BY <2>1, <2>2
  <2>3. CASE ~(next = "work" /\ n = MaxCalls) BY <2>1, <2>3
  <2>4. QED BY <2>2, <2>3
<1> DEFINE h == [handler[r] EXCEPT !.pc = pc, !.calls = n]
<1>8. h \in Handlers BY <1>1, <1>6, Zenon DEF Handlers
<1>9. h.pc = pc /\ h.upload = handler[r].upload BY <1>1 DEF Handlers
<1>10. Move(r, h) BY <1>7
<1> HIDE DEF h
<1>11. Fits(h, borrow'[r], stage'[r]) BY <1>3, <1>4, <1>9 DEF Fits
<1>12. ServerInv' BY <1>1, <1>2, <1>3, <1>8, <1>9, <1>10, <1>11, HandlerMoves
<1>13. QED BY <1>2, <1>12, CallStep

LEMMA RaiseKeeps ==
  ASSUME IInv, NEW r \in Requests, CallFails(r) \/ OpeningFails(r) \/ KeyIsTaken(r)
  PROVE  IInv'
<1>1. /\ handler[r] \in Handlers /\ Fits(handler[r], borrow[r], stage[r]) /\ ServerInv
      /\ used \in [faults : Nat, duplicates : Nat]
  BY HandlerFacts DEF IInv
<1>2. /\ OpenFails(r) \/ WaitsTooLong(r) \/ Locked(r) \/ DuplicateKey(r)
      /\ UNCHANGED slotVars /\ uploads' = uploads /\ PoolSteps(r)
      /\ handler[r].pc \in {"auth", "work"}
  BY DEF CallFails, OpeningFails, KeyIsTaken, Raise, Calling, PoolSteps
<1>3. used' \in [faults : Nat, duplicates : Nat]
  <2>1. used' \in {used, [used EXCEPT !.faults = @ + 1], [used EXCEPT !.duplicates = @ + 1]}
    BY DEF CallFails, OpeningFails, KeyIsTaken, Fault
  <2>2. QED BY <1>1, <2>1
<1>4. /\ \A q \in Requests \ {r} : borrow'[q] = borrow[q] /\ stage'[q] = stage[q]
      /\ stage' = stage /\ stage[r] = "serving"
      /\ borrow'[r].pc # "out" => handler[r].calls < MaxCalls
  BY <1>1, <1>2, CallFacts DEF slotVars, Fits
<1> DEFINE h == [handler[r] EXCEPT !.pc = "reply"]
<1>5. h \in Handlers BY <1>1, Zenon DEF Handlers
<1>6. h.pc = "reply" /\ h.upload = handler[r].upload /\ h.calls = handler[r].calls
  BY <1>1 DEF Handlers
<1>7. Move(r, h) BY DEF CallFails, OpeningFails, KeyIsTaken, Raise
<1> HIDE DEF h
<1>8. Fits(h, borrow'[r], stage'[r]) BY <1>4, <1>6 DEF Fits
<1>9. ServerInv' BY <1>1, <1>2, <1>3, <1>4, <1>5, <1>6, <1>7, <1>8, HandlerMoves
<1>10. QED BY <1>2, <1>3, <1>9, CallStep

LEMMA StepIInv ==
  ASSUME IInv, [Next]_vars
  PROVE  IInv'
<1>1. CASE UNCHANGED vars
  <2>1. UNCHANGED slotVars /\ UNCHANGED poolVars /\ KeepHandlers BY <1>1 DEF vars, KeepHandlers
  <2>2. handler' = handler /\ borrow' = borrow /\ stage' = stage /\ used' = used /\ uploads' = uploads
    BY <2>1 DEF slotVars, poolVars, KeepHandlers
  <2>3. ServerInv' BY <2>2 DEF IInv, ServerInv, Fits, Uploading
  <2>4. QED BY <2>1, <2>2, <2>3, HandlerStep
<1>2. ASSUME NEW r \in Requests,
             \/ Admit(r) \/ Run(r) \/ Watch(r)
             \/ ReadHeaders(r) \/ ReadBody(r) \/ Reply(r) \/ Disconnect(r)
             \/ ServeFails(r) \/ OpeningFails(r) \/ KeyIsTaken(r)
      PROVE  IInv'
  BY <1>2, ServerKeeps, ClientKeeps, CallKeeps, ReturnKeeps, RaiseKeeps DEF Run
<1>3. QED BY <1>1, <1>2 DEF Next

LEMMA InitIInv == Init => IInv
<1> SUFFICES ASSUME Init PROVE IInv OBVIOUS
<1>1. \A t \in Threads : borrow[t] = NoBorrow /\ stage[t] = "away" /\ handler[t] = NoHandler
  BY FiniteRequests DEF Init, PoolInit, SlotsInit
<1>2. PoolInv
  <2>1. PoolTypeOK
    <3>1. borrow \in [Threads -> Places] BY DEF Init, PoolInit, NoBorrow, Places
    <3>2. QED BY <3>1 DEF Init, PoolInit, PoolTypeOK, Places
  <2>2. Using = {} BY <1>1 DEF Using, NoBorrow
  <2>3. idle = {} /\ created = 0 /\ lost = 0 BY DEF Init, PoolInit
  <2>4. OneHolder BY <2>2, <2>3, FS_EmptySet, PoolAssumption DEF OneHolder
  <2>5. QED BY <1>1, <2>1, <2>4 DEF PoolInv, NoBorrow
<1>3. SlotsInv
  <2>1. Held = {} /\ Live = {} BY <1>1, FiniteRequests DEF Held, Live, Holding, Threaded
  <2>2. Cardinality(Held) = 0 /\ Cardinality(Live) = 0 BY <2>1, FS_EmptySet
  <2>3. slots = MaxActive /\ active = 0 /\ leaked = 0 BY DEF Init, SlotsInit
  <2>4. SlotsConserved BY <2>2, <2>3, SlotsAssumption DEF SlotsConserved, Held, Live
  <2>5. SlotsTypeOK BY <2>3, SlotsAssumption DEF Init, SlotsInit, SlotsTypeOK
  <2>6. QED BY <2>4, <2>5 DEF SlotsInv
<1>4. ServerInv
  <2>1. Uploading = {} BY <1>1, FiniteRequests DEF Uploading, NoHandler
  <2>2. Cardinality(Uploading) = 0 BY <2>1, FS_EmptySet
  <2>3. uploads = MaxUploads /\ MaxUploads \in Nat BY ApiAssumption DEF Init
  <2>4. \A r \in Requests : Fits(handler[r], borrow[r], stage[r])
    BY <1>1, FiniteRequests DEF Fits, NoBorrow, NoHandler
  <2>5. handler \in [Requests -> Handlers] BY NoHandlerTyped DEF Init
  <2>6. used \in [faults : Nat, duplicates : Nat] BY DEF Init
  <2>7. QED BY <2>2, <2>3, <2>4, <2>5, <2>6 DEF ServerInv
<1>5. LockHeld BY DEF Init, PoolInit, LockHeld
<1>6. QED BY <1>2, <1>3, <1>4, <1>5 DEF IInv

THEOREM Invariance == Spec => []IInv
<1>1. IInv /\ [Next]_vars => IInv' BY StepIInv
<1>2. QED BY InitIInv, <1>1, PTL DEF Spec

-----------------------------------------------------------------------------

\* The state has its type; the counters of slots stay within their limits.
THEOREM TypeCorrect == Spec => []TypeOK
<1>1. IInv => TypeOK
  <2> SUFFICES ASSUME IInv PROVE TypeOK OBVIOUS
  <2>1. uploads \in 0..MaxUploads
    <3>1. /\ uploads \in Nat /\ Cardinality(Uploading) \in Nat /\ MaxUploads \in Nat
          /\ uploads + Cardinality(Uploading) = MaxUploads
      BY UploadCounts, ApiAssumption DEF IInv, ServerInv
    <3>2. QED BY <3>1
  <2>2. QED BY <2>1 DEF IInv, PoolInv, SlotsInv, ServerInv, TypeOK, Handlers
<1>2. QED BY Invariance, <1>1, PTL

\* No connection is in two hands and the pool is never overdrawn, for any number of
\* threads, connections and failures to open one (db.py:61-91).
THEOREM OneHolderHolds == Spec => []OneHolder
<1>1. IInv => OneHolder BY DEF IInv, PoolInv
<1>2. QED BY Invariance, <1>1, PTL

\* A slot is never given back twice and only a thread that dies before its try
\* keeps one (bounded_http.py:125-166).
THEOREM SlotsConservedHolds == Spec => []SlotsConserved
<1>1. IInv => SlotsConserved BY DEF IInv, SlotsInv
<1>2. QED BY Invariance, <1>1, PTL

\* Whichever way a handler is left, its connection and its upload slot are back
\* (app.py:311, db.py:53-59).
THEOREM NothingLeftBehindHolds == Spec => []NothingLeftBehind
<1>1. IInv => NothingLeftBehind
  <2> SUFFICES ASSUME IInv PROVE NothingLeftBehind OBVIOUS
  <2>1. ASSUME NEW r \in Requests, stage[r] # "serving" PROVE Free(r) /\ ~handler[r].upload
    BY <2>1, HandlerFacts DEF Fits
  <2>2. QED BY <2>1 DEF NothingLeftBehind, IInv, ServerInv, Uploading
<1>2. QED BY Invariance, <1>1, PTL

\* The write lock is with a call under way, or with a connection that an exception
\* put back with its transaction open (db.py:53-59, 330).
THEOREM LockIsAttendedHolds == Spec => []LockIsAttended
<1>1. IInv => LockIsAttended
  BY FiniteRequests DEF IInv, LockHeld, LockIsAttended, InUse, Using
<1>2. QED BY Invariance, <1>1, PTL

-----------------------------------------------------------------------------
(* Waiting for a connection.                                                *)

\* A thread that waits has found the pool full, and the pool stays so.
WaitInv == \A t \in Threads : borrow[t].pc = "wait" => created = PoolSize

LEMMA NextPool ==
  ASSUME [Next]_vars
  PROVE  UNCHANGED poolVars \/ \E t \in Threads : PoolSteps(t)
<1>1. CASE UNCHANGED vars BY <1>1 DEF vars
<1>2. ASSUME NEW r \in Requests,
             \/ Admit(r) \/ Run(r) \/ Watch(r)
             \/ ReadHeaders(r) \/ ReadBody(r) \/ Reply(r) \/ Disconnect(r)
             \/ ServeFails(r) \/ OpeningFails(r) \/ KeyIsTaken(r)
      PROVE  UNCHANGED poolVars \/ PoolSteps(r)
  BY <1>2 DEF Admit, Run, Serve, CutOff, Borrow, Execute, Return, CallFails, Watch, ReadHeaders,
              ReadBody, Reply, Disconnect, Leave, ServeFails, OpeningFails, KeyIsTaken, PoolSteps
<1>3. QED BY <1>1, <1>2, FiniteRequests DEF Next

\* The queue has room for every connection that comes back, so none is closed.
LEMMA QueueHasRoom ==
  ASSUME PoolInv, NEW t \in Threads, Release(t)
  PROVE  Cardinality(idle) < PoolSize
<1>1. t \in Using BY DEF Release, PoolInv, Using
<1>2. /\ Cardinality(idle) \in Nat /\ IsFiniteSet(Using) /\ Cardinality(Using) \in Nat
      /\ lost \in Nat /\ created \in Nat /\ PoolSize \in Nat
      /\ Cardinality(idle) + Cardinality(Using) + lost = created /\ created <= PoolSize
  BY PoolCounts, PoolAssumption DEF PoolInv, PoolTypeOK, OneHolder
<1>3. Cardinality(Using) >= 1 BY <1>1, <1>2, CountRemove
<1>4. QED BY <1>2, <1>3

LEMMA PlacesAreKept ==
  ASSUME PoolInv, NEW t \in Threads, PoolSteps(t)
  PROVE  created' \in {created, created + 1}
BY QueueHasRoom
   DEF PoolSteps, Take, FindEmpty, Open, OpenFails, StartWaiting, WaitsTooLong,
       Read, Write, EndWrite, DuplicateKey, Locked, Release

LEMMA WaitKeeps ==
  ASSUME PoolInv, PoolInv', WaitInv, NEW t \in Threads, PoolSteps(t)
  PROVE  WaitInv'
<1>1. /\ created \in Nat /\ created' \in Nat /\ created <= PoolSize /\ created' <= PoolSize
      /\ PoolSize \in Nat
  BY PoolAssumption DEF PoolInv, PoolTypeOK, OneHolder
<1>2. \A u \in Threads \ {t} : borrow'[u] = borrow[u] BY PoolOthers
<1>3. created = PoolSize => created' = PoolSize BY <1>1, PlacesAreKept
<1>4. ASSUME borrow'[t].pc = "wait" PROVE created' = PoolSize
  <2>1. borrow \in [Threads -> Places] BY DEF PoolInv, PoolTypeOK, Places
  <2>2. StartWaiting(t)
    BY <1>4, <2>1
       DEF PoolSteps, Take, FindEmpty, Open, OpenFails, WaitsTooLong,
           Read, Write, EndWrite, DuplicateKey, Locked, Release, Set
  <2>3. QED BY <1>1, <2>2 DEF StartWaiting
<1>5. QED BY <1>2, <1>3, <1>4 DEF WaitInv

THEOREM WaitInvariance == Spec => [](IInv /\ WaitInv)
<1>1. Init => WaitInv BY DEF Init, PoolInit, NoBorrow, WaitInv
<1>2. (IInv /\ WaitInv) /\ [Next]_vars => (IInv /\ WaitInv)'
  <2> SUFFICES ASSUME IInv, WaitInv, [Next]_vars PROVE IInv' /\ WaitInv' OBVIOUS
  <2>1. IInv' BY StepIInv
  <2>2. PoolInv /\ PoolInv' BY <2>1 DEF IInv
  <2>3. CASE UNCHANGED poolVars BY <2>1, <2>3 DEF WaitInv, poolVars
  <2>4. QED BY <2>1, <2>2, <2>3, NextPool, WaitKeeps
<1>3. QED BY InitIInv, <1>1, <1>2, PTL DEF Spec

\* Whoever waits for a connection waits for another thread to give one back: no
\* place is ever free meanwhile, for any number of threads and of connections that
\* cannot be opened (db.py:61-101).
THEOREM WaitsForOthersHolds == Spec => []WaitsForOthers
<1>1. IInv /\ WaitInv => WaitsForOthers
  <2> SUFFICES ASSUME IInv, WaitInv, NEW t \in Threads, borrow[t].pc = "wait", idle = {}
               PROVE  Cardinality(Using) + lost = PoolSize
    BY DEF WaitsForOthers
  <2>1. created = PoolSize BY DEF WaitInv
  <2>2. Cardinality(idle) = 0 BY FS_EmptySet
  <2>3. Cardinality(Using) \in Nat /\ lost \in Nat BY PoolCounts DEF IInv, PoolInv, PoolTypeOK
  <2>4. QED BY <2>1, <2>2, <2>3 DEF IInv, PoolInv, OneHolder
<1>2. QED BY WaitInvariance, <1>1, PTL

\* An open connection is in the queue or with a thread as long as the process lives.
OpenStaysOpen == [][idle \cup InUse \subseteq idle' \cup InUse']_vars

\* A connection is neither dropped nor closed: the branch of _release that closes
\* one because the queue is full is never taken (db.py:93-101).
THEOREM ConnectionsAreKept == Spec => OpenStaysOpen
<1>1. IInv /\ [Next]_vars => [idle \cup InUse \subseteq idle' \cup InUse']_vars
  <2> SUFFICES ASSUME IInv, [Next]_vars PROVE idle \cup InUse \subseteq idle' \cup InUse'
    OBVIOUS
  <2>1. CASE UNCHANGED poolVars BY <2>1 DEF InUse, Using, poolVars
  <2>2. ASSUME NEW t \in Threads, PoolSteps(t)
        PROVE  idle \cup InUse \subseteq idle' \cup InUse'
    <3>1. PoolInv /\ borrow \in [Threads -> Places] BY DEF IInv, PoolInv, PoolTypeOK, Places
    <3>2. \A u \in Threads \ {t} : borrow'[u] = borrow[u] BY <2>2, <3>1, PoolOthers
    <3>3. /\ idle \subseteq idle' \/ \E c \in idle : idle' = idle \ {c} /\ borrow'[t].con = c
          /\ \/ borrow[t].con = NoConnection \/ borrow'[t].con = borrow[t].con
             \/ borrow[t].con \in idle'
      <4>1. CASE Release(t)
        <5>1. Cardinality(idle) < PoolSize BY <3>1, <4>1, QueueHasRoom
        <5>2. QED BY <3>1, <4>1, <5>1 DEF Release
      <4>2. CASE Take(t)
        <5>1. PICK c \in idle : idle' = idle \ {c} /\ Set(t, "using", c) BY <4>2 DEF Take
        <5>2. borrow'[t].con = c BY <3>1, <5>1 DEF Set
        <5>3. borrow[t].con = NoConnection BY <3>1, <4>2 DEF Take, PoolInv
        <5>4. QED BY <5>1, <5>2, <5>3
      <4>3. CASE FindEmpty(t) \/ Open(t) \/ OpenFails(t) \/ StartWaiting(t) \/ WaitsTooLong(t)
        <5>1. idle' = idle
          BY <4>3 DEF FindEmpty, Open, OpenFails, StartWaiting, WaitsTooLong
        <5>2. borrow[t].con = NoConnection
          BY <3>1, <4>3 DEF FindEmpty, Open, OpenFails, StartWaiting, WaitsTooLong, PoolInv
        <5>3. QED BY <5>1, <5>2
      <4>4. CASE Read(t) \/ Write(t) \/ EndWrite(t) \/ DuplicateKey(t) \/ Locked(t)
        BY <3>1, <4>4 DEF Read, Write, EndWrite, DuplicateKey, Locked, Set
      <4>5. QED BY <2>2, <4>1, <4>2, <4>3, <4>4 DEF PoolSteps
    <3>4. ASSUME NEW c \in idle \cup InUse PROVE c \in idle' \cup InUse'
      <4>1. CASE c \in InUse
        <5>1. PICK u \in Using : borrow[u].con = c BY <4>1 DEF InUse
        <5>2. u \in Threads /\ c # NoConnection BY <5>1 DEF Using
        <5>3. CASE u = t
          <6>1. borrow'[t].con = c \/ c \in idle' BY <3>3, <5>1, <5>2, <5>3
          <6>2. QED BY <5>2, <6>1 DEF InUse, Using
        <5>4. CASE u # t BY <3>2, <5>1, <5>2, <5>4 DEF InUse, Using
        <5>5. QED BY <5>3, <5>4
      <4>2. CASE c \in idle
        <5>1. c # NoConnection BY <3>1, <4>2, PoolAssumption DEF PoolInv, PoolTypeOK
        <5>2. c \in idle' \/ borrow'[t].con = c BY <3>3, <4>2
        <5>3. QED BY <5>1, <5>2 DEF InUse, Using
      <4>3. QED BY <4>1, <4>2
    <3>5. QED BY <3>4
  <2>3. QED BY <2>1, <2>2, NextPool
<1>2. QED BY Invariance, <1>1, PTL DEF Spec, OpenStaysOpen

-----------------------------------------------------------------------------
(* What is left of a request.                                               *)

PlaceRank(pc) ==
  CASE pc = "out" -> 5 [] pc = "empty" -> 4 [] pc = "wait" -> 3
    [] pc = "using" -> 2 [] pc = "writing" -> 1 [] OTHER -> 0

StepRank(pc) ==
  CASE pc = "headers" -> 5 [] pc = "auth" -> 4 [] pc = "body" -> 3
    [] pc = "work" -> 2 [] pc = "reply" -> 1 [] OTHER -> 0

WatchRank(w) == CASE w = "armed" -> 2 [] w = "firing" -> 1 [] OTHER -> 0

\* A handler has its steps before it and its calls, and one call takes five.
HandlerRank(h, b) ==
  IF h.pc \in {"none", "end"} THEN 0
  ELSE 1 + 8 * (StepRank(h.pc) + MaxCalls - h.calls) + PlaceRank(b.pc)

Top == 1 + 8 * (5 + MaxCalls) + 5

StageRank(s) ==
  CASE s = "accepted" -> Top + 7 [] s = "started" -> Top + 6 [] s = "serving" -> 3
    [] s = "closed" -> 2 [] s = "finished" -> 1 [] OTHER -> 0

Rank(r) == StageRank(stage[r]) + WatchRank(watch[r]) + HandlerRank(handler[r], borrow[r])

Mine(r) == <<stage[r], watch[r], handler[r], borrow[r]>>
Gone(r) == stage[r] = "away" /\ watch[r] = "off"

LEMMA RanksAreNumbers ==
  ASSUME IInv, NEW r \in Requests
  PROVE  /\ StageRank(stage[r]) \in Nat /\ WatchRank(watch[r]) \in Nat
         /\ HandlerRank(handler[r], borrow[r]) \in 0..Top
         /\ Top \in Nat /\ MaxCalls \in Nat
<1>1. MaxCalls \in Nat BY ApiAssumption
<1>2. Top \in Nat BY <1>1 DEF Top
<1>3. handler[r].calls \in 0..MaxCalls BY HandlerFacts DEF Handlers
<1>4. StepRank(handler[r].pc) \in 0..5 BY DEF StepRank
<1>5. PlaceRank(borrow[r].pc) \in 0..5 BY DEF PlaceRank
<1>6. HandlerRank(handler[r], borrow[r]) \in 0..Top
  BY <1>1, <1>2, <1>3, <1>4, <1>5 DEF HandlerRank, Top
<1>7. StageRank(stage[r]) \in Nat BY <1>2 DEF StageRank
<1>8. WatchRank(watch[r]) \in Nat BY DEF WatchRank
<1>9. QED BY <1>1, <1>2, <1>6, <1>7, <1>8

\* The accept loop, the thread around its handler, and the watchdog.
LEMMA ServerRunsDown ==
  ASSUME IInv, IInv', NEW r \in Requests, SlotSteps(r), ~Gone(r), borrow' = borrow,
         \/ handler' = handler /\ ~StartWatchdog(r) /\ ~Close(r)
         \/ StartWatchdog(r) /\ Move(r, [NoHandler EXCEPT !.pc = "headers"])
         \/ Close(r) /\ At(r, "end") /\ Move(r, NoHandler)
  PROVE  Rank(r)' < Rank(r)
<1>1. /\ StageRank(stage[r]) \in Nat /\ WatchRank(watch[r]) \in Nat
      /\ HandlerRank(handler[r], borrow[r]) \in 0..Top
      /\ Top \in Nat
  BY RanksAreNumbers
<1>2. /\ StageRank(stage'[r]) \in Nat /\ WatchRank(watch'[r]) \in Nat
      /\ HandlerRank(handler'[r], borrow'[r]) \in 0..Top
  <2>1. (/\ StageRank(stage[r]) \in Nat /\ WatchRank(watch[r]) \in Nat
         /\ HandlerRank(handler[r], borrow[r]) \in 0..Top)'
    BY RanksAreNumbers, PTL
  <2>2. QED BY <2>1 DEF Top
<1>3. watch \in [Requests -> {"off", "armed", "firing", "fired"}]
      /\ stage \in [Requests -> Holding \cup {"away"}]
  BY DEF IInv, SlotsInv, SlotsTypeOK
<1>4. SUFFICES StageRank(stage'[r]) + WatchRank(watch'[r]) + HandlerRank(handler'[r], borrow'[r])
               < StageRank(stage[r]) + WatchRank(watch[r]) + HandlerRank(handler[r], borrow[r])
  BY DEF Rank, HandlerRank, StageRank, Top
<1>5. CASE handler' = handler /\ (Accept(r) \/ StartThread(r) \/ NoThread(r))
  <2>1. HandlerRank(handler'[r], borrow'[r]) = HandlerRank(handler[r], borrow[r]) BY <1>5
  <2>2. stage[r] = "accepted" /\ stage'[r] \in {"started", "away"} /\ watch' = watch
    BY <1>3, <1>5 DEF Accept, StartThread, NoThread, Go, Gone
  <2>3. StageRank(stage[r]) = Top + 7 /\ StageRank(stage'[r]) <= Top + 6
    BY <1>1, <2>2 DEF StageRank
  <2>4. QED BY <1>1, <1>2, <2>1, <2>2, <2>3
<1>6. CASE handler' = handler /\ (WatchdogFails(r) \/ SetFinished(r) \/ ReleaseSlot(r))
  <2>1. HandlerRank(handler'[r], borrow'[r]) = HandlerRank(handler[r], borrow[r]) BY <1>6
  <2>2. \/ stage[r] = "started" /\ stage'[r] = "away"
        \/ stage[r] = "closed" /\ stage'[r] = "finished"
        \/ stage[r] = "finished" /\ stage'[r] = "away"
    BY <1>3, <1>6 DEF WatchdogFails, SetFinished, ReleaseSlot, Go
  <2>3. watch'[r] \in {watch[r], "off"}
    BY <1>3, <1>6 DEF WatchdogFails, SetFinished, ReleaseSlot
  <2>4. StageRank(stage'[r]) < StageRank(stage[r]) BY <1>1, <2>2 DEF StageRank
  <2>5. WatchRank(watch'[r]) <= WatchRank(watch[r])
    <3>1. WatchRank("off") = 0 BY DEF WatchRank
    <3>2. QED BY <1>1, <2>3, <3>1
  <2>6. QED BY <1>1, <1>2, <2>1, <2>4, <2>5
<1>7. CASE handler' = handler /\ (Expire(r) \/ Shutdown(r))
  <2>1. HandlerRank(handler'[r], borrow'[r]) = HandlerRank(handler[r], borrow[r])
        /\ StageRank(stage'[r]) = StageRank(stage[r])
    BY <1>7 DEF Expire, Shutdown
  <2>2. \/ watch[r] = "armed" /\ watch'[r] = "firing"
        \/ watch[r] = "firing" /\ watch'[r] \in {"fired", "off"}
    BY <1>3, <1>7 DEF Expire, Shutdown
  <2>3. WatchRank(watch'[r]) < WatchRank(watch[r]) BY <2>2 DEF WatchRank
  <2>4. QED BY <1>1, <1>2, <2>1, <2>3
<1>8. CASE StartWatchdog(r) /\ Move(r, [NoHandler EXCEPT !.pc = "headers"])
  <2>1. stage[r] = "started" /\ stage'[r] = "serving" /\ watch'[r] = "armed"
    BY <1>3, <1>8 DEF StartWatchdog, Go
  <2>2. StageRank(stage[r]) = Top + 6 /\ StageRank(stage'[r]) = 3 /\ WatchRank(watch'[r]) = 2
    BY <1>1, <2>1 DEF StageRank, WatchRank
  <2>3. QED BY <1>1, <1>2, <2>2
<1>9. CASE Close(r) /\ At(r, "end") /\ Move(r, NoHandler)
  <2>1. stage[r] = "serving" /\ stage'[r] = "closed" /\ watch' = watch
    BY <1>3, <1>9 DEF Close, Go
  <2>2. StageRank(stage[r]) = 3 /\ StageRank(stage'[r]) = 2 BY <1>1, <2>1 DEF StageRank
  <2>3. handler'[r].pc = "none" BY <1>9 DEF Move, NoHandler, IInv, ServerInv
  <2>4. HandlerRank(handler'[r], borrow'[r]) = 0 BY <2>3 DEF HandlerRank
  <2>5. QED BY <1>1, <1>2, <2>1, <2>2, <2>4
<1>10. QED BY <1>5, <1>6, <1>7, <1>8, <1>9 DEF SlotSteps

\* The handler alone decides where the thread is in its work.
LEMMA HandlerRunsDown ==
  ASSUME IInv, IInv', NEW r \in Requests, UNCHANGED slotVars,
         HandlerRank(handler'[r], borrow'[r]) < HandlerRank(handler[r], borrow[r])
  PROVE  Rank(r)' < Rank(r)
<1>1. /\ StageRank(stage[r]) \in Nat /\ WatchRank(watch[r]) \in Nat
      /\ HandlerRank(handler[r], borrow[r]) \in 0..Top /\ Top \in Nat
  BY RanksAreNumbers
<1>2. HandlerRank(handler'[r], borrow'[r]) \in 0..Top
  <2>1. (HandlerRank(handler[r], borrow[r]) \in 0..Top)' BY RanksAreNumbers, PTL
  <2>2. QED BY <2>1 DEF Top
<1>3. stage' = stage /\ watch' = watch BY DEF slotVars
<1>4. StageRank(stage'[r]) + WatchRank(watch'[r]) + HandlerRank(handler'[r], borrow'[r])
      < StageRank(stage[r]) + WatchRank(watch[r]) + HandlerRank(handler[r], borrow[r])
  BY <1>1, <1>2, <1>3
<1>5. QED BY <1>4 DEF Rank, HandlerRank, StageRank, Top

LEMMA ClientRunsDown ==
  ASSUME IInv, IInv', NEW r \in Requests,
         ReadHeaders(r) \/ ReadBody(r) \/ Reply(r) \/ Disconnect(r) \/ CutOff(r)
  PROVE  Rank(r)' < Rank(r)
<1>1. UNCHANGED slotVars /\ borrow' = borrow
  BY DEF ReadHeaders, ReadBody, Reply, CutOff, Disconnect, Leave, poolVars
<1>2. handler[r] \in Handlers /\ handler \in [Requests -> Handlers] /\ MaxCalls \in Nat
      /\ Fits(handler[r], borrow[r], stage[r])
  BY HandlerFacts, RanksAreNumbers DEF IInv, ServerInv
<1>3. PlaceRank(borrow[r].pc) \in 0..5 BY DEF PlaceRank
<1>4. CASE ReadHeaders(r) \/ ReadBody(r)
  <2>1. /\ handler'[r].calls = handler[r].calls
        /\ \/ handler[r].pc = "headers" /\ handler'[r].pc \in {"auth", "reply"}
           \/ handler[r].pc = "body" /\ handler'[r].pc = "work"
    <3>1. CASE ReadHeaders(r)
      <4>1. PICK h \in {[handler[r] EXCEPT !.pc = "auth"], [handler[r] EXCEPT !.pc = "reply"],
                        [handler[r] EXCEPT !.pc = "auth", !.upload = TRUE]} : Move(r, h)
        BY <3>1 DEF ReadHeaders
      <4>2. h.calls = handler[r].calls /\ h.pc \in {"auth", "reply"} BY <1>2, <4>1 DEF Handlers
      <4>3. handler'[r] = h BY <1>2, <4>1 DEF Move
      <4>4. QED BY <3>1, <4>2, <4>3 DEF ReadHeaders, At
    <3>2. CASE ReadBody(r) BY <1>2, <3>2 DEF ReadBody, At, Move, Handlers
    <3>3. QED BY <1>4, <3>1, <3>2
  <2>2. StepRank(handler'[r].pc) < StepRank(handler[r].pc)
        /\ StepRank(handler'[r].pc) \in Nat /\ StepRank(handler[r].pc) \in Nat
    BY <2>1 DEF StepRank
  <2>3. handler[r].calls \in Nat BY <1>2 DEF Handlers
  <2>4. HandlerRank(handler'[r], borrow'[r]) < HandlerRank(handler[r], borrow[r])
    BY <1>1, <1>2, <1>3, <2>1, <2>2, <2>3 DEF HandlerRank
  <2>5. QED BY <1>1, <2>4, HandlerRunsDown
<1>5. CASE Reply(r) \/ Disconnect(r) \/ CutOff(r)
  <2>1. handler[r].pc \in {"headers", "body", "reply"} /\ Leave(r)
    BY <1>5 DEF Reply, Disconnect, CutOff, At
  <2>2. handler'[r].pc = "end" BY <1>2, <2>1 DEF Leave, Move, NoHandler
  <2>3. HandlerRank(handler'[r], borrow'[r]) = 0 BY <2>2 DEF HandlerRank
  <2>4. StepRank(handler[r].pc) \in Nat BY DEF StepRank
  <2>5. handler[r].calls \in 0..MaxCalls BY <1>2 DEF Handlers
  <2>6. HandlerRank(handler[r], borrow[r]) > 0
    BY <1>2, <1>3, <2>1, <2>4, <2>5 DEF HandlerRank
  <2>7. QED BY <1>1, <2>3, <2>6, HandlerRunsDown
<1>6. QED BY <1>4, <1>5

\* Inside a call the thread goes from place to place, each lower than the last.
LEMMA CallRunsDown ==
  ASSUME IInv, IInv', NEW r \in Requests, Borrow(r) \/ Execute(r)
  PROVE  Rank(r)' < Rank(r)
<1>1. UNCHANGED slotVars /\ handler' = handler /\ handler[r].pc \in {"auth", "work"}
  BY DEF Borrow, Execute, Calling, KeepHandlers
<1>2. handler[r] \in Handlers /\ MaxCalls \in Nat BY HandlerFacts, RanksAreNumbers
<1>3. borrow \in [Threads -> Places] /\ r \in Threads
  BY FiniteRequests DEF IInv, PoolInv, PoolTypeOK, Places
<1>4. \/ borrow[r].pc \in {"out", "wait"} /\ borrow'[r].pc = "using"
      \/ borrow[r].pc = "out" /\ borrow'[r].pc = "empty"
      \/ borrow[r].pc = "empty" /\ borrow'[r].pc \in {"using", "wait"}
      \/ borrow[r].pc = "using" /\ borrow'[r].pc \in {"writing", "ended"}
      \/ borrow[r].pc = "writing" /\ borrow'[r].pc = "ended"
  <2>1. CASE Borrow(r)
    BY <1>3, <2>1 DEF Borrow, Take, FindEmpty, Open, StartWaiting, Set
  <2>2. CASE Execute(r)
    BY <1>3, <2>2 DEF Execute, Read, Write, EndWrite, Set
  <2>3. QED BY <2>1, <2>2
<1>5. PlaceRank(borrow'[r].pc) < PlaceRank(borrow[r].pc)
      /\ PlaceRank(borrow'[r].pc) \in Nat /\ PlaceRank(borrow[r].pc) \in Nat
  BY <1>4 DEF PlaceRank
<1>6. StepRank(handler[r].pc) \in Nat BY DEF StepRank
<1>7. handler[r].calls \in Nat BY <1>2 DEF Handlers
<1>8. HandlerRank(handler'[r], borrow'[r]) < HandlerRank(handler[r], borrow[r])
  BY <1>1, <1>2, <1>5, <1>6, <1>7 DEF HandlerRank
<1>9. QED BY <1>1, <1>8, HandlerRunsDown

\* A call that is over is one call less, and the handler never goes back.
LEMMA ReturnRunsDown ==
  ASSUME IInv, IInv', NEW r \in Requests, Return(r)
  PROVE  Rank(r)' < Rank(r)
<1>1. UNCHANGED slotVars /\ borrow[r].pc = "ended" /\ borrow'[r].pc = "out"
  <2>1. borrow \in [Threads -> Places] /\ r \in Threads
    BY FiniteRequests DEF IInv, PoolInv, PoolTypeOK, Places
  <2>2. QED BY <2>1 DEF Return, Release, Set
<1>2. handler \in [Requests -> Handlers] /\ handler[r] \in Handlers /\ MaxCalls \in Nat
      /\ Fits(handler[r], borrow[r], stage[r])
  BY HandlerFacts, RanksAreNumbers DEF IInv, ServerInv
<1>3. handler[r].pc \in {"auth", "work", "reply"} BY <1>1, <1>2 DEF Fits, Handlers
<1>4. handler'[r].calls = handler[r].calls + 1 /\ handler'[r].pc \in {"body", "work", "reply"}
      /\ (handler[r].pc = "work" => handler'[r].pc \in {"work", "reply"})
      /\ (handler[r].pc = "reply" => handler'[r].pc = "reply")
  <2>1. PICK next \in CASE At(r, "auth") -> IF handler[r].upload THEN {"body", "reply"} ELSE {"work", "reply"}
                        [] At(r, "work") -> {"work", "reply"}
                        [] OTHER         -> {"reply"} :
          Move(r, [handler[r] EXCEPT !.pc = IF next = "work" /\ handler[r].calls + 1 = MaxCalls
                                            THEN "reply" ELSE next,
                                     !.calls = handler[r].calls + 1])
    BY DEF Return
  <2>2. /\ next \in {"body", "work", "reply"}
        /\ handler[r].pc = "work" => next \in {"work", "reply"}
        /\ handler[r].pc = "reply" => next = "reply"
    <3>1. CASE handler[r].pc = "auth" BY <2>1, <3>1 DEF At
    <3>2. CASE handler[r].pc = "work" BY <2>1, <3>2 DEF At
    <3>3. CASE handler[r].pc = "reply" BY <2>1, <3>3 DEF At
    <3>4. QED BY <1>3, <3>1, <3>2, <3>3
  <2>3. /\ handler'[r].calls = handler[r].calls + 1
        /\ handler'[r].pc \in {next, "reply"}
    BY <1>2, <2>1 DEF Move, Handlers
  <2>4. QED BY <2>2, <2>3
<1>5. StepRank(handler'[r].pc) <= StepRank(handler[r].pc)
      /\ StepRank(handler'[r].pc) \in Nat /\ StepRank(handler[r].pc) \in Nat
  BY <1>3, <1>4 DEF StepRank
<1>6. PlaceRank(borrow'[r].pc) = 5 /\ PlaceRank(borrow[r].pc) = 0
  BY <1>1 DEF PlaceRank
<1>7. handler[r].calls \in Nat BY <1>2 DEF Handlers
<1>8. HandlerRank(handler'[r], borrow'[r]) < HandlerRank(handler[r], borrow[r])
  BY <1>2, <1>3, <1>4, <1>5, <1>6, <1>7 DEF HandlerRank
<1>9. QED BY <1>1, <1>8, HandlerRunsDown

\* A call that raises is not repeated: the handler goes on to its answer.
LEMMA RaiseRunsDown ==
  ASSUME IInv, IInv', NEW r \in Requests, CallFails(r) \/ OpeningFails(r) \/ KeyIsTaken(r)
  PROVE  Rank(r)' < Rank(r)
<1>1. UNCHANGED slotVars /\ Raise(r) /\ handler[r].pc \in {"auth", "work"}
      /\ (WaitsTooLong(r) \/ Locked(r) \/ OpenFails(r) \/ DuplicateKey(r))
  BY DEF CallFails, OpeningFails, KeyIsTaken, Raise, Calling
<1>2. handler \in [Requests -> Handlers] /\ handler[r] \in Handlers /\ MaxCalls \in Nat
  BY HandlerFacts, RanksAreNumbers DEF IInv, ServerInv
<1>3. handler'[r].pc = "reply" /\ handler'[r].calls = handler[r].calls
  BY <1>1, <1>2 DEF Raise, Move, Handlers
<1>4. borrow'[r].pc \in {"out", "ended"} /\ borrow[r].pc \in {"wait", "using", "empty", "writing"}
  <2>1. borrow \in [Threads -> Places] /\ r \in Threads
    BY FiniteRequests DEF IInv, PoolInv, PoolTypeOK, Places
  <2>2. QED BY <1>1, <2>1 DEF WaitsTooLong, Locked, OpenFails, DuplicateKey, Set
<1>5. PlaceRank(borrow'[r].pc) \in 0..5 /\ PlaceRank(borrow[r].pc) \in 0..5
  BY DEF PlaceRank
<1>6. StepRank(handler'[r].pc) = 1 /\ StepRank(handler[r].pc) \in {2, 4}
  BY <1>1, <1>3 DEF StepRank
<1>7. handler[r].calls \in Nat BY <1>2 DEF Handlers
<1>8. HandlerRank(handler'[r], borrow'[r]) < HandlerRank(handler[r], borrow[r])
  BY <1>1, <1>2, <1>3, <1>5, <1>6, <1>7 DEF HandlerRank
<1>9. QED BY <1>1, <1>8, HandlerRunsDown

\* What the steps of one request leave to the others.
LEMMA OthersStay ==
  ASSUME IInv, NEW r \in Requests,
         \/ Admit(r) \/ Run(r) \/ Watch(r)
         \/ ReadHeaders(r) \/ ReadBody(r) \/ Reply(r) \/ Disconnect(r)
         \/ ServeFails(r) \/ OpeningFails(r) \/ KeyIsTaken(r)
  PROVE  \A q \in Requests \ {r} :
           stage'[q] = stage[q] /\ watch'[q] = watch[q]
           /\ handler'[q] = handler[q] /\ borrow'[q] = borrow[q]
<1>1. (SlotSteps(r) \/ UNCHANGED slotVars) /\ (PoolSteps(r) \/ UNCHANGED poolVars)
  BY DEF Admit, Run, Serve, CutOff, Borrow, Execute, Return, CallFails, Watch, ReadHeaders,
         ReadBody, Reply, Disconnect, Leave, ServeFails, OpeningFails, KeyIsTaken, Raise,
         PoolSteps, SlotSteps
<1>2. \A q \in Requests \ {r} : borrow'[q] = borrow[q]
  <2>1. PoolInv /\ r \in Threads BY FiniteRequests DEF IInv
  <2>2. CASE PoolSteps(r) BY <2>1, <2>2, FiniteRequests, PoolOthers
  <2>3. QED BY <1>1, <2>2 DEF poolVars
<1>3. \A q \in Requests \ {r} : stage'[q] = stage[q] /\ watch'[q] = watch[q]
  <2>1. watch \in [Requests -> {"off", "armed", "firing", "fired"}]
        /\ stage \in [Requests -> Holding \cup {"away"}]
    BY DEF IInv, SlotsInv, SlotsTypeOK
  <2>2. CASE SlotSteps(r)
    BY <2>1, <2>2 DEF SlotSteps, Accept, StartThread, NoThread, StartWatchdog, WatchdogFails,
                      Close, SetFinished, ReleaseSlot, Expire, Shutdown, Go
  <2>3. QED BY <1>1, <2>2 DEF slotVars
<1>4. \A q \in Requests \ {r} : handler'[q] = handler[q]
  <2>1. handler' = handler \/ \E h : Move(r, h)
    BY DEF Admit, Run, Serve, CutOff, Borrow, Execute, Return, CallFails, Watch, ReadHeaders,
           ReadBody, Reply, Disconnect, Leave, ServeFails, OpeningFails, KeyIsTaken, Raise,
           KeepHandlers
  <2>2. QED BY <2>1 DEF Move, IInv, ServerInv
<1>5. QED BY <1>2, <1>3, <1>4

\* The steps that are left to a request are used up one by one: no step of its
\* thread, its handler, its calls or its watchdog ever gives it more of them, however
\* clients, connections, the write lock and timers behave, and no step of another
\* request touches them (bounded_http.py:125-221, app.py, db.py:53-101).
RunsDown ==
  [][\A r \in Requests : \/ Mine(r)' = Mine(r)
                         \/ Gone(r)
                         \/ Rank(r) \in Nat /\ Rank(r)' \in Nat /\ Rank(r)' < Rank(r)]_vars

LEMMA RankIsNumber == IInv => \A r \in Requests : Rank(r) \in Nat
BY RanksAreNumbers DEF Rank

LEMMA StepRunsDown ==
  ASSUME IInv, IInv', NEW r \in Requests,
         \/ Admit(r) \/ Run(r) \/ Watch(r)
         \/ ReadHeaders(r) \/ ReadBody(r) \/ Reply(r) \/ Disconnect(r)
         \/ ServeFails(r) \/ OpeningFails(r) \/ KeyIsTaken(r)
  PROVE  Gone(r) \/ Rank(r)' < Rank(r)
<1>1. CASE Admit(r) \/ Serve(r) \/ Watch(r) \/ ServeFails(r)
  <2>1. SlotSteps(r) /\ borrow' = borrow
    BY <1>1 DEF Admit, Serve, Watch, ServeFails, SlotSteps, poolVars
  <2>2. \/ handler' = handler /\ ~StartWatchdog(r) /\ ~Close(r)
        \/ StartWatchdog(r) /\ Move(r, [NoHandler EXCEPT !.pc = "headers"])
        \/ Close(r) /\ At(r, "end") /\ Move(r, NoHandler)
    <3>1. CASE Serve(r) /\ (StartWatchdog(r) \/ Close(r))
      <4>1. ~StartThread(r) /\ ~SetFinished(r) /\ ~ReleaseSlot(r) /\ ~(StartWatchdog(r) /\ Close(r))
        BY <3>1 DEF StartWatchdog, Close, StartThread, SetFinished, ReleaseSlot, Go
      <4>2. QED BY <3>1, <4>1 DEF Serve
    <3>2. CASE Serve(r) /\ ~StartWatchdog(r) /\ ~Close(r) BY <3>2 DEF Serve, KeepHandlers
    <3>3. CASE Admit(r) \/ Watch(r) \/ ServeFails(r)
      <4>1. handler' = handler BY <3>3 DEF Admit, Watch, ServeFails, KeepHandlers
      <4>2. stage \in [Requests -> Holding \cup {"away"}] /\ "serving" \in Holding
        BY DEF IInv, SlotsInv, SlotsTypeOK, Holding
      <4>3. ~StartWatchdog(r) /\ ~Close(r)
        BY <3>3, <4>2 DEF Admit, Watch, ServeFails, Accept, Expire, Shutdown, NoThread, WatchdogFails,
                    StartWatchdog, Close, Go
      <4>4. QED BY <4>1, <4>3
    <3>4. QED BY <1>1, <3>1, <3>2, <3>3
  <2>3. QED BY <2>1, <2>2, ServerRunsDown
<1>2. CASE ReadHeaders(r) \/ ReadBody(r) \/ Reply(r) \/ Disconnect(r) \/ CutOff(r)
  BY <1>2, ClientRunsDown
<1>3. CASE Borrow(r) \/ Execute(r) BY <1>3, CallRunsDown
<1>4. CASE Return(r) BY <1>4, ReturnRunsDown
<1>5. CASE CallFails(r) \/ OpeningFails(r) \/ KeyIsTaken(r) BY <1>5, RaiseRunsDown
<1>6. QED BY <1>1, <1>2, <1>3, <1>4, <1>5 DEF Run

\* Once a request has a thread, a number of its own steps that the constants bound
\* is all there can be before its slot is back: the safety half of SlotComesBack.
THEOREM RequestsRunDown == Spec => RunsDown
<1>1. IInv /\ IInv' /\ [Next]_vars
      => [\A r \in Requests : \/ Mine(r)' = Mine(r)
                              \/ Gone(r)
                              \/ Rank(r) \in Nat /\ Rank(r)' \in Nat /\ Rank(r)' < Rank(r)]_vars
  <2> SUFFICES ASSUME IInv, IInv', Next, NEW q \in Requests
               PROVE  \/ Mine(q)' = Mine(q)
                      \/ Gone(q)
                      \/ Rank(q) \in Nat /\ Rank(q)' \in Nat /\ Rank(q)' < Rank(q)
    OBVIOUS
  <2>1. Rank(q) \in Nat BY RankIsNumber
  <2>2. Rank(q)' \in Nat
    <3>1. (\A r \in Requests : Rank(r) \in Nat)' BY RankIsNumber, PTL
    <3>2. QED BY <3>1
  <2>3. PICK r \in Requests :
          \/ Admit(r) \/ Run(r) \/ Watch(r)
          \/ ReadHeaders(r) \/ ReadBody(r) \/ Reply(r) \/ Disconnect(r)
          \/ ServeFails(r) \/ OpeningFails(r) \/ KeyIsTaken(r)
    BY DEF Next
  <2>4. CASE q = r BY <2>1, <2>2, <2>3, <2>4, StepRunsDown
  <2>5. CASE q # r BY <2>3, <2>5, OthersStay DEF Mine
  <2>6. QED BY <2>4, <2>5
<1>2. QED BY Invariance, <1>1, PTL DEF Spec, RunsDown
=============================================================================
