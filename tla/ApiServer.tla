----------------------------- MODULE ApiServer -----------------------------
(***************************************************************************)
(* One API process under load: the request slots of RequestSlots.tla, the  *)
(* upload slots of app.py inside them, and the connections of              *)
(* ConnectionPool.tla that the handlers borrow for one call at a time.     *)
(*                                                                         *)
(* A handler reads the headers, takes an upload slot if the request is an  *)
(* upload, checks the token (a call), reads the body of an upload, makes   *)
(* its other calls, and replies.  Reading and replying wait for a client,  *)
(* who may go away at any moment or send one byte at a time for ever.      *)
(***************************************************************************)
EXTENDS RequestSlots, ConnectionPool

CONSTANTS
  MaxUploads,   \* MAX_INFLIGHT_UPLOADS
  MaxCalls,     \* bound: database calls of one request
  MaxFaults,    \* bound: threads, timers and connections that cannot be made
  MaxDuplicates \* bound: rejected uploads whose key is taken meanwhile

ASSUME ApiAssumption ==
  /\ Threads = Requests
  /\ MaxUploads \in Nat \ {0} /\ MaxUploads <= MaxActive
  /\ MaxCalls \in Nat \ {0, 1} /\ MaxFaults \in Nat /\ MaxDuplicates \in Nat

VARIABLES
  handler,  \* each handler's place, whether it has an upload slot, its calls so far
  uploads,  \* UPLOAD_SLOTS: what is left of them
  used      \* faults and duplicates so far

vars == <<slotVars, poolVars, handler, uploads, used>>

NoHandler == [pc |-> "none", upload |-> FALSE, calls |-> 0]

TypeOK ==
  /\ SlotsTypeOK /\ PoolTypeOK
  /\ handler \in [Requests -> [pc : {"none", "headers", "auth", "body", "work", "reply", "end"},
                               upload : BOOLEAN, calls : 0..MaxCalls]]
  /\ uploads \in 0..MaxUploads
  /\ used \in [faults : Nat, duplicates : Nat]

Init ==
  /\ SlotsInit /\ PoolInit
  /\ handler = [r \in Requests |-> NoHandler]
  /\ uploads = MaxUploads
  /\ used = [faults |-> 0, duplicates |-> 0]

At(r, pc)  == handler[r].pc = pc
Move(r, h) == handler' = [handler EXCEPT ![r] = h]
Fault      == used.faults < MaxFaults /\ used' = [used EXCEPT !.faults = @ + 1]

KeepHandlers == UNCHANGED <<handler, uploads, used>>

-----------------------------------------------------------------------------
(* The server around the handler.                                           *)

Admit(r) == Accept(r) /\ UNCHANGED poolVars /\ KeepHandlers

Serve(r) ==
  \/ (StartThread(r) \/ SetFinished(r) \/ ReleaseSlot(r)) /\ UNCHANGED poolVars /\ KeepHandlers
  \/ /\ StartWatchdog(r)
     /\ Move(r, [NoHandler EXCEPT !.pc = "headers"])
     /\ UNCHANGED <<poolVars, uploads, used>>
  \/ /\ At(r, "end") /\ Close(r)
     /\ Move(r, NoHandler)
     /\ UNCHANGED <<poolVars, uploads, used>>

ServeFails(r) ==
  (NoThread(r) \/ WatchdogFails(r)) /\ Fault /\ UNCHANGED <<poolVars, handler, uploads>>

Watch(r) == (Expire(r) \/ Shutdown(r)) /\ UNCHANGED poolVars /\ KeepHandlers

-----------------------------------------------------------------------------
(* The handler and its client.                                              *)

\* do_GET and do_POST: a request goes on to its token, an upload only with a slot;
\* an unknown path, a body too long or no slot (429) is answered at once.
ReadHeaders(r) ==
  /\ At(r, "headers")
  /\ \/ Move(r, [handler[r] EXCEPT !.pc = "auth"]) /\ UNCHANGED uploads
     \/ /\ uploads > 0 /\ uploads' = uploads - 1
        /\ Move(r, [handler[r] EXCEPT !.pc = "auth", !.upload = TRUE])
     \/ Move(r, [handler[r] EXCEPT !.pc = "reply"]) /\ UNCHANGED uploads
  /\ UNCHANGED <<slotVars, poolVars, used>>

ReadBody(r) ==
  /\ At(r, "body")
  /\ Move(r, [handler[r] EXCEPT !.pc = "work"])
  /\ UNCHANGED <<slotVars, poolVars, uploads, used>>

\* Mutant: the slot of an upload is kept when the handler is left.
LeaveKeepingSlot(r) ==
  /\ Move(r, [NoHandler EXCEPT !.pc = "end"])
  /\ UNCHANGED <<slotVars, poolVars, uploads, used>>

\* The handler is left, by its return or by an exception; the upload slot goes
\* back in a finally clause.
Leave(r) ==
  /\ Move(r, [NoHandler EXCEPT !.pc = "end"])
  /\ uploads' = IF handler[r].upload THEN uploads + 1 ELSE uploads
  /\ UNCHANGED <<slotVars, poolVars, used>>

Free(r) == borrow[r] = NoBorrow

Reply(r) == At(r, "reply") /\ Free(r) /\ Leave(r)

\* The client goes away, or sends nothing for the idle timeout.
Disconnect(r) == handler[r].pc \in {"headers", "body", "reply"} /\ Free(r) /\ Leave(r)

\* The watchdog has shut the socket under the handler.
CutOff(r) == watch[r] = "fired" /\ Disconnect(r)

-----------------------------------------------------------------------------
(* Database calls of a handler.                                             *)

Calling(r) == handler[r].pc \in {"auth", "work"}

\* A call starts; the token takes one, the work of a request up to MaxCalls.
Borrow(r) ==
  /\ Calling(r) /\ handler[r].calls < MaxCalls
  /\ Take(r) \/ FindEmpty(r) \/ Open(r) \/ StartWaiting(r)
  /\ UNCHANGED slotVars /\ KeepHandlers

Execute(r) ==
  /\ Calling(r) /\ (Read(r) \/ Write(r) \/ EndWrite(r))
  /\ UNCHANGED slotVars /\ KeepHandlers

\* The connection is back; the handler goes on with what the call was for.
Return(r) ==
  /\ Release(r)
  /\ \E next \in CASE At(r, "auth") -> IF handler[r].upload THEN {"body", "reply"} ELSE {"work", "reply"}
                   [] At(r, "work") -> {"work", "reply"}
                   [] OTHER         -> {"reply"} :
       LET n == handler[r].calls + 1 IN
       Move(r, [handler[r] EXCEPT !.pc = IF next = "work" /\ n = MaxCalls THEN "reply" ELSE next,
                                  !.calls = n])
  /\ UNCHANGED <<slotVars, uploads, used>>

\* The call raises: the handler answers 500 or ends, with its connection first
\* put back where it has one.
Raise(r) ==
  /\ Calling(r)
  /\ Move(r, [handler[r] EXCEPT !.pc = "reply"])
  /\ UNCHANGED <<slotVars, uploads>>

CallFails(r) == (WaitsTooLong(r) \/ Locked(r)) /\ Raise(r) /\ UNCHANGED used

OpeningFails(r) == OpenFails(r) /\ Raise(r) /\ Fault

KeyIsTaken(r) ==
  /\ handler[r].upload /\ DuplicateKey(r) /\ Raise(r)
  /\ used.duplicates < MaxDuplicates
  /\ used' = [used EXCEPT !.duplicates = @ + 1]

-----------------------------------------------------------------------------

\* What a thread does when nobody else has to act for it.
Run(r) == Serve(r) \/ CutOff(r) \/ Borrow(r) \/ Execute(r) \/ Return(r) \/ CallFails(r)

Next ==
  \E r \in Requests :
    \/ Admit(r) \/ Run(r) \/ Watch(r)
    \/ ReadHeaders(r) \/ ReadBody(r) \/ Reply(r) \/ Disconnect(r)
    \/ ServeFails(r) \/ OpeningFails(r) \/ KeyIsTaken(r)

Spec == Init /\ [][Next]_vars

\* Threads run, waiting for a connection or for the write lock ends by a timeout,
\* and timers go off.  No fairness for the clients.
FairSpec == Spec /\ \A r \in Requests : WF_vars(Run(r)) /\ WF_vars(Watch(r))

-----------------------------------------------------------------------------

\* Nothing outlives its request: one that is not being served has neither a
\* connection nor an upload slot, whichever way its handler was left, and the
\* upload slots are all accounted for (app.py:311, db.py:53-59).
NothingLeftBehind ==
  /\ \A r \in Requests : stage[r] # "serving" => Free(r) /\ ~handler[r].upload
  /\ uploads + Cardinality({r \in Requests : handler[r].upload}) = MaxUploads

\* The write lock is held by a call under way, or by a connection that an
\* exception put back with its transaction open: a call that returns, with a
\* commit or with a rollback, never leaves it behind, nor does one that continues
\* such a transaction (db.py:53-59, 330).
LockIsAttended ==
  writer # NoConnection => writer \in InUse \cup left

\* Every request that has a thread gives its slot back, whatever its client does
\* and however long connections and the write lock are awaited
\* (bounded_http.py:149-166).
SlotComesBack == \A r \in Requests : stage[r] = "serving" ~> stage[r] = "away"
=============================================================================
