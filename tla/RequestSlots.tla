---------------------------- MODULE RequestSlots ----------------------------
(***************************************************************************)
(* bounded_http.BoundedThreadingHTTPServer: a request takes a slot in the  *)
(* accept loop before it gets a thread, a watchdog outside the handler     *)
(* shuts its socket when it takes too long, and the thread gives the slot  *)
(* back when the handler is through.                                       *)
(***************************************************************************)
EXTENDS Naturals, FiniteSets

CONSTANTS
  Requests,   \* sockets of clients
  MaxActive   \* max_active_requests

ASSUME SlotsAssumption == MaxActive \in Nat \ {0} /\ IsFiniteSet(Requests)

VARIABLES
  slots,    \* _request_slots: what is left of them
  active,   \* _active_requests
  stage,    \* how far each request is
  watch,    \* its watchdog
  leaked    \* history: threads that ended and kept their slot

slotVars == <<slots, active, stage, watch, leaked>>

\* "accepted" has a slot and no thread; the thread is new ("started"), inside the
\* handler ("serving"), through with it ("closed"), and has set finished.
Holding  == {"accepted", "started", "serving", "closed", "finished"}
Threaded == Holding \ {"accepted"}

SlotsTypeOK ==
  /\ slots \in 0..MaxActive /\ active \in 0..MaxActive
  /\ stage \in [Requests -> Holding \cup {"away"}]
  /\ watch \in [Requests -> {"off", "armed", "firing", "fired"}]
  /\ leaked \in Nat

SlotsInit ==
  /\ slots = MaxActive /\ active = 0 /\ leaked = 0
  /\ stage = [r \in Requests |-> "away"]
  /\ watch = [r \in Requests |-> "off"]

Go(r, from, to) == stage[r] = from /\ stage' = [stage EXCEPT ![r] = to]

-----------------------------------------------------------------------------
(* The accept loop: process_request, one request at a time.                 *)

\* Without a slot the request is refused with 503 and leaves no trace.
Accept(r) ==
  /\ watch[r] = "off" /\ \A q \in Requests : stage[q] # "accepted"
  /\ slots > 0 /\ slots' = slots - 1
  /\ Go(r, "away", "accepted")
  /\ UNCHANGED <<active, watch, leaked>>

StartThread(r) ==
  /\ Go(r, "accepted", "started")
  /\ active' = active + 1
  /\ UNCHANGED <<slots, watch, leaked>>

\* Mutant: the place in the statistics is taken back, which was never taken.
NoThreadCounted(r) ==
  /\ Go(r, "accepted", "away")
  /\ slots' = slots + 1 /\ active' = active - 1
  /\ UNCHANGED <<watch, leaked>>

\* The socket is gone already, or no thread can be made: the slot goes back.
NoThread(r) ==
  /\ Go(r, "accepted", "away")
  /\ slots' = slots + 1
  /\ UNCHANGED <<active, watch, leaked>>

-----------------------------------------------------------------------------
(* process_request_thread                                                   *)

\* Mutant: the idle timeout of the socket has to do.
NoWatchdog(r) ==
  /\ Go(r, "started", "serving")
  /\ UNCHANGED <<slots, active, watch, leaked>>

StartWatchdog(r) ==
  /\ Go(r, "started", "serving")
  /\ watch' = [watch EXCEPT ![r] = "armed"]
  /\ UNCHANGED <<slots, active, leaked>>

\* No thread for the timer: the exception leaves before the try.
WatchdogFails(r) ==
  /\ Go(r, "started", "away")
  /\ leaked' = leaked + 1
  /\ UNCHANGED <<slots, active, watch>>

\* The handler returned or raised; its socket is closed.
Close(r) == Go(r, "serving", "closed") /\ UNCHANGED <<slots, active, watch, leaked>>

\* finished.set(), and cancel() for a watchdog that is not at work yet.
SetFinished(r) ==
  /\ Go(r, "closed", "finished")
  /\ watch' = [watch EXCEPT ![r] = IF @ = "firing" THEN @ ELSE "off"]
  /\ UNCHANGED <<slots, active, leaked>>

\* Mutant: a request that the watchdog cut off is taken for released.
ReleaseUncut(r) ==
  /\ Go(r, "finished", "away")
  /\ slots' = (IF watch[r] = "firing" THEN slots ELSE slots + 1) /\ active' = active - 1
  /\ UNCHANGED <<watch, leaked>>

ReleaseSlot(r) ==
  /\ Go(r, "finished", "away")
  /\ slots' = slots + 1 /\ active' = active - 1
  /\ UNCHANGED <<watch, leaked>>

-----------------------------------------------------------------------------
(* _expire_request: it looks whether the request is finished, and shuts the *)
(* socket afterwards.                                                       *)

Expire(r) ==
  /\ watch[r] = "armed" /\ stage[r] \in {"serving", "closed"}
  /\ watch' = [watch EXCEPT ![r] = "firing"]
  /\ UNCHANGED <<slots, active, stage, leaked>>

Shutdown(r) ==
  /\ watch[r] = "firing"
  /\ watch' = [watch EXCEPT ![r] = IF stage[r] \in {"serving", "closed"} THEN "fired" ELSE "off"]
  /\ UNCHANGED <<slots, active, stage, leaked>>

-----------------------------------------------------------------------------

\* Every slot is free, with a request, or with a thread that died before its
\* try; no path of the accept loop, the handler or the watchdog gives one back
\* twice, and the live threads never outnumber the slots (bounded_http.py:125-166).
SlotsConserved ==
  /\ slots + Cardinality({r \in Requests : stage[r] \in Holding}) + leaked = MaxActive
  /\ active = Cardinality({r \in Requests : stage[r] \in Threaded}) + leaked
=============================================================================
