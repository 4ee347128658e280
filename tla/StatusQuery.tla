---------------------------- MODULE StatusQuery ----------------------------
(***************************************************************************)
(* GET /api/status/<id> on several API instances (app.py, handle_status    *)
(* and read_task), with the token that admits it (auth_token.py) and the   *)
(* cache of each instance (cache.py), over the submission table of         *)
(* TaskLedger.tla, which workers and uploads change underneath.            *)
(*                                                                         *)
(* A query is four steps with the table moving in between: the token is    *)
(* checked against the account row, the cache is asked, the row is read,   *)
(* the cache is updated.  A login is two: the password is checked, and the *)
(* account row is read again to sign the token.                            *)
(* Times are left out: a cache entry may pass its soft and then its hard   *)
(* TTL at any moment, and a request whose token has expired is one that is *)
(* never authorised.                                                       *)
(***************************************************************************)
EXTENDS TaskLedger

CONSTANTS
  Instances,  \* API processes, each with a cache of its own
  Caching,    \* those with CACHE_ENABLED
  Queries,    \* status requests that may be under way at once
  NoTask, NoUser, NoInstance, \* of a request that is not under way
  MaxAdmin,   \* bound: disable, enable and revoke commands
  MaxGranted  \* bound: credit granted to an account

ASSUME InstanceAssumption ==
  /\ Caching \subseteq Instances /\ NoInstance \notin Instances
  /\ NoTask \notin Tasks /\ NoUser \notin Users
ASSUME LedgerAssumption ==
  /\ UserOf \in [Tasks -> Users] /\ Opening \in [Users -> Nat]
  /\ MaxRetry \in Nat \ {0} /\ Cost \in Nat
ASSUME QueryBoundAssumption == MaxAdmin \in Nat /\ MaxGranted \in Nat

VARIABLES
  account,  \* users.is_active and users.token_version
  login,    \* logins that passed the password check and have no token yet
  tokens,   \* tokens in circulation; at: the moment of signing
  cache,    \* TTLCache of each instance, by task
  query,    \* each request's place in handle_status, and (history) whether its
            \* task was settled when it was admitted: late
  cut,      \* history: when a user's tokens were last revoked
  clock     \* history: admin commands so far

queryVars == <<account, login, tokens, cache, query, cut, clock>>
vars == <<ledgerVars, queryVars>>

\* What the row of a task says; it stands for the whole payload.
Row(t)  == [status |-> status[t], retries |-> attempts[t]]
Rows    == [status : States, retries : 0..MaxRetry]
NoRow   == [status |-> "none", retries |-> 0]
NoEntry == [row |-> NoRow, soft |-> FALSE]
Waiting == [pc |-> "idle", task |-> NoTask, user |-> NoUser, at |-> NoInstance,
            signed |-> 0, had |-> FALSE, row |-> NoRow, late |-> FALSE]

TypeOK ==
  /\ LedgerTypeOK
  /\ account \in [Users -> [active : BOOLEAN, version : Nat]]
  /\ login \in [Users -> BOOLEAN]
  /\ tokens \in SUBSET [user : Users, version : Nat, at : Nat]
  /\ cache \in [Instances -> [Tasks -> [row : Rows \cup {NoRow}, soft : BOOLEAN]]]
  /\ query \in [Queries -> [pc : {"idle", "cache", "read", "store", "reply"},
                            task : Tasks \cup {NoTask}, user : Users \cup {NoUser},
                            at : Instances \cup {NoInstance}, signed : Nat,
                            had : BOOLEAN, row : Rows \cup {NoRow}, late : BOOLEAN]]
  /\ cut \in [Users -> Nat] /\ clock \in Nat

Init ==
  /\ LedgerInit
  /\ account = [u \in Users |-> [active |-> TRUE, version |-> 1]]
  /\ login = [u \in Users |-> FALSE]
  /\ tokens = {}
  /\ cache = [i \in Instances |-> [t \in Tasks |-> NoEntry]]
  /\ query = [q \in Queries |-> Waiting]
  /\ cut = [u \in Users |-> 0] /\ clock = 0

KeepAuth == UNCHANGED <<account, login, tokens, cut, clock>>

-----------------------------------------------------------------------------
(* The table moves on.                                                      *)

LedgerStep ==
  /\ LedgerNext
  /\ \A u \in Users : granted'[u] <= MaxGranted
  /\ KeepAuth /\ UNCHANGED <<cache, query>>

-----------------------------------------------------------------------------
(* Accounts and tokens.                                                     *)

CheckPassword(u) ==
  /\ account[u].active
  /\ login' = [login EXCEPT ![u] = TRUE]
  /\ UNCHANGED <<ledgerVars, account, tokens, cache, query, cut, clock>>

\* issue_token does not ask whether the account is still active.
IssueToken(u) ==
  /\ login[u]
  /\ login' = [login EXCEPT ![u] = FALSE]
  /\ tokens' = tokens \cup {[user |-> u, version |-> account[u].version, at |-> clock]}
  /\ UNCHANGED <<ledgerVars, account, cache, query, cut, clock>>

\* An admin command commits; revokes says whether it ends the user's tokens.
Admin(u, a, revokes) ==
  /\ clock < MaxAdmin /\ clock' = clock + 1
  /\ account' = [account EXCEPT ![u] = a]
  /\ cut' = IF revokes THEN [cut EXCEPT ![u] = clock'] ELSE cut
  /\ UNCHANGED <<ledgerVars, login, tokens, cache, query>>

\* Only the first of two disable commands raises the version.
Disable(u) ==
  Admin(u, [active |-> FALSE,
            version |-> account[u].version + (IF account[u].active THEN 1 ELSE 0)],
        account[u].active)

Enable(u) == Admin(u, [account[u] EXCEPT !.active = TRUE], FALSE)

RevokeTokens(u) == Admin(u, [account[u] EXCEPT !.version = @ + 1], TRUE)

\* Mutant: the version is not compared.
AcceptedIfActive(k) == account[k.user].active

\* verify_token, for a token that is well signed and has not expired.
Accepted(k) == account[k.user].active /\ account[k.user].version = k.version

-----------------------------------------------------------------------------
(* A status request.                                                        *)

Step(q, r) == query' = [query EXCEPT ![q] = r]

Authorise(q) ==
  /\ query[q].pc = "idle"
  /\ \E k \in tokens, t \in Tasks, i \in Instances :
       /\ Accepted(k)
       /\ Step(q, [Waiting EXCEPT !.pc = "cache", !.task = t, !.user = k.user,
                                  !.at = i, !.signed = k.at,
                                  !.late = (status[t] \in Settled)])
  /\ KeepAuth /\ UNCHANGED <<ledgerVars, cache>>

Entry(q) == cache[query[q].at][query[q].task]

\* Mutant: a miss is taken for an answer.
AskCacheOnly(q) ==
  /\ query[q].pc = "cache"
  /\ LET e == Entry(q) IN
       Step(q, IF ~e.soft
               THEN [query[q] EXCEPT !.pc = "reply", !.signed = 0, !.at = NoInstance, !.row = e.row]
               ELSE [query[q] EXCEPT !.pc = "read", !.signed = 0, !.had = (e # NoEntry)])
  /\ KeepAuth /\ UNCHANGED <<ledgerVars, cache>>

\* CACHE.get: a fresh entry is the answer; an instance without a cache finds
\* nothing in it.
AskCache(q) ==
  /\ query[q].pc = "cache"
  /\ LET e == Entry(q) IN
       Step(q, IF e # NoEntry /\ ~e.soft
               THEN [query[q] EXCEPT !.pc = "reply", !.signed = 0, !.at = NoInstance, !.row = e.row]
               ELSE [query[q] EXCEPT !.pc = "read", !.signed = 0, !.had = (e # NoEntry)])
  /\ KeepAuth /\ UNCHANGED <<ledgerVars, cache>>

ReadRow(q) ==
  /\ query[q].pc = "read"
  /\ Step(q, [query[q] EXCEPT !.row = Row(query[q].task), !.pc = "store"])
  /\ KeepAuth /\ UNCHANGED <<ledgerVars, cache>>

\* Mutant: a suspended submission is taken for a settled one.
StoredSuspended(q) ==
  IF query[q].had \/ query[q].row.status \in Settled \cup {"arrears"}
  THEN [row |-> query[q].row, soft |-> FALSE] ELSE NoEntry

\* What the entry becomes: an entry that was there is always replaced, a new one
\* is made for a terminal row only, and anything else is invalidated.
Stored(q) ==
  IF query[q].had \/ query[q].row.status \in Settled
  THEN [row |-> query[q].row, soft |-> FALSE] ELSE NoEntry

Store(q) ==
  /\ query[q].pc = "store"
  /\ cache' = IF query[q].at \in Caching
              THEN [cache EXCEPT ![query[q].at][query[q].task] = Stored(q)] ELSE cache
  /\ Step(q, [query[q] EXCEPT !.pc = "reply", !.had = FALSE, !.at = NoInstance])
  /\ KeepAuth /\ UNCHANGED ledgerVars

\* 200 to the owner of the submission, 403 to anybody else.
Reply(q) ==
  /\ query[q].pc = "reply"
  /\ Step(q, Waiting)
  /\ KeepAuth /\ UNCHANGED <<ledgerVars, cache>>

-----------------------------------------------------------------------------

Age ==
  /\ \E i \in Instances, t \in Tasks :
       /\ cache[i][t] # NoEntry
       /\ cache' = [cache EXCEPT ![i][t] = IF @.soft THEN NoEntry ELSE [@ EXCEPT !.soft = TRUE]]
  /\ KeepAuth /\ UNCHANGED <<ledgerVars, query>>

Restart(i) ==
  /\ cache' = [cache EXCEPT ![i] = [t \in Tasks |-> NoEntry]]
  /\ query' = [q \in Queries |-> IF query[q].at = i THEN Waiting ELSE query[q]]
  /\ KeepAuth /\ UNCHANGED ledgerVars

Next ==
  \/ LedgerStep
  \/ \E u \in Users : CheckPassword(u) \/ IssueToken(u) \/ Disable(u) \/ Enable(u) \/ RevokeTokens(u)
  \/ \E q \in Queries : Authorise(q) \/ AskCache(q) \/ ReadRow(q) \/ Store(q) \/ Reply(q)
  \/ Age
  \/ \E i \in Instances : Restart(i)

Spec == Init /\ [][Next]_vars

-----------------------------------------------------------------------------

\* A cached row is final and equals the row in the table, on every instance and
\* at every age, although entries are written from rows read earlier while the
\* table moved (app.py:84-104).
CacheIsFinal ==
  \A i \in Instances, t \in Tasks :
    cache[i][t] # NoEntry => cache[i][t].row = Row(t) /\ status[t] \in Settled

\* A request that is admitted when its task is settled is answered with the final
\* row: no instance answers with what it saw before (app.py:70).
FinalIsSeen ==
  \A q \in Queries : query[q].pc = "reply" /\ query[q].late => query[q].row = Row(query[q].task)

\* A request is never admitted with a token that was signed before its user's
\* tokens were revoked or the active account was disabled, also not after the
\* account has been enabled again (auth_token.py:48-55, db.py:227).
RevokedIsOut ==
  [][\A q \in Queries : query[q].pc = "idle" /\ query'[q].pc # "idle" =>
       LET u == query'[q].user IN account[u].active /\ query'[q].signed >= cut[u]]_vars
=============================================================================
