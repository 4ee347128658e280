------------------------- MODULE StatusQuery_proofs -------------------------
(***************************************************************************)
(* Safety of StatusQuery.tla for every set of submissions, accounts,       *)
(* instances and requests, and any number of admin commands.               *)
(***************************************************************************)
EXTENDS StatusQuery, TLAPS

-----------------------------------------------------------------------------
(* The table.                                                               *)

LedgerInv == LedgerTypeOK /\ DeadLetterIffExhausted

\* A settled row is never touched again.
SettledStays ==
  \A t \in Tasks : status[t] \in Settled =>
    status'[t] = status[t] /\ attempts'[t] = attempts[t]

LEMMA MoveFacts ==
  ASSUME LedgerInv, NEW t \in Tasks, NEW from, NEW to \in States, Move(t, from, to)
  PROVE  /\ status' \in [Tasks -> States] /\ status[t] = from /\ status'[t] = to
         /\ \A s \in Tasks \ {t} : status'[s] = status[s]
BY DEF LedgerInv, LedgerTypeOK, Move

LEMMA MoveKeeps ==
  ASSUME LedgerInv, NEW t \in Tasks, NEW from \in States \ Settled, NEW to \in States \ {"dlq"},
         Move(t, from, to), UNCHANGED attempts,
         credit' \in [Users -> Nat], granted' \in [Users -> Nat], external' \in SUBSET Tasks
  PROVE  LedgerInv' /\ SettledStays
<1>1. /\ status' \in [Tasks -> States] /\ status[t] = from /\ status'[t] = to
      /\ \A s \in Tasks \ {t} : status'[s] = status[s]
  BY MoveFacts
<1>2. from # "dlq" BY DEF Settled
<1>3. LedgerTypeOK' BY <1>1 DEF LedgerInv, LedgerTypeOK
<1>4. DeadLetterIffExhausted' BY <1>1, <1>2 DEF LedgerInv, DeadLetterIffExhausted
<1>5. SettledStays BY <1>1 DEF SettledStays
<1>6. QED BY <1>3, <1>4, <1>5 DEF LedgerInv

LEMMA FailKeeps ==
  ASSUME LedgerInv, NEW t \in Tasks, Fail(t)
  PROVE  LedgerInv' /\ SettledStays
<1>1. /\ attempts' = [attempts EXCEPT ![t] = attempts[t] + 1] /\ attempts[t] \in 0..MaxRetry
      /\ attempts'[t] = attempts[t] + 1 /\ \A s \in Tasks \ {t} : attempts'[s] = attempts[s]
  BY DEF Fail, LedgerInv, LedgerTypeOK
<1>2. PICK to \in {"dlq", "pending"} :
         to = IF attempts'[t] >= MaxRetry THEN "dlq" ELSE "pending"
  OBVIOUS
<1>3. status[t] = "processing" /\ status' = [status EXCEPT ![t] = to]
  BY <1>2 DEF Fail, Move
<1>4. to \in States BY DEF States, Settled
<1>5. /\ status' \in [Tasks -> States] /\ status'[t] = to
      /\ \A s \in Tasks \ {t} : status'[s] = status[s]
  BY <1>3, <1>4 DEF LedgerInv, LedgerTypeOK
<1>6. attempts[t] # MaxRetry BY <1>3 DEF LedgerInv, DeadLetterIffExhausted
<1>7. attempts'[t] \in 0..MaxRetry /\ (to = "dlq" <=> attempts'[t] = MaxRetry)
  BY <1>1, <1>2, <1>6, LedgerAssumption
<1>8. attempts' \in [Tasks -> 0..MaxRetry] BY <1>1, <1>7 DEF LedgerInv, LedgerTypeOK
<1>9. LedgerTypeOK' BY <1>5, <1>8 DEF LedgerInv, LedgerTypeOK, Fail, KeepAccounts
<1>10. DeadLetterIffExhausted' BY <1>1, <1>5, <1>7 DEF LedgerInv, DeadLetterIffExhausted
<1>11. SettledStays BY <1>1, <1>3, <1>5 DEF SettledStays, Settled
<1>12. QED BY <1>9, <1>10, <1>11 DEF LedgerInv

LEMMA LedgerKeeps ==
  ASSUME LedgerInv, LedgerNext
  PROVE  LedgerInv' /\ SettledStays
<1>0. /\ "uploading" \in States \ Settled /\ "pending" \in States \ Settled
      /\ "processing" \in States \ Settled /\ "arrears" \in States \ Settled
      /\ {"pending", "processing", "arrears", "done"} \subseteq States \ {"dlq"}
  BY DEF States, Settled
<1>1. ASSUME NEW t \in Tasks,
             Accept(t) \/ Take(t) \/ PutBack(t) \/ Suspend(t) \/ Requeue(t)
      PROVE  LedgerInv' /\ SettledStays
  <2>1. UNCHANGED <<attempts, credit, granted, external>>
    BY <1>1 DEF Accept, Take, PutBack, Suspend, Requeue, KeepAccounts
  <2>2. \E from \in States \ Settled, to \in States \ {"dlq"} : Move(t, from, to)
    BY <1>0, <1>1 DEF Accept, Take, PutBack, Suspend, Requeue
  <2>3. QED BY <2>1, <2>2, MoveKeeps DEF LedgerInv, LedgerTypeOK
<1>2. ASSUME NEW t \in Tasks, Complete(t) PROVE LedgerInv' /\ SettledStays
  <2>1. Move(t, "processing", "done") /\ UNCHANGED <<attempts, granted>>
    BY <1>2 DEF Complete
  <2>2. credit' \in [Users -> Nat] /\ external' \in SUBSET Tasks
    <3>1. UserOf[t] \in Users /\ Cost \in Nat /\ credit[UserOf[t]] \in Nat
      BY LedgerAssumption DEF LedgerInv, LedgerTypeOK
    <3>2. QED BY <1>2, <3>1 DEF Complete, LedgerInv, LedgerTypeOK
  <2>3. QED BY <1>0, <2>1, <2>2, MoveKeeps DEF LedgerInv, LedgerTypeOK
<1>3. ASSUME NEW u \in Users, Grant(u) PROVE LedgerInv' /\ SettledStays
  <2>1. credit' \in [Users -> Nat] /\ granted' \in [Users -> Nat]
    BY <1>3, LedgerAssumption DEF Grant, LedgerInv, LedgerTypeOK
  <2>2. QED BY <1>3, <2>1
    DEF Grant, LedgerInv, LedgerTypeOK, DeadLetterIffExhausted, SettledStays
<1>4. QED BY <1>1, <1>2, <1>3, FailKeeps DEF LedgerNext

LEMMA LedgerStill ==
  ASSUME LedgerInv, UNCHANGED ledgerVars
  PROVE  LedgerInv' /\ SettledStays
BY DEF LedgerInv, LedgerTypeOK, DeadLetterIffExhausted, SettledStays, ledgerVars

-----------------------------------------------------------------------------
(* Requests and caches.                                                     *)

Requests == [pc : {"idle", "cache", "read", "store", "reply"},
             task : Tasks \cup {NoTask}, user : Users \cup {NoUser},
             at : Instances \cup {NoInstance}, signed : Nat,
             had : BOOLEAN, row : Rows \cup {NoRow}, late : BOOLEAN]
Entries == [row : Rows \cup {NoRow}, soft : BOOLEAN]

\* What a request holds is final where it counts: an entry that it found, a
\* settled row that it read, and whatever it read of a task that was settled when
\* it was admitted.
Sound(r) ==
  /\ r.pc # "idle" => r.task \in Tasks
  /\ r.pc \in {"cache", "read", "store"} => r.at \in Instances
  /\ r.pc # "idle" /\ (r.late \/ r.had) => status[r.task] \in Settled
  /\ r.pc = "store" /\ (r.had \/ r.late \/ r.row.status \in Settled)
       => r.row = Row(r.task) /\ status[r.task] \in Settled
  /\ r.pc = "reply" /\ r.late => r.row = Row(r.task)

Final(e, t) == e # NoEntry => e.row = Row(t) /\ status[t] \in Settled

QueryTyped ==
  /\ cache \in [Instances -> [Tasks -> Entries]]
  /\ query \in [Queries -> Requests]

QueryInv ==
  /\ QueryTyped
  /\ \A i \in Instances, t \in Tasks : Final(cache[i][t], t)
  /\ \A q \in Queries : Sound(query[q])

LEMMA SoundStays ==
  ASSUME SettledStays, NEW r, Sound(r)
  PROVE  Sound(r)'
BY DEF SettledStays, Sound, Row

LEMMA FinalStays ==
  ASSUME SettledStays, NEW e, NEW t \in Tasks, Final(e, t)
  PROVE  Final(e, t)'
BY DEF SettledStays, Final, Row

LEMMA WaitingSound == Waiting \in Requests /\ Sound(Waiting) /\ Sound(Waiting)'
BY DEF Waiting, Requests, Sound, Row

\* One request moves on, the table and the caches stay.
LEMMA RequestKeeps ==
  ASSUME QueryInv, NEW q \in Queries, NEW r \in Requests, Step(q, r), Sound(r),
         UNCHANGED <<status, attempts, cache>>
  PROVE  QueryInv'
<1>1. query' \in [Queries -> Requests] /\ \A p \in Queries : query'[p] = IF p = q THEN r ELSE query[p]
  BY DEF Step, QueryInv, QueryTyped
<1>2. \A p \in Queries : Sound(query'[p]) BY <1>1 DEF QueryInv
<1>3. SettledStays BY DEF SettledStays
<1>4. \A p \in Queries : Sound(query[p])'
  <2>1. ASSUME NEW p \in Queries PROVE Sound(query[p])'
    <3>1. CASE p = q
      <4>1. Sound(r)' BY <1>3, SoundStays
      <4>2. QED BY <1>1, <3>1, <4>1 DEF Sound, Row
    <3>2. CASE p # q
      <4>1. query'[p] = query[p] /\ Sound(query[p]) BY <1>1, <3>2 DEF QueryInv
      <4>2. QED BY <4>1 DEF Sound, Row
    <3>3. QED BY <3>1, <3>2
  <2>2. QED BY <2>1
<1>5. QED BY <1>1, <1>4 DEF QueryInv, QueryTyped, Final, Row

LEMMA TableKeeps ==
  ASSUME QueryInv, SettledStays, UNCHANGED <<cache, query>>
  PROVE  QueryInv'
<1>1. ASSUME NEW q \in Queries PROVE Sound(query[q])'
  <2>1. PICK r : r = query[q] OBVIOUS
  <2>2. Sound(r)' BY <2>1, SoundStays DEF QueryInv
  <2>3. QED BY <2>1, <2>2 DEF Sound, Row
<1>2. ASSUME NEW i \in Instances, NEW t \in Tasks PROVE Final(cache[i][t], t)'
  <2>1. PICK e : e = cache[i][t] OBVIOUS
  <2>2. Final(e, t)' BY <2>1, FinalStays DEF QueryInv
  <2>3. QED BY <2>1, <2>2 DEF Final, Row
<1>3. QED BY <1>1, <1>2 DEF QueryInv, QueryTyped

LEMMA RowTyped ==
  ASSUME LedgerInv, NEW t \in Tasks
  PROVE  Row(t) \in Rows /\ Row(t).status = status[t]
BY DEF LedgerInv, LedgerTypeOK, Row, Rows

-----------------------------------------------------------------------------
(* The steps of a request.                                                  *)

AuthTyped ==
  /\ account \in [Users -> [active : BOOLEAN, version : Nat]]
  /\ login \in [Users -> BOOLEAN]
  /\ tokens \in SUBSET [user : Users, version : Nat, at : Nat]
  /\ cut \in [Users -> Nat] /\ clock \in Nat

LEMMA AuthoriseKeeps ==
  ASSUME AuthTyped, QueryInv, NEW q \in Queries, Authorise(q)
  PROVE  QueryInv'
<1>1. PICK k \in tokens, t \in Tasks, i \in Instances :
         Step(q, [Waiting EXCEPT !.pc = "cache", !.task = t, !.user = k.user, !.at = i,
                                 !.signed = k.at, !.late = (status[t] \in Settled)])
  BY DEF Authorise
<1>2. k.user \in Users /\ k.at \in Nat BY DEF AuthTyped
<1>3. PICK late \in BOOLEAN : late = (status[t] \in Settled)
  <2>1. (status[t] \in Settled) \in BOOLEAN OBVIOUS
  <2>2. QED BY <2>1, Zenon
<1> DEFINE r == [Waiting EXCEPT !.pc = "cache", !.task = t, !.user = k.user, !.at = i,
                                !.signed = k.at, !.late = late]
<1>4. r \in Requests BY <1>2, WaitingSound, Zenon DEF Requests
<1>5. r.pc = "cache" /\ r.task = t /\ r.at = i /\ r.late = late /\ ~r.had
  BY DEF Waiting
<1>6. Step(q, r) BY <1>1, <1>3
<1> HIDE DEF r
<1>7. Sound(r) BY <1>3, <1>5 DEF Sound
<1>8. QED BY <1>4, <1>6, <1>7, RequestKeeps DEF Authorise, ledgerVars

LEMMA AskKeeps ==
  ASSUME QueryInv, NEW q \in Queries, AskCache(q)
  PROVE  QueryInv'
<1>1. query[q] \in Requests /\ Sound(query[q]) /\ query[q].pc = "cache"
  BY DEF QueryInv, QueryTyped, AskCache
<1>2. PICK t \in Tasks, i \in Instances : t = query[q].task /\ i = query[q].at
  BY <1>1 DEF Sound
<1>3. PICK e \in Entries : e = Entry(q) /\ Final(e, t)
  BY <1>2 DEF Entry, QueryInv, QueryTyped
<1>4. UNCHANGED <<status, attempts, cache>> BY DEF AskCache, ledgerVars
<1>5. CASE e # NoEntry /\ ~e.soft
  <2> DEFINE r == [query[q] EXCEPT !.pc = "reply", !.signed = 0, !.at = NoInstance, !.row = e.row]
  <2>1. e.row \in Rows \cup {NoRow} BY DEF Entries
  <2>2. r \in Requests BY <1>1, <2>1, Zenon DEF Requests
  <2>3. r.pc = "reply" /\ r.task = t /\ r.row = e.row /\ r.late = query[q].late /\ r.had = query[q].had
    BY <1>1, <1>2 DEF Requests
  <2>4. Step(q, r) BY <1>3, <1>5 DEF AskCache
  <2> HIDE DEF r
  <2>5. Sound(r) BY <1>1, <1>2, <1>3, <1>5, <2>3 DEF Sound, Final
  <2>6. QED BY <1>4, <2>2, <2>4, <2>5, RequestKeeps
<1>6. CASE ~(e # NoEntry /\ ~e.soft)
  <2>1. PICK had \in BOOLEAN : had = (e # NoEntry) OBVIOUS
  <2> DEFINE r == [query[q] EXCEPT !.pc = "read", !.signed = 0, !.had = had]
  <2>2. r \in Requests BY <1>1, Zenon DEF Requests
  <2>3. r.pc = "read" /\ r.task = t /\ r.at = i /\ r.late = query[q].late /\ r.had = had
    BY <1>1, <1>2 DEF Requests
  <2>4. Step(q, r) BY <1>3, <1>6, <2>1 DEF AskCache
  <2> HIDE DEF r
  <2>5. Sound(r) BY <1>1, <1>2, <1>3, <2>1, <2>3 DEF Sound, Final
  <2>6. QED BY <1>4, <2>2, <2>4, <2>5, RequestKeeps
<1>7. QED BY <1>5, <1>6

LEMMA ReadKeeps ==
  ASSUME LedgerInv, QueryInv, NEW q \in Queries, ReadRow(q)
  PROVE  QueryInv'
<1>1. query[q] \in Requests /\ Sound(query[q]) /\ query[q].pc = "read"
  BY DEF QueryInv, QueryTyped, ReadRow
<1>2. PICK t \in Tasks, row \in Rows : t = query[q].task /\ row = Row(t) /\ row.status = status[t]
  BY <1>1, RowTyped DEF Sound
<1> DEFINE r == [query[q] EXCEPT !.row = row, !.pc = "store"]
<1>3. r \in Requests
  <2>1. row \in Rows \cup {NoRow} OBVIOUS
  <2>2. QED BY <1>1, <2>1, Zenon DEF Requests
<1>4. r.pc = "store" /\ r.task = t /\ r.at = query[q].at /\ r.row = row
      /\ r.late = query[q].late /\ r.had = query[q].had
  BY <1>1, <1>2 DEF Requests
<1>5. Step(q, r) BY <1>2 DEF ReadRow
<1> HIDE DEF r
<1>6. Sound(r) BY <1>1, <1>2, <1>4 DEF Sound
<1>7. QED BY <1>3, <1>5, <1>6, RequestKeeps DEF ReadRow, ledgerVars

LEMMA StoreKeeps ==
  ASSUME QueryInv, NEW q \in Queries, Store(q)
  PROVE  QueryInv'
<1>1. query[q] \in Requests /\ Sound(query[q]) /\ query[q].pc = "store"
  BY DEF QueryInv, QueryTyped, Store
<1>2. PICK t \in Tasks, i \in Instances : t = query[q].task /\ i = query[q].at
  BY <1>1 DEF Sound
<1>3. UNCHANGED <<status, attempts>> BY DEF Store, ledgerVars
<1> DEFINE r == [query[q] EXCEPT !.pc = "reply", !.had = FALSE, !.at = NoInstance]
<1>4. r \in Requests BY <1>1, Zenon DEF Requests
<1>5. r.pc = "reply" /\ r.task = t /\ r.row = query[q].row /\ r.late = query[q].late /\ ~r.had
  BY <1>1, <1>2 DEF Requests
<1>6. Step(q, r) BY DEF Store
<1> HIDE DEF r
<1>7. Sound(r) BY <1>1, <1>2, <1>5 DEF Sound
<1>8. Stored(q) \in Entries /\ Final(Stored(q), t)
  <2>1. query[q].row \in Rows \cup {NoRow} BY <1>1 DEF Requests
  <2>2. NoEntry \in Entries BY DEF NoEntry, Entries
  <2>3. QED BY <1>1, <1>2, <2>1, <2>2 DEF Stored, Sound, Final, Entries
<1>9. /\ cache' \in [Instances -> [Tasks -> Entries]]
      /\ \A j \in Instances, s \in Tasks :
           cache'[j][s] = cache[j][s] \/ (s = t /\ cache'[j][s] = Stored(q))
  BY <1>2, <1>8 DEF Store, QueryInv, QueryTyped
<1>10. \A j \in Instances, s \in Tasks : Final(cache'[j][s], s) BY <1>8, <1>9 DEF QueryInv
<1>11. query' \in [Queries -> Requests] /\ \A p \in Queries : Sound(query'[p])
  BY <1>4, <1>6, <1>7 DEF Step, QueryInv, QueryTyped
<1>12. QED BY <1>3, <1>9, <1>10, <1>11 DEF QueryInv, QueryTyped, Final, Sound, Row

LEMMA RestKeeps ==
  ASSUME QueryInv,
         (\E q \in Queries : Reply(q)) \/ Age \/ (\E i \in Instances : Restart(i))
  PROVE  QueryInv'
<1>1. CASE \E q \in Queries : Reply(q)
  BY <1>1, WaitingSound, RequestKeeps DEF Reply, ledgerVars
<1>2. CASE Age
  <2>1. UNCHANGED <<status, attempts, query>> BY <1>2 DEF Age, ledgerVars
  <2>2. PICK i \in Instances, t \in Tasks :
           /\ cache[i][t] # NoEntry
           /\ cache' = [cache EXCEPT ![i][t] = IF @.soft THEN NoEntry ELSE [@ EXCEPT !.soft = TRUE]]
    BY <1>2 DEF Age
  <2>3. cache[i][t] \in Entries BY DEF QueryInv, QueryTyped
  <2> DEFINE e == IF cache[i][t].soft THEN NoEntry ELSE [cache[i][t] EXCEPT !.soft = TRUE]
  <2>4. e \in Entries /\ (e = NoEntry \/ e.row = cache[i][t].row)
    BY <2>3 DEF NoEntry, Entries
  <2>5. cache' = [cache EXCEPT ![i][t] = e] BY <2>2
  <2> HIDE DEF e
  <2>6. /\ cache' \in [Instances -> [Tasks -> Entries]]
        /\ \A j \in Instances, s \in Tasks :
             cache'[j][s] = IF j = i /\ s = t THEN e ELSE cache[j][s]
    BY <2>4, <2>5 DEF QueryInv, QueryTyped
  <2>7. \A j \in Instances, s \in Tasks : Final(cache'[j][s], s)
    BY <2>2, <2>4, <2>6 DEF QueryInv, Final
  <2>8. QED BY <2>1, <2>6, <2>7 DEF QueryInv, QueryTyped, Final, Sound, Row
<1>3. CASE \E i \in Instances : Restart(i)
  <2>1. PICK i \in Instances : Restart(i) BY <1>3
  <2>2. UNCHANGED <<status, attempts>> BY <2>1 DEF Restart, ledgerVars
  <2>3. NoEntry \in Entries BY DEF NoEntry, Entries
  <2>4. /\ cache' \in [Instances -> [Tasks -> Entries]]
        /\ \A j \in Instances, s \in Tasks : cache'[j][s] \in {NoEntry, cache[j][s]}
    BY <2>1, <2>3 DEF Restart, QueryInv, QueryTyped
  <2>5. query' \in [Queries -> Requests] /\ \A q \in Queries : query'[q] \in {Waiting, query[q]}
    BY <2>1, WaitingSound DEF Restart, QueryInv, QueryTyped
  <2>6. \A j \in Instances, s \in Tasks : Final(cache'[j][s], s) BY <2>4 DEF QueryInv, Final
  <2>7. \A q \in Queries : Sound(query'[q]) BY <2>5, WaitingSound DEF QueryInv
  <2>8. QED BY <2>2, <2>4, <2>5, <2>6, <2>7 DEF QueryInv, QueryTyped, Final, Sound, Row
<1>4. QED BY <1>1, <1>2, <1>3
-----------------------------------------------------------------------------
(* Accounts and tokens.                                                     *)

\* A version is raised by every command that revokes, so a token of the current
\* version was signed after the last of them.
TokensInv ==
  /\ AuthTyped
  /\ \A u \in Users : cut[u] <= clock
  /\ \A k \in tokens :
       /\ k.version <= account[k.user].version /\ k.at <= clock
       /\ k.version = account[k.user].version => k.at >= cut[k.user]

\* A command either leaves the user's version alone or raises it and revokes.
LEMMA AdminKeeps ==
  ASSUME TokensInv, NEW u \in Users, NEW a \in [active : BOOLEAN, version : Nat],
         NEW revokes \in BOOLEAN, Admin(u, a, revokes),
         a.version = account[u].version + (IF revokes THEN 1 ELSE 0)
  PROVE  TokensInv'
<1>1. /\ clock \in Nat /\ clock' = clock + 1 /\ tokens' = tokens /\ login' = login
      /\ tokens \in SUBSET [user : Users, version : Nat, at : Nat]
  BY DEF Admin, TokensInv, AuthTyped
<1>2. /\ account' \in [Users -> [active : BOOLEAN, version : Nat]]
      /\ account'[u] = a /\ \A v \in Users \ {u} : account'[v] = account[v]
  BY DEF Admin, TokensInv, AuthTyped
<1>3. /\ cut' \in [Users -> Nat] /\ cut'[u] = (IF revokes THEN clock' ELSE cut[u])
      /\ \A v \in Users \ {u} : cut'[v] = cut[v]
  BY <1>1 DEF Admin, TokensInv, AuthTyped
<1>4. AuthTyped' BY <1>1, <1>2, <1>3 DEF TokensInv, AuthTyped
<1>5. \A v \in Users : cut'[v] <= clock' /\ cut[v] \in Nat /\ cut[v] <= clock
  BY <1>1, <1>3 DEF TokensInv, AuthTyped
<1>6. ASSUME NEW k \in tokens
      PROVE  /\ k.version <= account'[k.user].version /\ k.at <= clock'
             /\ k.version = account'[k.user].version => k.at >= cut'[k.user]
  <2>1. k.user \in Users /\ k.version \in Nat /\ k.at \in Nat BY <1>1
  <2>2. account[k.user].version \in Nat BY <2>1 DEF TokensInv, AuthTyped
  <2>3. /\ k.version <= account[k.user].version /\ k.at <= clock
        /\ k.version = account[k.user].version => k.at >= cut[k.user]
    BY DEF TokensInv
  <2>4. CASE k.user # u BY <1>1, <1>2, <1>3, <2>1, <2>3, <2>4
  <2>5. CASE k.user = u
    <3>1. account'[u].version = account[u].version + (IF revokes THEN 1 ELSE 0) BY <1>2
    <3>2. CASE revokes BY <1>1, <2>1, <2>2, <2>3, <2>5, <3>1, <3>2
    <3>3. CASE ~revokes BY <1>1, <1>3, <2>1, <2>2, <2>3, <2>5, <3>1, <3>3
    <3>4. QED BY <3>2, <3>3
  <2>6. QED BY <2>4, <2>5
<1>7. QED BY <1>1, <1>4, <1>5, <1>6 DEF TokensInv

LEMMA AccountsKeep ==
  ASSUME TokensInv, NEW u \in Users,
         CheckPassword(u) \/ IssueToken(u) \/ Disable(u) \/ Enable(u) \/ RevokeTokens(u)
  PROVE  TokensInv'
<1>1. account[u] \in [active : BOOLEAN, version : Nat] /\ clock \in Nat /\ cut[u] <= clock
  BY DEF TokensInv, AuthTyped
<1>2. CASE CheckPassword(u) BY <1>2 DEF CheckPassword, TokensInv, AuthTyped
<1>3. CASE IssueToken(u)
  <2> DEFINE k == [user |-> u, version |-> account[u].version, at |-> clock]
  <2>1. UNCHANGED <<account, cut, clock>> /\ tokens' = tokens \cup {k}
        /\ login' \in [Users -> BOOLEAN]
    BY <1>3 DEF IssueToken, TokensInv, AuthTyped
  <2>2. k \in [user : Users, version : Nat, at : Nat] BY <1>1
  <2>3. k.user = u /\ k.version = account[u].version /\ k.at = clock OBVIOUS
  <2> HIDE DEF k
  <2>4. k.version <= account[k.user].version /\ k.at <= clock /\ k.at >= cut[k.user]
    <3>1. cut[u] \in Nat BY DEF TokensInv, AuthTyped
    <3>2. QED BY <1>1, <2>3, <3>1
  <2>5. QED BY <2>1, <2>2, <2>4 DEF TokensInv, AuthTyped
<1>4. CASE Disable(u)
  <2>1. PICK revokes \in BOOLEAN : revokes = account[u].active BY <1>1
  <2> DEFINE a == [active |-> FALSE, version |-> account[u].version + (IF revokes THEN 1 ELSE 0)]
  <2>2. a \in [active : BOOLEAN, version : Nat] BY <1>1
  <2>3. Admin(u, a, revokes) BY <1>4, <2>1 DEF Disable
  <2>4. QED BY <2>2, <2>3, AdminKeeps
<1>5. CASE Enable(u)
  <2> DEFINE a == [account[u] EXCEPT !.active = TRUE]
  <2>1. a \in [active : BOOLEAN, version : Nat] /\ a.version = account[u].version BY <1>1
  <2>2. Admin(u, a, FALSE) BY <1>5 DEF Enable
  <2>3. a.version = account[u].version + (IF FALSE THEN 1 ELSE 0) BY <1>1, <2>1
  <2> HIDE DEF a
  <2>4. QED BY <2>1, <2>2, <2>3, AdminKeeps
<1>6. CASE RevokeTokens(u)
  <2> DEFINE a == [account[u] EXCEPT !.version = @ + 1]
  <2>1. a \in [active : BOOLEAN, version : Nat] /\ a.version = account[u].version + 1 BY <1>1
  <2>2. Admin(u, a, TRUE) BY <1>6 DEF RevokeTokens
  <2> HIDE DEF a
  <2>3. a.version = account[u].version + (IF TRUE THEN 1 ELSE 0) BY <2>1
  <2>4. QED BY <2>1, <2>2, <2>3, AdminKeeps
<1>7. QED BY <1>2, <1>3, <1>4, <1>5, <1>6

-----------------------------------------------------------------------------
(* The whole state.                                                         *)

IInv == LedgerInv /\ QueryInv /\ TokensInv

LEMMA InitIInv == Init => IInv
<1> SUFFICES ASSUME Init PROVE IInv OBVIOUS
<1>1. LedgerInv
  BY LedgerAssumption
  DEF Init, LedgerInit, LedgerInv, LedgerTypeOK, DeadLetterIffExhausted, States, Settled
<1>2. QueryTyped
  <2>1. NoEntry \in Entries BY DEF NoEntry, Entries
  <2>2. QED BY <2>1, WaitingSound DEF Init, QueryTyped
<1>3. QueryInv
  <2>1. \A i \in Instances, t \in Tasks : cache[i][t] = NoEntry BY DEF Init
  <2>2. \A q \in Queries : query[q] = Waiting BY DEF Init
  <2>3. QED BY <1>2, <2>1, <2>2, WaitingSound DEF QueryInv, Final
<1>4. TokensInv BY DEF Init, TokensInv, AuthTyped
<1>5. QED BY <1>1, <1>3, <1>4 DEF IInv

LEMMA AuthStill ==
  ASSUME TokensInv, KeepAuth
  PROVE  TokensInv'
BY DEF TokensInv, AuthTyped, KeepAuth

LEMMA QueryStill ==
  ASSUME QueryInv, UNCHANGED <<status, attempts, cache, query>>
  PROVE  QueryInv'
BY DEF QueryInv, QueryTyped, Final, Sound, Row

LEMMA StepIInv ==
  ASSUME IInv, [Next]_vars
  PROVE  IInv'
<1>1. LedgerInv /\ QueryInv /\ TokensInv BY DEF IInv
<1>2. CASE LedgerStep
  BY <1>1, <1>2, LedgerKeeps, TableKeeps, AuthStill DEF LedgerStep, IInv
<1>3. ASSUME NEW u \in Users,
             CheckPassword(u) \/ IssueToken(u) \/ Disable(u) \/ Enable(u) \/ RevokeTokens(u)
      PROVE  IInv'
  <2>1. UNCHANGED <<ledgerVars, cache, query>>
    BY <1>3 DEF CheckPassword, IssueToken, Disable, Enable, RevokeTokens, Admin
  <2>2. UNCHANGED <<status, attempts, cache, query>> BY <2>1 DEF ledgerVars
  <2>3. LedgerInv' BY <1>1, <2>1, LedgerStill
  <2>4. QueryInv' BY <1>1, <2>2, QueryStill
  <2>5. TokensInv' BY <1>1, <1>3, AccountsKeep
  <2>6. QED BY <2>3, <2>4, <2>5 DEF IInv
<1>4. ASSUME NEW q \in Queries, Authorise(q) \/ AskCache(q) \/ ReadRow(q) \/ Store(q) \/ Reply(q)
      PROVE  IInv'
  <2>1. KeepAuth /\ UNCHANGED ledgerVars
    BY <1>4 DEF Authorise, AskCache, ReadRow, Store, Reply
  <2>2. LedgerInv' /\ TokensInv' BY <1>1, <2>1, LedgerStill, AuthStill
  <2>3. AuthTyped BY <1>1 DEF TokensInv
  <2>4. QueryInv'
    BY <1>1, <1>4, <2>3, AuthoriseKeeps, AskKeeps, ReadKeeps, StoreKeeps, RestKeeps
  <2>5. QED BY <2>2, <2>4 DEF IInv
<1>5. CASE Age \/ \E i \in Instances : Restart(i)
  <2>1. KeepAuth /\ UNCHANGED ledgerVars BY <1>5 DEF Age, Restart
  <2>2. LedgerInv' /\ TokensInv' BY <1>1, <2>1, LedgerStill, AuthStill
  <2>3. QueryInv' BY <1>1, <1>5, RestKeeps
  <2>4. QED BY <2>2, <2>3 DEF IInv
<1>6. CASE UNCHANGED vars
  <2>1. UNCHANGED ledgerVars /\ UNCHANGED queryVars BY <1>6 DEF vars
  <2>2. KeepAuth /\ UNCHANGED <<cache, query>> BY <2>1 DEF queryVars, KeepAuth
  <2>3. UNCHANGED <<status, attempts>> BY <2>1 DEF ledgerVars
  <2>4. QED BY <1>1, <2>1, <2>2, <2>3, LedgerStill, AuthStill, QueryStill DEF IInv
<1>7. QED BY <1>2, <1>3, <1>4, <1>5, <1>6 DEF Next

THEOREM Invariance == Spec => []IInv
<1>1. IInv /\ [Next]_vars => IInv' BY StepIInv
<1>2. QED BY InitIInv, <1>1, PTL DEF Spec

-----------------------------------------------------------------------------

\* The state has its type, the history variables included (StatusQuery!TypeOK).
THEOREM TypeCorrect == Spec => []TypeOK
<1>1. IInv => TypeOK
  BY DEF IInv, LedgerInv, QueryInv, QueryTyped, TokensInv, AuthTyped, TypeOK, Requests, Entries
<1>2. QED BY Invariance, <1>1, PTL

\* Whatever the instances, the workers and the uploads do in between, a cached row
\* is final and equals the table's (app.py:84-104, cache.py).
THEOREM CacheIsFinalHolds == Spec => []CacheIsFinal
<1>1. IInv => CacheIsFinal BY DEF IInv, QueryInv, Final, CacheIsFinal
<1>2. QED BY Invariance, <1>1, PTL

\* A request admitted after its task settled answers with the final row (app.py:70).
THEOREM FinalIsSeenHolds == Spec => []FinalIsSeen
<1>1. IInv => FinalIsSeen BY DEF IInv, QueryInv, Sound, FinalIsSeen
<1>2. QED BY Invariance, <1>1, PTL

\* No token that was revoked is ever accepted again (auth_token.py:48-55).
THEOREM RevokedIsOutHolds == Spec => RevokedIsOut
<1> DEFINE Out == \A q \in Queries : query[q].pc = "idle" /\ query'[q].pc # "idle" =>
       LET u == query'[q].user IN account[u].active /\ query'[q].signed >= cut[u]
<1>1. ASSUME IInv, [Next]_vars PROVE Out
  <2>1. QueryTyped /\ TokensInv /\ AuthTyped BY <1>1 DEF IInv, QueryInv, TokensInv
  <2>2. SUFFICES ASSUME NEW p \in Queries, query[p].pc = "idle", query'[p].pc # "idle"
                 PROVE  account[query'[p].user].active /\ query'[p].signed >= cut[query'[p].user]
    OBVIOUS
  <2>3. Waiting.pc = "idle" BY DEF Waiting
  <2>4. PICK q \in Queries : Authorise(q)
    <3>1. CASE LedgerStep BY <2>2, <3>1 DEF LedgerStep
    <3>2. ASSUME NEW u \in Users,
                 CheckPassword(u) \/ IssueToken(u) \/ Disable(u) \/ Enable(u) \/ RevokeTokens(u)
          PROVE  FALSE
      BY <2>2, <3>2 DEF CheckPassword, IssueToken, Disable, Enable, RevokeTokens, Admin
    <3>3. ASSUME NEW q \in Queries, AskCache(q) \/ ReadRow(q) \/ Store(q) PROVE FALSE
      <4>1. query[q].pc # "idle" BY <3>3 DEF AskCache, ReadRow, Store
      <4>2. \E r : query' = [query EXCEPT ![q] = r]
        BY <3>3 DEF AskCache, ReadRow, Store, Step
      <4>3. query'[p] = query[p] BY <2>1, <2>2, <4>1, <4>2 DEF QueryTyped
      <4>4. QED BY <2>2, <4>3
    <3>4. ASSUME NEW q \in Queries, Reply(q) PROVE FALSE
      <4>1. query' = [query EXCEPT ![q] = Waiting] BY <3>4 DEF Reply, Step
      <4>2. query'[p] \in {Waiting, query[p]} BY <2>1, <4>1 DEF QueryTyped
      <4>3. QED BY <2>2, <2>3, <4>2
    <3>5. CASE Age BY <2>2, <3>5 DEF Age
    <3>6. ASSUME NEW i \in Instances, Restart(i) PROVE FALSE
      <4>1. query'[p] \in {Waiting, query[p]} BY <3>6 DEF Restart
      <4>2. QED BY <2>2, <2>3, <4>1
    <3>7. CASE UNCHANGED vars BY <2>2, <3>7 DEF vars, queryVars
    <3>8. QED BY <1>1, <3>1, <3>2, <3>3, <3>4, <3>5, <3>6, <3>7 DEF Next
  <2>5. PICK k \in tokens, t \in Tasks, i \in Instances :
          /\ Accepted(k)
          /\ Step(q, [Waiting EXCEPT !.pc = "cache", !.task = t, !.user = k.user, !.at = i,
                                     !.signed = k.at, !.late = (status[t] \in Settled)])
    BY <2>4 DEF Authorise
  <2> DEFINE r == [Waiting EXCEPT !.pc = "cache", !.task = t, !.user = k.user, !.at = i,
                                  !.signed = k.at, !.late = (status[t] \in Settled)]
  <2>6. r.user = k.user /\ r.signed = k.at BY DEF Waiting
  <2>7. query' = [query EXCEPT ![q] = r] BY <2>5 DEF Step
  <2> HIDE DEF r
  <2>8. query'[p] = r BY <2>1, <2>2, <2>7 DEF QueryTyped
  <2>9. account[k.user].active /\ k.at >= cut[k.user] BY <2>1, <2>5 DEF Accepted, TokensInv
  <2>10. QED BY <2>6, <2>8, <2>9
<1>2. QED BY Invariance, <1>1, PTL DEF Spec, RevokedIsOut
=============================================================================
