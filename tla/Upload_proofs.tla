--------------------------- MODULE Upload_proofs ---------------------------
(***************************************************************************)
(* Proofs about Upload.tla, for any number of clients, keys and files, and *)
(* any number of errors and crashes.                                       *)
(***************************************************************************)
EXTENDS Upload, TLAPS

(* Stages a handler reaches only once the row is its own, and those that    *)
(* follow a complete object.                                                *)
Uploader == {"probe", "recover", "claim", "write", "advance", "release"}
Complete == {"recover", "advance"}

HandlersKnow ==
  \A c \in Clients :
    /\ pc[c] \in Uploader =>
         SameFile(c) /\ Current(c).status \in Served \cup {"uploading"}
    /\ pc[c] \in Complete => object[Key(c)] = File(c)
    /\ pc[c] = "reply" => SameFile(c) /\ Current(c).status # "none"

Fingerprinted == \A k \in Keys : rows[k].hash = NoFile <=> rows[k].status = "none"

UploadInv ==
  TypeOK /\ Fingerprinted /\ ObjectsMatchRows /\ SuccessIsOwnFile /\ HandlersKnow

LEMMA MessageTyped ==
  \A c \in Clients : Key(c) \in Keys /\ File(c) \in Files /\ File(c) # NoFile
BY MessageAssumption, FileAssumption DEF Key, File

LEMMA NamesTyped ==
  /\ {"none", "uploading", "rejected", "pending", "processing", "arrears", "done", "dlq"} \subseteq Statuses
  /\ {"idle", "find", "reject", "reserve", "probe", "recover", "claim",
      "write", "advance", "release", "reply"} \subseteq Stages
BY DEF Statuses, Served, Stages

(* A handler that touches nothing but its own stage.                        *)
LEMMA StageStep ==
  ASSUME UploadInv, NEW c \in Clients, NEW to \in Stages, Go(c, pc[c], to),
         UNCHANGED <<rows, object, told>>, faults' \in Nat,
         to \in Uploader => SameFile(c) /\ Current(c).status \in Served \cup {"uploading"},
         to \in Complete => object[Key(c)] = File(c),
         to = "reply" => SameFile(c) /\ Current(c).status # "none"
  PROVE  UploadInv'
<1>1. pc' \in [Clients -> Stages] /\ \A d \in Clients : pc'[d] = IF d = c THEN to ELSE pc[d]
  BY DEF Go, UploadInv, TypeOK
<1>2. TypeOK' /\ Fingerprinted' /\ ObjectsMatchRows' /\ SuccessIsOwnFile'
  BY <1>1 DEF UploadInv, TypeOK, Fingerprinted, ObjectsMatchRows, SuccessIsOwnFile
<1>3. HandlersKnow'
  BY <1>1 DEF UploadInv, HandlersKnow, SameFile, Current, Key, File
<1>4. QED
  BY <1>2, <1>3 DEF UploadInv

(* A step that moves the row of k along and leaves the objects alone.       *)
LEMMA RowStep ==
  ASSUME UploadInv, NEW k \in Keys,
         NEW row \in [status : Statuses, hash : Files \cup {NoFile}, live : BOOLEAN],
         rows' = [rows EXCEPT ![k] = row],
         UNCHANGED <<object, told>>, faults' \in Nat, pc' \in [Clients -> Stages],
         rows[k].status \in Served \cup {"uploading"},
         row.hash = rows[k].hash,
         row.status \in Served \/ (row.status = rows[k].status),
         row.status \in Served => object[k] = row.hash /\ object[k] # NoFile,
         \A c \in Clients :
           \/ pc'[c] = pc[c]
           \/ pc'[c] = "idle"
           \/ pc'[c] \in {"reply", "write"} /\ pc[c] \in Uploader
  PROVE  UploadInv'
<1>1. \A j \in Keys : rows'[j] = IF j = k THEN row ELSE rows[j]
  BY DEF UploadInv, TypeOK
<1>2. rows' \in [Keys -> [status : Statuses, hash : Files \cup {NoFile}, live : BOOLEAN]]
  BY DEF UploadInv, TypeOK
<1>3. TypeOK'
  BY <1>2 DEF UploadInv, TypeOK
<1>4. Fingerprinted'
  BY <1>1 DEF UploadInv, Fingerprinted, Served
<1>5. ObjectsMatchRows'
  BY <1>1 DEF UploadInv, ObjectsMatchRows
<1>6. SuccessIsOwnFile'
  <2>1. \A j \in Keys : rows'[j].hash = rows[j].hash
                        /\ (rows'[j].status = "rejected" => rows[j].status = "rejected")
    BY <1>1 DEF Served
  <2>2. told \in SUBSET (Keys \X Files)
    BY DEF UploadInv, TypeOK
  <2>3. QED
    BY <2>1, <2>2 DEF UploadInv, SuccessIsOwnFile
<1>7. HandlersKnow'
  <2>1. \A j \in Keys :
          /\ rows'[j].hash = rows[j].hash
          /\ rows[j].status \in Served \cup {"uploading"} => rows'[j].status \in Served \cup {"uploading"}
          /\ rows[j].status # "none" => rows'[j].status # "none"
    BY <1>1 DEF Served
  <2>2. Complete \subseteq Uploader /\ "idle" \notin Uploader /\ "reply" \notin Uploader
        /\ "write" \notin Complete /\ "write" \in Uploader
    BY DEF Complete, Uploader
  <2>3. QED
    BY <2>1, <2>2, MessageTyped DEF UploadInv, HandlersKnow, SameFile, Current, Served, Key, File
<1>8. QED
  BY <1>3, <1>4, <1>5, <1>6, <1>7 DEF UploadInv

(* A step that creates the row of c's key.                                  *)
LEMMA CreateStep ==
  ASSUME UploadInv, NEW c \in Clients, NEW status \in {"uploading", "rejected"},
         NEW live \in BOOLEAN, NEW to \in {"idle", "write"},
         Current(c).status = "none", Go(c, pc[c], to),
         status = "rejected" => to = "idle",
         Store(c, [status |-> status, hash |-> File(c), live |-> live]),
         UNCHANGED <<object, told, faults>>
  PROVE  UploadInv'
<1> DEFINE k == Key(c)
           row == [status |-> status, hash |-> File(c), live |-> live]
<1>1. k \in Keys /\ File(c) \in Files /\ rows[k].status = "none"
  BY MessageTyped DEF Current
<1>2. \A j \in Keys : rows'[j] = IF j = k THEN row ELSE rows[j]
  BY DEF Store, UploadInv, TypeOK
<1>3. row \in [status : Statuses, hash : Files \cup {NoFile}, live : BOOLEAN]
  BY <1>1, NamesTyped
<1>4. rows' \in [Keys -> [status : Statuses, hash : Files \cup {NoFile}, live : BOOLEAN]]
  BY <1>1, <1>3 DEF Store, UploadInv, TypeOK
<1>5. pc' \in [Clients -> Stages] /\ \A d \in Clients : pc'[d] = IF d = c THEN to ELSE pc[d]
  BY NamesTyped DEF Go, UploadInv, TypeOK
<1>6. TypeOK'
  BY <1>4, <1>5 DEF UploadInv, TypeOK
<1>7. Fingerprinted'
  BY <1>1, <1>2, FileAssumption DEF UploadInv, Fingerprinted
<1>8. object[k] = NoFile
  BY <1>1 DEF UploadInv, ObjectsMatchRows, Served
<1>9. ObjectsMatchRows'
  BY <1>1, <1>2, <1>8 DEF UploadInv, ObjectsMatchRows, Served
<1>10. SuccessIsOwnFile'
  <2>1. told \in SUBSET (Keys \X Files)
    BY DEF UploadInv, TypeOK
  <2>2. ASSUME NEW j \in Keys, NEW f \in Files, <<j, f>> \in told
        PROVE  rows'[j].hash = f /\ rows'[j].status # "rejected"
    <3>1. rows[j].hash = f /\ rows[j].status # "rejected"
      BY <2>2 DEF UploadInv, SuccessIsOwnFile
    <3>2. j # k
      BY <1>1, <3>1, FileAssumption DEF UploadInv, Fingerprinted
    <3>3. QED
      BY <1>2, <3>1, <3>2
  <2>3. QED
    BY <2>1, <2>2 DEF SuccessIsOwnFile
<1>11. HandlersKnow'
  <2>1. ASSUME NEW d \in Clients, d # c PROVE Key(d) = k => pc[d] \notin Uploader \cup {"reply"}
    BY <1>1 DEF UploadInv, HandlersKnow, Current, Served
  <2>2. "idle" \notin Uploader /\ "write" \notin Complete /\ Complete \subseteq Uploader
    BY DEF Uploader, Complete
  <2>3. QED
    BY <1>1, <1>2, <1>5, <2>1, <2>2, MessageTyped
       DEF UploadInv, HandlersKnow, SameFile, Current, Served
<1>12. QED
  BY <1>6, <1>7, <1>9, <1>10, <1>11 DEF UploadInv

-----------------------------------------------------------------------------
(* The steps of a handler.                                                  *)

LEMMA MeetKnows ==
  ASSUME UploadInv, NEW c \in Clients, Current(c).status # "none"
  PROVE  /\ Meet(c) \in {"idle", "probe", "reply"}
         /\ Meet(c) = "probe" => SameFile(c) /\ Current(c).status = "uploading"
         /\ Meet(c) = "reply" => SameFile(c)
BY DEF Meet

LEMMA StagesApart ==
  /\ \A s \in {"idle", "find", "reject", "reserve", "reply"} : s \notin Uploader \cup Complete
  /\ \A s \in {"probe", "claim", "write", "release"} : s \notin Complete
  /\ Complete \subseteq Uploader
BY DEF Uploader, Complete

LEMMA ReadingStep ==
  ASSUME UploadInv, NEW c \in Clients,
         Submit(c) \/ Find(c) \/ Probe(c) \/ WriteFails(c) \/ Error(c) \/ Crash(c)
  PROVE  UploadInv'
<1>0. faults \in Nat /\ UploadInv
  BY DEF UploadInv, TypeOK
<1>k. /\ pc[c] \in Uploader => SameFile(c) /\ Current(c).status \in Served \cup {"uploading"}
      /\ pc[c] \in Complete => object[Key(c)] = File(c)
  BY DEF UploadInv, HandlersKnow
<1>1. CASE Submit(c)
  BY <1>0, <1>1, StageStep, StagesApart, NamesTyped DEF Submit, Go
<1>2. CASE Find(c)
  <2>1. PICK to : to = IF Current(c).status # "none" THEN Meet(c)
                       ELSE IF Message[c].valid THEN "reserve" ELSE "reject"
    OBVIOUS
  <2>2. to \in {"idle", "probe", "reply", "reserve", "reject"}
    BY <2>1, MeetKnows
  <2>3. /\ to = "probe" => SameFile(c) /\ Current(c).status = "uploading"
        /\ to = "reply" => SameFile(c) /\ Current(c).status # "none"
    BY <2>1, MeetKnows
  <2>4. Go(c, pc[c], to) /\ UNCHANGED <<rows, object, told>> /\ faults' \in Nat
    BY <1>0, <1>2, <2>1 DEF Find, Go
  <2>5. QED
    BY <2>2, <2>3, <2>4, StageStep, StagesApart, NamesTyped
<1>3. CASE Probe(c)
  <2>1. PICK to : to = IF object[Key(c)] = NoFile THEN "claim"
                       ELSE IF object[Key(c)] = File(c) THEN "recover" ELSE "idle"
    OBVIOUS
  <2>2. to \in {"idle", "claim", "recover"} /\ (to = "recover" => object[Key(c)] = File(c))
    BY <2>1, MessageTyped
  <2>3. Go(c, pc[c], to) /\ UNCHANGED <<rows, object, told>> /\ faults' \in Nat /\ pc[c] \in Uploader
    BY <1>0, <1>3, <2>1 DEF Probe, Go, Uploader
  <2>4. QED
    BY <1>k, <2>2, <2>3, StageStep, StagesApart, NamesTyped
<1>4. CASE WriteFails(c)
  <2>1. Go(c, pc[c], "release") /\ faults' \in Nat /\ pc[c] \in Uploader
    BY <1>0, <1>4 DEF WriteFails, Go, Uploader
  <2>2. QED
    BY <1>k, <1>4, <2>1, StageStep, StagesApart, NamesTyped DEF WriteFails
<1>5. CASE Error(c)
  <2>1. PICK to : to = IF pc[c] = "advance" THEN "release" ELSE "idle"
    OBVIOUS
  <2>2. to \in {"release", "idle"} /\ (to = "release" => pc[c] \in Uploader)
    BY <2>1 DEF Uploader
  <2>3. Go(c, pc[c], to) /\ UNCHANGED <<rows, object, told>> /\ faults' \in Nat
    BY <1>0, <1>5, <2>1 DEF Error, Go
  <2>4. QED
    BY <1>k, <2>2, <2>3, StageStep, StagesApart, NamesTyped
<1>6. CASE Crash(c)
  <2>1. Go(c, pc[c], "idle") /\ UNCHANGED <<rows, object, told>> /\ faults' \in Nat
    BY <1>0, <1>6 DEF Crash
  <2>2. QED
    BY <2>1, StageStep, StagesApart, NamesTyped
<1>7. QED
  BY <1>1, <1>2, <1>3, <1>4, <1>5, <1>6

LEMMA ReservingStep ==
  ASSUME UploadInv, NEW c \in Clients, Reject(c) \/ Reserve(c)
  PROVE  UploadInv'
<1>1. CASE Current(c).status = "none" /\ Reject(c)
  BY <1>1, CreateStep DEF Reject, Go
<1>2. CASE Current(c).status = "none" /\ Reserve(c)
  BY <1>2, CreateStep DEF Reserve, Go
<1>3. CASE Current(c).status # "none" /\ Reject(c)
  BY <1>3, StageStep, StagesApart, NamesTyped DEF Reject, Go, UploadInv, TypeOK
<1>4. CASE Current(c).status # "none" /\ Reserve(c)
  <2>1. Go(c, pc[c], Meet(c)) /\ UNCHANGED <<rows, object, told>> /\ faults' \in Nat
    BY <1>4 DEF Reserve, Go, UploadInv, TypeOK
  <2>2. QED
    BY <1>4, <2>1, MeetKnows, StageStep, StagesApart, NamesTyped
<1>5. QED
  BY <1>1, <1>2, <1>3, <1>4

(* claim_stale_upload, transition and the except branch: the row moves      *)
(* along, and the handler with it.                                          *)
LEMMA AdvancingStep ==
  ASSUME UploadInv, NEW c \in Clients, Claim(c) \/ Advance(c) \/ Release(c)
  PROVE  UploadInv'
<1> DEFINE k == Key(c)
<1>1. /\ k \in Keys /\ File(c) \in Files /\ File(c) # NoFile
      /\ rows[k] \in [status : Statuses, hash : Files \cup {NoFile}, live : BOOLEAN]
      /\ Current(c) = rows[k]
  BY MessageTyped DEF UploadInv, TypeOK, Current
<1>2. pc[c] \in Uploader /\ rows[k].hash = File(c) /\ rows[k].status \in Served \cup {"uploading"}
  <2>1. pc[c] \in Uploader
    BY DEF Claim, Advance, Release, Go, Uploader
  <2>2. QED
    BY <1>1, <2>1 DEF UploadInv, HandlersKnow, SameFile
<1>3. faults' \in Nat /\ UNCHANGED <<object, told>>
  BY DEF UploadInv, TypeOK, Claim, Advance, Release
<1>4. rows[k].status \in Served => object[k] = rows[k].hash /\ object[k] # NoFile
  BY <1>1 DEF UploadInv, ObjectsMatchRows
<1>5. CASE UNCHANGED rows
  <2>1. PICK to \in {"write", "reply", "idle"} : Go(c, pc[c], to)
    BY DEF Claim, Advance, Release, Go
  <2>2. to \in Uploader => SameFile(c) /\ Current(c).status \in Served \cup {"uploading"}
    BY <1>1, <1>2 DEF SameFile
  <2>3. to = "reply" => SameFile(c) /\ Current(c).status # "none"
    BY <1>1, <1>2 DEF SameFile, Served
  <2>4. to \in Stages /\ to \notin Complete
    BY NamesTyped, StagesApart
  <2>5. QED
    BY <1>3, <1>5, <2>1, <2>2, <2>3, <2>4, StageStep
<1>6. ASSUME NEW row \in [status : Statuses, hash : Files \cup {NoFile}, live : BOOLEAN],
             Store(c, row), row.hash = rows[k].hash,
             row.status \in Served \/ row.status = rows[k].status,
             row.status \in Served => object[k] = row.hash /\ object[k] # NoFile
      PROVE  UploadInv'
  <2>1. PICK to \in {"write", "reply", "idle"} : Go(c, pc[c], to)
    BY DEF Claim, Advance, Release, Go
  <2>2. pc' \in [Clients -> Stages] /\ \A d \in Clients : pc'[d] = IF d = c THEN to ELSE pc[d]
    BY <2>1, NamesTyped DEF Go, UploadInv, TypeOK
  <2>3. rows' = [rows EXCEPT ![k] = row]
    BY <1>6 DEF Store
  <2> HIDE DEF k
  <2>4. \A d \in Clients :
          \/ pc'[d] = pc[d]
          \/ pc'[d] = "idle"
          \/ pc'[d] \in {"reply", "write"} /\ pc[d] \in Uploader
    BY <1>2, <2>2
  <2>5. QED
    BY <1>1, <1>2, <1>3, <1>6, <2>2, <2>3, <2>4, RowStep
<1>7. ASSUME NEW live \in BOOLEAN, Store(c, [Current(c) EXCEPT !.live = live])
      PROVE  UploadInv'
  <2> DEFINE row == [rows[k] EXCEPT !.live = live]
  <2>1. row \in [status : Statuses, hash : Files \cup {NoFile}, live : BOOLEAN]
        /\ row.hash = rows[k].hash /\ row.status = rows[k].status
    BY <1>1
  <2>2. Store(c, row)
    BY <1>1, <1>7
  <2> HIDE DEF row, k
  <2>3. QED
    BY <1>4, <1>6, <2>1, <2>2
<1>8. CASE Advance(c) /\ ~UNCHANGED rows
  <2> DEFINE row == [rows[k] EXCEPT !.status = "pending", !.hash = File(c), !.live = FALSE]
  <2>1. row \in [status : Statuses, hash : Files \cup {NoFile}, live : BOOLEAN]
        /\ row.hash = File(c) /\ row.status = "pending"
    BY <1>1, NamesTyped
  <2>2. Store(c, row)
    BY <1>1, <1>8 DEF Advance
  <2>3. object[k] = File(c)
    BY <1>8 DEF UploadInv, HandlersKnow, Advance, Complete
  <2>4. "pending" \in Served
    BY DEF Served
  <2> HIDE DEF row, k
  <2>5. QED
    BY <1>1, <1>2, <1>6, <2>1, <2>2, <2>3, <2>4
<1>9. QED
  BY <1>5, <1>7, <1>8 DEF Claim, Release

LEMMA WriteStep ==
  ASSUME UploadInv, NEW c \in Clients, Write(c)
  PROVE  /\ UploadInv'
         /\ \A k \in Keys : object[k] # NoFile => object'[k] = object[k]
<1> DEFINE k == Key(c)
<1>1. k \in Keys /\ File(c) \in Files /\ File(c) # NoFile
  BY MessageTyped
<1>2. rows[k].hash = File(c) /\ rows[k].status \in Served \cup {"uploading"}
  BY DEF UploadInv, HandlersKnow, Write, Go, Uploader, SameFile, Current
<1>3. \A j \in Keys : object'[j] = IF j = k THEN File(c) ELSE object[j]
  BY DEF Write, UploadInv, TypeOK
<1>4. pc' \in [Clients -> Stages] /\ \A d \in Clients : pc'[d] = IF d = c THEN "advance" ELSE pc[d]
  BY NamesTyped DEF Write, Go, UploadInv, TypeOK
<1>5. TypeOK'
  BY <1>1, <1>4 DEF Write, UploadInv, TypeOK
<1>6. Fingerprinted' /\ SuccessIsOwnFile'
  BY DEF Write, UploadInv, Fingerprinted, SuccessIsOwnFile
<1>7. ObjectsMatchRows'
  BY <1>1, <1>2, <1>3 DEF Write, UploadInv, ObjectsMatchRows
<1>8. HandlersKnow'
  <2>1. ASSUME NEW d \in Clients
        PROVE  /\ pc'[d] \in Uploader =>
                    rows[Key(d)].hash = File(d) /\ rows[Key(d)].status \in Served \cup {"uploading"}
               /\ pc'[d] \in Complete => object'[Key(d)] = File(d)
               /\ pc'[d] = "reply" => rows[Key(d)].hash = File(d) /\ rows[Key(d)].status # "none"
    <3>1. CASE d = c
      BY <1>1, <1>2, <1>3, <1>4, <3>1
    <3>2. CASE d # c
      <4>1. /\ pc[d] \in Uploader =>
                 rows[Key(d)].hash = File(d) /\ rows[Key(d)].status \in Served \cup {"uploading"}
            /\ pc[d] \in Complete => object[Key(d)] = File(d)
            /\ pc[d] = "reply" => rows[Key(d)].hash = File(d) /\ rows[Key(d)].status # "none"
        BY DEF UploadInv, HandlersKnow, SameFile, Current
      <4>2. Key(d) \in Keys
        BY MessageTyped
      <4>3. Complete \subseteq Uploader
        BY StagesApart
      <4> HIDE DEF k
      <4>4. QED
        BY <1>1, <1>2, <1>3, <1>4, <3>2, <4>1, <4>2, <4>3
    <3>3. QED
      BY <3>1, <3>2
  <2>2. QED
    BY <2>1 DEF HandlersKnow, SameFile, Current, Write, Key, File
<1>9. \A j \in Keys : object[j] # NoFile => object'[j] = object[j]
  BY <1>1, <1>2, <1>3 DEF UploadInv, ObjectsMatchRows
<1>10. QED
  BY <1>5, <1>6, <1>7, <1>8, <1>9 DEF UploadInv

LEMMA ReplyStep ==
  ASSUME UploadInv, NEW c \in Clients, Reply(c)
  PROVE  UploadInv'
<1>1. Key(c) \in Keys /\ File(c) \in Files /\ rows[Key(c)].hash = File(c)
  BY MessageTyped DEF Reply, Go, UploadInv, HandlersKnow, SameFile, Current
<1>2. pc' \in [Clients -> Stages] /\ \A d \in Clients : pc'[d] = IF d = c THEN "idle" ELSE pc[d]
  BY NamesTyped DEF Reply, Go, UploadInv, TypeOK
<1>3. told' \in SUBSET (Keys \X Files)
  BY <1>1 DEF Reply, UploadInv, TypeOK
<1>4. TypeOK' /\ Fingerprinted' /\ ObjectsMatchRows'
  BY <1>2, <1>3 DEF Reply, UploadInv, TypeOK, Fingerprinted, ObjectsMatchRows
<1>5. SuccessIsOwnFile'
  BY <1>1 DEF Reply, UploadInv, SuccessIsOwnFile, Current
<1>6. HandlersKnow'
  BY <1>2, StagesApart DEF Reply, UploadInv, HandlersKnow, SameFile, Current, Key, File
<1>7. QED
  BY <1>4, <1>5, <1>6 DEF UploadInv

LEMMA OutsideStep ==
  ASSUME UploadInv, NEW k \in Keys, Expire(k) \/ Serve(k)
  PROVE  UploadInv'
<1>0. /\ rows[k] \in [status : Statuses, hash : Files \cup {NoFile}, live : BOOLEAN]
      /\ pc' \in [Clients -> Stages] /\ faults' \in Nat
      /\ UNCHANGED <<object, told>> /\ \A c \in Clients : pc'[c] = pc[c]
  BY DEF UploadInv, TypeOK, Expire, Serve
<1>1. rows[k].status \in Served => object[k] = rows[k].hash /\ object[k] # NoFile
  BY DEF UploadInv, ObjectsMatchRows
<1>2. CASE Serve(k)
  <2>1. PICK s \in Served : rows' = [rows EXCEPT ![k].status = s]
    <3>1. PICK edge \in ALLOWED : rows' = [rows EXCEPT ![k].status = edge[2]]
      BY <1>2 DEF Serve
    <3>2. edge[2] \in Served
      BY DEF ALLOWED, Served
    <3> QED
      BY <3>1, <3>2
  <2> DEFINE row == [rows[k] EXCEPT !.status = s]
  <2>2. row \in [status : Statuses, hash : Files \cup {NoFile}, live : BOOLEAN]
        /\ row.hash = rows[k].hash /\ row.status = s /\ rows' = [rows EXCEPT ![k] = row]
    BY <1>0, <2>1 DEF Statuses
  <2>3. rows[k].status \in Served
    BY <1>2 DEF Serve
  <2> HIDE DEF row
  <2>4. QED
    BY <1>0, <1>1, <2>2, <2>3, RowStep
<1>3. CASE Expire(k)
  <2> DEFINE row == [rows[k] EXCEPT !.live = FALSE]
  <2>1. row \in [status : Statuses, hash : Files \cup {NoFile}, live : BOOLEAN]
        /\ row.hash = rows[k].hash /\ row.status = rows[k].status
        /\ rows' = [rows EXCEPT ![k] = row]
    BY <1>0, <1>3 DEF Expire
  <2> HIDE DEF row
  <2>2. CASE rows[k].status \in Served \cup {"uploading"}
    BY <1>0, <1>1, <2>1, <2>2, RowStep
  <2>3. CASE rows[k].status \notin Served \cup {"uploading"}
    <3>1. \A j \in Keys : rows'[j].hash = rows[j].hash /\ rows'[j].status = rows[j].status
      BY <2>1 DEF UploadInv, TypeOK
    <3>2. TypeOK'
      BY <1>0, <2>1 DEF UploadInv, TypeOK
    <3>3. Fingerprinted' /\ ObjectsMatchRows' /\ SuccessIsOwnFile'
      BY <1>0, <3>1 DEF UploadInv, Fingerprinted, ObjectsMatchRows, SuccessIsOwnFile
    <3>4. HandlersKnow'
      BY <1>0, <3>1, MessageTyped DEF UploadInv, HandlersKnow, SameFile, Current, Key, File
    <3>5. QED
      BY <3>2, <3>3, <3>4 DEF UploadInv
  <2>4. QED
    BY <2>2, <2>3
<1>4. QED
  BY <1>2, <1>3

(* Everything a handler relies on holds in every reachable state.           *)
THEOREM UploadInvariant == Spec => []UploadInv
<1>1. Init => UploadInv
  BY NamesTyped, FileAssumption
     DEF Init, UploadInv, TypeOK, Fingerprinted, ObjectsMatchRows, SuccessIsOwnFile,
         HandlersKnow, Served, Uploader, Complete
<1>2. UploadInv /\ [Next]_uploadVars => UploadInv'
  <2> SUFFICES ASSUME UploadInv, [Next]_uploadVars PROVE UploadInv'
    OBVIOUS
  <2>1. CASE UNCHANGED uploadVars
    BY <2>1 DEF uploadVars, UploadInv, TypeOK, Fingerprinted, ObjectsMatchRows,
                SuccessIsOwnFile, HandlersKnow, SameFile, Current, Key, File
  <2>2. CASE Next
    BY <2>2, ReadingStep, ReservingStep, AdvancingStep, WriteStep, ReplyStep, OutsideStep
       DEF Next, Handle
  <2>3. QED
    BY <2>1, <2>2
<1>3. QED
  BY <1>1, <1>2, PTL DEF Spec

(* Type correctness of the rows, the objects and the handlers' stages.      *)
THEOREM UploadTypes == Spec => []TypeOK
<1>1. UploadInv => TypeOK
  BY DEF UploadInv
<1>2. QED
  BY <1>1, UploadInvariant, PTL

(* Every queued submission has its complete screenshot and no object is     *)
(* without a reservation (app.py:166-249, object_store.py:106-167).         *)
THEOREM QueuedHasObject == Spec => []ObjectsMatchRows
<1>1. UploadInv => ObjectsMatchRows
  BY DEF UploadInv
<1>2. QED
  BY <1>1, UploadInvariant, PTL

(* No request is answered 200 for another file than its own                 *)
(* (app.py:434-436, 465-468).                                               *)
THEOREM SuccessIsOwn == Spec => []SuccessIsOwnFile
<1>1. UploadInv => SuccessIsOwnFile
  BY DEF UploadInv
<1>2. QED
  BY <1>1, UploadInvariant, PTL

(* An object never changes once it is there, whoever writes it again        *)
(* (object_store.py:106-167).                                               *)
THEOREM ObjectsAreStable == Spec => ObjectStable
<1>1. UploadInv /\ [Next]_uploadVars
        => [\A k \in Keys : object[k] # NoFile => object'[k] = object[k]]_uploadVars
  <2> SUFFICES ASSUME UploadInv, Next
               PROVE  \A k \in Keys : object[k] # NoFile => object'[k] = object[k]
    OBVIOUS
  <2>1. CASE \E c \in Clients : Write(c)
    BY <2>1, WriteStep
  <2>2. CASE UNCHANGED object
    BY <2>2
  <2>3. QED
    BY <2>1, <2>2
       DEF Next, Handle, Submit, Find, Reject, Reserve, Probe, Claim, Advance, Release, Reply,
           WriteFails, Error, Crash, Expire, Serve
<1>2. QED
  BY <1>1, UploadInvariant, PTL DEF Spec, ObjectStable
-----------------------------------------------------------------------------
(* The handlers keep the promise of Intake.tla.                             *)

StageMap == [k \in Keys |-> StageOf(rows[k].status)]
OwnerMap == [k \in Keys |-> rows[k].hash]

LEMMA StageNames ==
  /\ StageOf("none") = "free" /\ StageOf("rejected") = "refused" /\ StageOf("uploading") = "taken"
  /\ \A s \in Served : StageOf(s) = "queued"
BY DEF StageOf, Served

LEMMA MapsPrimed ==
  /\ StageMap' = [k \in Keys |-> StageOf(rows'[k].status)]
  /\ OwnerMap' = [k \in Keys |-> rows'[k].hash]
BY Zenon DEF StageMap, OwnerMap, StageOf

(* Nothing that Intake.tla speaks of has changed.                           *)
LEMMA IntakeStutters ==
  ASSUME UNCHANGED <<object, told>>,
         \A k \in Keys : /\ rows'[k].hash = rows[k].hash
                         /\ StageOf(rows'[k].status) = StageOf(rows[k].status)
  PROVE  UNCHANGED Intake!intakeVars
<1>1. StageMap' = StageMap /\ OwnerMap' = OwnerMap
  BY MapsPrimed DEF StageMap, OwnerMap
<1>2. QED
  BY <1>1 DEF Intake!intakeVars, StageMap, OwnerMap

(* The row of k takes another stage.                                        *)
LEMMA IntakeEnters ==
  ASSUME NEW k \in Keys, NEW row,
         \A j \in Keys : rows'[j] = IF j = k THEN row ELSE rows[j]
  PROVE  /\ StageMap' = [StageMap EXCEPT ![k] = StageOf(row.status)]
         /\ OwnerMap' = [OwnerMap EXCEPT ![k] = row.hash]
BY MapsPrimed DEF StageMap, OwnerMap

LEMMA CreatingRefines ==
  ASSUME UploadInv, NEW c \in Clients, Reject(c) \/ Reserve(c)
  PROVE  Intake!IntakeNext \/ UNCHANGED Intake!intakeVars
<1> DEFINE k == Key(c)
<1>1. k \in Keys /\ File(c) \in Files
  BY MessageTyped
<1>2. CASE UNCHANGED rows
  BY <1>2, IntakeStutters DEF Reject, Reserve
<1>3. ASSUME NEW status \in {"uploading", "rejected"}, NEW live,
             Store(c, [status |-> status, hash |-> File(c), live |-> live]),
             Current(c).status = "none", UNCHANGED <<object, told>>
      PROVE  Intake!Take(k) \/ Intake!Refuse(k)
  <2> DEFINE row == [status |-> status, hash |-> File(c), live |-> live]
  <2>1. \A j \in Keys : rows'[j] = IF j = k THEN row ELSE rows[j]
    BY <1>3 DEF Store, UploadInv, TypeOK
  <2>2. /\ StageMap' = [StageMap EXCEPT ![k] = StageOf(status)]
        /\ OwnerMap' = [OwnerMap EXCEPT ![k] = File(c)]
    BY <1>1, <2>1, IntakeEnters
  <2>3. StageMap[k] = "free"
    BY <1>1, <1>3, StageNames DEF StageMap, Current
  <2>4. CASE status = "uploading"
    BY <1>1, <1>3, <2>2, <2>3, <2>4, StageNames
       DEF Intake!Take, Intake!Enter, StageMap, OwnerMap
  <2>5. CASE status = "rejected"
    BY <1>1, <1>3, <2>2, <2>3, <2>5, StageNames
       DEF Intake!Refuse, Intake!Enter, StageMap, OwnerMap
  <2>6. QED
    BY <2>4, <2>5
<1>4. QED
  BY <1>1, <1>2, <1>3 DEF Reject, Reserve, Intake!IntakeNext

LEMMA WritingRefines ==
  ASSUME UploadInv, NEW c \in Clients, Write(c)
  PROVE  Intake!IntakeNext \/ UNCHANGED Intake!intakeVars
<1> DEFINE k == Key(c)
<1>1. k \in Keys /\ File(c) \in Files /\ File(c) # NoFile
  BY MessageTyped
<1>2. rows[k].hash = File(c) /\ rows[k].status \in Served \cup {"uploading"}
  BY DEF UploadInv, HandlersKnow, Write, Go, Uploader, SameFile, Current
<1>3. StageMap' = StageMap /\ OwnerMap' = OwnerMap /\ told' = told
  BY DEF Write, StageMap, OwnerMap
<1>4. CASE object[k] = NoFile
  <2>1. rows[k].status = "uploading"
    BY <1>1, <1>2, <1>4 DEF UploadInv, ObjectsMatchRows
  <2>2. Intake!Keep(k)
    BY <1>1, <1>2, <1>3, <1>4, <2>1, StageNames DEF Write, Intake!Keep, StageMap, OwnerMap
  <2>3. QED
    BY <1>1, <2>2 DEF Intake!IntakeNext
<1>5. CASE object[k] # NoFile
  <2>1. object' = object
    BY <1>1, <1>2, <1>5 DEF Write, UploadInv, TypeOK, ObjectsMatchRows
  <2>2. QED
    BY <1>3, <2>1 DEF Intake!intakeVars, StageMap, OwnerMap
<1>6. QED
  BY <1>4, <1>5

LEMMA AdvancingRefines ==
  ASSUME UploadInv, NEW c \in Clients, Claim(c) \/ Advance(c) \/ Release(c)
  PROVE  Intake!IntakeNext \/ UNCHANGED Intake!intakeVars
<1> DEFINE k == Key(c)
<1>1. /\ k \in Keys /\ File(c) \in Files /\ File(c) # NoFile
      /\ rows[k] \in [status : Statuses, hash : Files \cup {NoFile}, live : BOOLEAN]
      /\ Current(c) = rows[k] /\ UNCHANGED <<object, told>>
  BY MessageTyped DEF UploadInv, TypeOK, Current, Claim, Advance, Release
<1>2. CASE UNCHANGED rows
  BY <1>1, <1>2, IntakeStutters
<1>3. ASSUME NEW live, Store(c, [Current(c) EXCEPT !.live = live])
      PROVE  UNCHANGED Intake!intakeVars
  <2>1. \A j \in Keys : rows'[j].hash = rows[j].hash /\ rows'[j].status = rows[j].status
    BY <1>1, <1>3 DEF Store, UploadInv, TypeOK
  <2>2. QED
    BY <1>1, <2>1, IntakeStutters
<1>4. CASE Advance(c) /\ ~UNCHANGED rows
  <2> DEFINE row == [rows[k] EXCEPT !.status = "pending", !.hash = File(c), !.live = FALSE]
  <2>1. row.hash = File(c) /\ row.status = "pending"
    BY <1>1
  <2>2. \A j \in Keys : rows'[j] = IF j = k THEN row ELSE rows[j]
    BY <1>1, <1>4 DEF Advance, Store, UploadInv, TypeOK
  <2>3. rows[k].hash = File(c) /\ object[k] = File(c)
    BY <1>1, <1>4 DEF UploadInv, HandlersKnow, Advance, Complete, Uploader, SameFile
  <2>4. rows[k].status \in {"uploading", "arrears"}
    BY <1>1, <1>4 DEF Advance, Advanceable, ALLOWED
  <2>5. "pending" \in Served /\ "arrears" \in Served
    BY DEF Served
  <2> HIDE DEF row, k
  <2>6. CASE rows[k].status = "arrears"
    <3>1. \A j \in Keys : rows'[j].hash = rows[j].hash
                          /\ StageOf(rows'[j].status) = StageOf(rows[j].status)
      BY <2>1, <2>2, <2>3, <2>5, <2>6, StageNames
    <3>2. QED
      BY <1>1, <3>1, IntakeStutters
  <2>7. CASE rows[k].status = "uploading"
    <3>1. /\ StageMap' = [StageMap EXCEPT ![k] = "queued"]
          /\ OwnerMap' = [OwnerMap EXCEPT ![k] = File(c)]
      BY <1>1, <2>1, <2>2, <2>5, IntakeEnters, StageNames
    <3>2. StageMap[k] = "taken" /\ OwnerMap[k] = File(c)
      BY <1>1, <2>3, <2>7, StageNames DEF StageMap, OwnerMap
    <3>3. OwnerMap' = OwnerMap
      BY <3>1, <3>2 DEF OwnerMap
    <3>4. Intake!Queue(k)
      BY <1>1, <2>3, <3>1, <3>2, <3>3 DEF Intake!Queue, Intake!Enter, StageMap, OwnerMap
    <3>5. QED
      BY <1>1, <3>4 DEF Intake!IntakeNext
  <2>8. QED
    BY <2>4, <2>6, <2>7
<1>5. QED
  BY <1>2, <1>3, <1>4 DEF Claim, Release

LEMMA AnsweringRefines ==
  ASSUME UploadInv, NEW c \in Clients, Reply(c)
  PROVE  Intake!IntakeNext \/ UNCHANGED Intake!intakeVars
<1> DEFINE k == Key(c)
<1>1. k \in Keys /\ rows[k].hash = File(c) /\ rows[k].status \in Statuses \ {"none"}
  BY MessageTyped DEF Reply, Go, UploadInv, TypeOK, HandlersKnow, SameFile, Current
<1>2. CASE rows[k].status = "rejected"
  BY <1>2, IntakeStutters DEF Reply, Current
<1>3. CASE rows[k].status # "rejected"
  <2>1. rows[k].status = "uploading" \/ rows[k].status \in Served
    BY <1>1, <1>3 DEF Statuses
  <2>2. StageMap[k] \in {"taken", "queued"} /\ OwnerMap[k] = File(c)
    BY <1>1, <2>1, StageNames DEF StageMap, OwnerMap
  <2>3. told' = told \cup {<<k, OwnerMap[k]>>} /\ UNCHANGED <<rows, object>>
    BY <1>3, <2>2 DEF Reply, Current
  <2>4. Intake!Answer(k)
    BY <2>2, <2>3 DEF Intake!Answer, StageMap, OwnerMap
  <2>5. QED
    BY <1>1, <2>4 DEF Intake!IntakeNext
<1>4. QED
  BY <1>2, <1>3

LEMMA OutsideRefines ==
  ASSUME UploadInv, NEW k \in Keys, Expire(k) \/ Serve(k)
  PROVE  UNCHANGED Intake!intakeVars
<1>1. UNCHANGED <<object, told>> /\ rows \in [Keys -> [status : Statuses, hash : Files \cup {NoFile}, live : BOOLEAN]]
  BY DEF UploadInv, TypeOK, Expire, Serve
<1>2. CASE Expire(k)
  <2>1. \A j \in Keys : rows'[j].hash = rows[j].hash /\ rows'[j].status = rows[j].status
    BY <1>1, <1>2 DEF Expire
  <2>2. QED
    BY <1>1, <2>1, IntakeStutters
<1>3. CASE Serve(k)
  <2>1. PICK s \in Served : rows' = [rows EXCEPT ![k].status = s]
    <3>1. PICK edge \in ALLOWED : rows' = [rows EXCEPT ![k].status = edge[2]]
      BY <1>3 DEF Serve
    <3>2. edge[2] \in Served
      BY DEF ALLOWED, Served
    <3> QED
      BY <3>1, <3>2
  <2>2. \A j \in Keys : rows'[j].hash = rows[j].hash
                        /\ rows'[j].status = IF j = k THEN s ELSE rows[j].status
    BY <1>1, <2>1
  <2>3. rows[k].status \in Served
    BY <1>3 DEF Serve
  <2>4. \A j \in Keys : StageOf(rows'[j].status) = StageOf(rows[j].status)
    BY <2>2, <2>3, StageNames
  <2>5. QED
    BY <1>1, <2>2, <2>4, IntakeStutters
<1>4. QED
  BY <1>2, <1>3

(* The handlers implement Intake.tla: whatever the races, errors and        *)
(* crashes, a key is taken once, its object is kept once and from the file  *)
(* that took it, and it is queued after that (app.py:145-249, 432-484).     *)
THEOREM UploadRefinement == Spec => ImplementsIntake
<1>1. Init => Intake!IntakeInit
  <2> SUFFICES ASSUME Init PROVE Intake!IntakeInit
    OBVIOUS
  <2>1. StageMap = [k \in Keys |-> "free"] /\ OwnerMap = [k \in Keys |-> NoFile]
    BY StageNames DEF Init, StageMap, OwnerMap
  <2>2. QED
    BY <2>1 DEF Init, Intake!IntakeInit, StageMap, OwnerMap
<1>2. UploadInv /\ [Next]_uploadVars => [Intake!IntakeNext]_(Intake!intakeVars)
  <2> SUFFICES ASSUME UploadInv, [Next]_uploadVars
               PROVE  Intake!IntakeNext \/ UNCHANGED Intake!intakeVars
    OBVIOUS
  <2>1. CASE UNCHANGED <<rows, object, told>>
    BY <2>1, IntakeStutters
  <2>2. ASSUME NEW c \in Clients, Submit(c) \/ Handle(c) \/ WriteFails(c) \/ Error(c) \/ Crash(c)
        PROVE  Intake!IntakeNext \/ UNCHANGED Intake!intakeVars
    BY <2>1, <2>2, CreatingRefines, WritingRefines, AdvancingRefines, AnsweringRefines
       DEF Handle, Submit, Find, Probe, WriteFails, Error, Crash
  <2>3. QED
    BY <2>1, <2>2, OutsideRefines DEF Next, uploadVars
<1>3. QED
  BY <1>1, <1>2, UploadInvariant, PTL DEF Spec, ImplementsIntake, Intake!IntakeSpec

(* What the handlers did is never undone, neither by a late handler nor by  *)
(* a retry: no queued submission is uploaded again, no refused one queued,  *)
(* no key handed to another file (db.py:266-336, app.py:145-249).           *)
THEOREM NothingIsUndone == Spec => Intake!NothingUndone
<1>1. [Intake!IntakeNext]_(Intake!intakeVars)
        => [/\ \A k \in Keys :
                 /\ StageMap[k] # "free" => StageMap'[k] # "free" /\ OwnerMap'[k] = OwnerMap[k]
                 /\ StageMap[k] \in {"queued", "refused"} => StageMap'[k] = StageMap[k]
                 /\ object[k] # NoFile => object'[k] = object[k]
            /\ told \subseteq told']_(Intake!intakeVars)
  <2> SUFFICES ASSUME NEW k \in Keys,
                      \/ Intake!Take(k) \/ Intake!Refuse(k) \/ Intake!Keep(k)
                      \/ Intake!Queue(k) \/ Intake!Answer(k)
               PROVE  /\ \A j \in Keys :
                           /\ StageMap[j] # "free" => StageMap'[j] # "free" /\ OwnerMap'[j] = OwnerMap[j]
                           /\ StageMap[j] \in {"queued", "refused"} => StageMap'[j] = StageMap[j]
                           /\ object[j] # NoFile => object'[j] = object[j]
                      /\ told \subseteq told'
    BY DEF Intake!IntakeNext
  <2>0. DOMAIN StageMap = Keys /\ DOMAIN OwnerMap = Keys
    BY DEF StageMap, OwnerMap
  <2>1. CASE Intake!Take(k)
    <3>1. /\ StageMap[k] = "free" /\ StageMap' = [StageMap EXCEPT ![k] = "taken"]
          /\ \E f \in Files : OwnerMap' = [OwnerMap EXCEPT ![k] = f]
          /\ object' = object /\ told' = told
      BY <2>1 DEF Intake!Take, Intake!Enter, StageMap, OwnerMap
    <3>2. QED
      BY <2>0, <3>1
  <2>2. CASE Intake!Refuse(k)
    <3>1. /\ StageMap[k] = "free" /\ StageMap' = [StageMap EXCEPT ![k] = "refused"]
          /\ \E f \in Files : OwnerMap' = [OwnerMap EXCEPT ![k] = f]
          /\ object' = object /\ told' = told
      BY <2>2 DEF Intake!Refuse, Intake!Enter, StageMap, OwnerMap
    <3>2. QED
      BY <2>0, <3>1
  <2>3. CASE Intake!Keep(k)
    <3>1. /\ StageMap' = StageMap /\ OwnerMap' = OwnerMap /\ told' = told
          /\ object[k] = NoFile /\ \E f : object' = [object EXCEPT ![k] = f]
      BY <2>3 DEF Intake!Keep, StageMap, OwnerMap
    <3>2. QED
      BY <3>1
  <2>4. CASE Intake!Queue(k)
    <3>1. /\ StageMap[k] = "taken" /\ StageMap' = [StageMap EXCEPT ![k] = "queued"]
          /\ OwnerMap' = OwnerMap /\ object' = object /\ told' = told
      BY <2>4 DEF Intake!Queue, Intake!Enter, StageMap, OwnerMap
    <3>2. QED
      BY <2>0, <3>1
  <2>5. CASE Intake!Answer(k)
    <3>1. /\ StageMap' = StageMap /\ OwnerMap' = OwnerMap /\ object' = object
          /\ told \subseteq told'
      BY <2>5 DEF Intake!Answer, StageMap, OwnerMap
    <3>2. QED
      BY <3>1
  <2>6. QED
    BY <2>1, <2>2, <2>3, <2>4, <2>5
<1>2. QED
  BY <1>1, UploadRefinement, PTL
     DEF ImplementsIntake, Intake!IntakeSpec, Intake!NothingUndone, StageMap, OwnerMap
=============================================================================
