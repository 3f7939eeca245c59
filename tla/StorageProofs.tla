---------------------------- MODULE StorageProofs ----------------------------
(***************************************************************************)
(* What the program keeps: the pool of PikPak accounts in its memory and   *)
(* its table, proved for any ids, users, administrators, completions,      *)
(* limit, months, sign-ins, faults and kills, and the files of the storage *)
(* under a restore, for any files, restores, failures, kills and losses of *)
(* power.                                                                  *)
(***************************************************************************)
EXTENDS AccountPool, RestoreJournal, DataLemmas

-----------------------------------------------------------------------------
(* AccountPool.                                                            *)


\* The lock is held by the one completion that books its traffic, and while the
\* process is down there is nothing in memory.
LockHeld ==
    /\ \A c \in Charges : c = locker <=> stage[c] \in {"locked", "committed", "failed"}
    /\ locker # NoCharge => poolUp /\ Present(account[locker]) /\ update \in Records
    /\ ~poolUp => order = <<>> /\ calls = [c \in Callers |-> NoCall]

\* The record of an account as it is, or as a completion that has committed will
\* leave it.
Committed(id) == locker # NoCharge /\ stage[locker] = "committed" /\ id = account[locker]
Now(id) == IF Committed(id) THEN update ELSE accounts[id].record

\* PoolIsDurable, also while a completion holds the lock.
TableFollows ==
    poolUp /\ ~inDoubt =>
        /\ Len(rows) = Len(order)
        /\ \A i \in 1 .. Len(order) : rows[i].id = order[i] /\ rows[i].record = Now(order[i])

DeletedInv == deleted \subseteq issued /\ DeletedStaysDeleted

Billed(id) == {c \in Charges : <<c, id>> \in billed}

\* No record is of a month that has not begun.
PeriodsBegun ==
    /\ \A id \in Pooled : accounts[id].record.period <= month
    /\ \A i \in DOMAIN rows : rows[i].record.period <= month
    /\ \A c \in Charges : stamp[c] <= month
    /\ locker # NoCharge => update.period <= month

\* TrafficIsBooked, also of the table and while a completion holds the lock; that
\* an account which is not there but is being added has nothing booked; and what
\* the completion that holds the lock is about to book.
BookedNow == \A id \in Pooled \ disputed : EffectiveUsed(Now(id)) = Billed(id)
BookedRows == \A i \in DOMAIN rows : rows[i].id \notin disputed => EffectiveUsed(rows[i].record) = Billed(rows[i].id)
BookedAdds == \A c \in Callers : calls[c].kind = "add" /\ ~Present(calls[c].id) => Billed(calls[c].id) = {}
BookedUpdate ==
    locker # NoCharge /\ stage[locker] = "locked" /\ account[locker] \notin disputed =>
        EffectiveUsed(update) = Billed(account[locker]) \union (IF stamp[locker] = month THEN {locker} ELSE {})
BookedInv == billed \subseteq Charges \X issued /\ BookedNow /\ BookedRows /\ BookedAdds /\ BookedUpdate

-----------------------------------------------------------------------------
(* The data.                                                               *)

\* An account that is there is told from none by its client.
LEMMA AccountForm ==
    /\ \A a \in Accounts : a # NoAccount /\ a.record \in Records /\ a.client \in Clients
    /\ \A a \in Accounts : \A r \in Records : [a EXCEPT !.record = r] \in Accounts
    /\ \A r \in Records, m, n \in Clients : [record |-> r, client |-> m, premium |-> n] \in Accounts
    /\ 0 \in Clients /\ NotAsked \notin Clients
<1>1. NotAsked \notin Clients /\ 0 \in Clients
  BY PoolAssumption DEF Clients, NotAsked
<1> QED
  BY <1>1 DEF Accounts, NoAccount

\* A new account has used nothing.
LEMMA NewRecordType ==
    ASSUME PoolTypeOK, NEW user \in Users
    PROVE  NewRecord(user) \in Records
  BY DEF PoolTypeOK, NewRecord, Records

Entries == [id : Ids, record : Records]
UniqueIds(stored) == \A i, k \in DOMAIN stored : stored[i].id = stored[k].id => i = k

\* A map and an order that are saved together.
Matching(accts, ids) ==
    /\ accts \in [Ids -> Accounts \union {NoAccount}]
    /\ ids \in Seq(Ids) /\ IsInjective(ids)
    /\ Range(ids) = {id \in Ids : accts[id] # NoAccount}

\* The rows that they are saved as.
LEMMA PoolRowsForm ==
    ASSUME NEW accts, NEW ids, Matching(accts, ids)
    PROVE  /\ PoolRows(accts, ids) \in Seq(Entries)
           /\ DOMAIN PoolRows(accts, ids) = 1 .. Len(ids) /\ Len(PoolRows(accts, ids)) = Len(ids)
           /\ \A i \in 1 .. Len(ids) :
                 /\ PoolRows(accts, ids)[i] = [id |-> ids[i], record |-> accts[ids[i]].record]
                 /\ ids[i] \in Ids /\ accts[ids[i]] \in Accounts
           /\ UniqueIds(PoolRows(accts, ids))
           /\ {PoolRows(accts, ids)[i].id : i \in DOMAIN PoolRows(accts, ids)} = {id \in Ids : accts[id] # NoAccount}
<1>1. Len(ids) \in Nat /\ DOMAIN ids = 1 .. Len(ids) /\ \A i \in 1 .. Len(ids) : ids[i] \in Ids
  BY LenProperties, ElementOfSeq DEF Matching
<1>2. \A i \in 1 .. Len(ids) : accts[ids[i]] \in Accounts
  BY <1>1 DEF Matching, Range
<1> DEFINE made == PoolRows(accts, ids)
<1>3. made = [i \in 1 .. Len(ids) |-> [id |-> ids[i], record |-> accts[ids[i]].record]]
  BY <1>1 DEF PoolRows
<1>4. \A i \in 1 .. Len(ids) : [id |-> ids[i], record |-> accts[ids[i]].record] \in Entries
  BY <1>1, <1>2, AccountForm DEF Entries
<1> HIDE DEF made
<1>5. made \in Seq(Entries) /\ DOMAIN made = 1 .. Len(ids) /\ Len(made) = Len(ids)
  BY <1>1, <1>3, <1>4
<1>6. UniqueIds(made)
  BY <1>1, <1>3, <1>5 DEF UniqueIds, Matching, IsInjective
<1>7. {made[i].id : i \in DOMAIN made} = Range(ids)
  BY <1>1, <1>3, <1>5 DEF Range
<1> QED
  BY <1>1, <1>2, <1>3, <1>5, <1>6, <1>7 DEF made, Matching

\* What a save may leave, of a map that has no other accounts than the pool.
Keeping(accts, ids, kept) ==
    /\ Matching(accts, ids)
    /\ \A id \in Ids : accts[id] # NoAccount => Present(id) /\ accts[id].record = accounts[id].record
    /\ \A id \in kept \intersect Pooled : accts[id] # NoAccount

RowsTyped == rows \in Seq(Entries) /\ UniqueIds(rows) /\ RowIds \subseteq issued
MemoryTyped ==
    /\ Matching(accounts, order)
    /\ Pooled \subseteq issued /\ sameState \subseteq Pooled
CallsTyped ==
    /\ issued \subseteq Ids
    /\ calls \in [Callers -> [kind : {"idle"}]
                     \union [kind : {"add"}, id : issued, user : Users]
                     \union [kind : {"login"}, id : issued]]
BookingTyped ==
    /\ stage \in [Charges -> {"new", "resolving", "completing", "locked", "committed", "failed", "done"}]
    /\ account \in [Charges -> Ids]
    /\ stamp \in [Charges -> 1 .. MaxMonth]
    /\ locker \in Charges \union {NoCharge}
    /\ update \in Records \union {NoUpdate}
    /\ billed \subseteq Charges \X Ids
    /\ disputed \subseteq Ids
RestTyped ==
    /\ poolUp \in BOOLEAN /\ inDoubt \in BOOLEAN
    /\ asked \in [Ids -> Clients \union {NotAsked}]
    /\ month \in 1 .. MaxMonth /\ logins \in Clients
    /\ poolFaults \in 0 .. MaxFaults /\ poolKills \in 0 .. MaxKills
    /\ deleted \subseteq Ids

\* The types of the pool, part by part.
LEMMA TypeParts == PoolTypeOK <=> RowsTyped /\ MemoryTyped /\ CallsTyped /\ BookingTyped /\ RestTyped
  BY DEF PoolTypeOK, RowsTyped, MemoryTyped, CallsTyped, BookingTyped, RestTyped, Matching, UniqueIds, Entries,
         Pooled, Present

\* And after a step.
LEMMA TypePartsNext == RowsTyped' /\ MemoryTyped' /\ CallsTyped' /\ BookingTyped' /\ RestTyped' => PoolTypeOK'
  BY DEF PoolTypeOK, RowsTyped, MemoryTyped, CallsTyped, BookingTyped, RestTyped, Matching, UniqueIds, Entries,
         Pooled, Present

\* A save leaves matching rows and memory, whether it succeeds or not.
LEMMA SaveTypes ==
    ASSUME RowsTyped, MemoryTyped, NEW accts, NEW ids, NEW kept, Keeping(accts, ids, kept),
           SaveOrRollback(accts, ids, kept), UNCHANGED issued
    PROVE  /\ RowsTyped' /\ MemoryTyped'
           /\ accounts' \in {accounts, accts} /\ rows' \in {rows, PoolRows(accts, ids)}
<1>1. {id \in Ids : accts[id] # NoAccount} \subseteq Pooled
  BY DEF Keeping, Pooled
<1>2. RowsTyped'
  <2>1. rows' \in {rows, PoolRows(accts, ids)}
    BY DEF SaveOrRollback, Saved, NotSaved
  <2>2. CASE rows' = rows
    BY <2>2 DEF RowsTyped, RowIds, UniqueIds
  <2>3. CASE rows' = PoolRows(accts, ids)
    <3> DEFINE made == PoolRows(accts, ids)
    <3>1. made \in Seq(Entries) /\ UniqueIds(made) /\ {made[i].id : i \in DOMAIN made} \subseteq Pooled
      BY <1>1, PoolRowsForm DEF Keeping
    <3> HIDE DEF made
    <3> QED
      BY <2>3, <3>1 DEF made, RowsTyped, RowIds, UniqueIds, MemoryTyped
  <2> QED
    BY <2>1, <2>2, <2>3
<1>3. MemoryTyped'
  <2>1. CASE Saved(accts, ids, kept)
    BY <1>1, <2>1 DEF Saved, MemoryTyped, Keeping, Matching, Pooled, Present
  <2>2. CASE NotSaved(accts, ids)
    BY <2>2 DEF NotSaved, RollBack, MemoryTyped, Matching, Pooled, Present
  <2> QED
    BY <2>1, <2>2 DEF SaveOrRollback
<1> QED
  BY <1>2, <1>3 DEF SaveOrRollback, Saved, NotSaved, RollBack

\* The saves of the pool are of the accounts there are.
LEMMA TouchKeeps ==
    ASSUME MemoryTyped
    PROVE  Keeping(accounts, order, Ids)
  BY DEF MemoryTyped, Keeping, Matching, Pooled, Present

\* Deleting an account keeps the memory in order.
LEMMA DeleteKeeps ==
    ASSUME MemoryTyped, NEW id \in Ids, Present(id)
    PROVE  Keeping([accounts EXCEPT ![id] = NoAccount],
                   RemoveAt(order, CHOOSE i \in DOMAIN order : order[i] = id), Ids \ {id})
<1> DEFINE accts == [accounts EXCEPT ![id] = NoAccount]
           rest == RemoveAt(order, CHOOSE i \in DOMAIN order : order[i] = id)
<1>1. id \in Range(order) /\ order \in Seq(Ids) /\ IsInjective(order)
      /\ Range(order) = {k \in Ids : accounts[k] # NoAccount}
  BY DEF MemoryTyped, Matching, Present
<1>2. rest \in Seq(Ids) /\ IsInjective(rest) /\ Range(rest) = Range(order) \ {id}
  BY <1>1, RemovedFrom
<1> HIDE DEF rest
<1>3. accts \in [Ids -> Accounts \union {NoAccount}] /\ accts[id] = NoAccount
      /\ \A k \in Ids \ {id} : accts[k] = accounts[k]
  BY DEF MemoryTyped, Matching
<1> HIDE DEF accts
<1>4. Keeping(accts, rest, Ids \ {id})
  BY <1>1, <1>2, <1>3 DEF Keeping, Matching, Pooled, Present
<1> QED
  BY <1>4 DEF accts, rest

\* So does a sign-in.
LEMMA LoginKeeps ==
    ASSUME MemoryTyped, NEW id \in Ids, Present(id), NEW client \in Clients
    PROVE  Keeping([accounts EXCEPT ![id] = SignedIn(id, client)],
                   IF Present(id) THEN order ELSE Append(order, id), Ids)
<1> DEFINE accts == [accounts EXCEPT ![id] = SignedIn(id, client)]
<1>1. accounts[id] \in Accounts /\ SignedIn(id, client).record = accounts[id].record /\ SignedIn(id, client) \in Accounts
  BY AccountForm DEF MemoryTyped, Matching, Present, SignedIn
<1>2. accts \in [Ids -> Accounts \union {NoAccount}] /\ accts[id] = SignedIn(id, client)
      /\ \A k \in Ids \ {id} : accts[k] = accounts[k]
  BY <1>1 DEF MemoryTyped, Matching
<1> HIDE DEF accts
<1>3. SignedIn(id, client) # NoAccount
  BY <1>1, AccountForm
<1>4. Keeping(accts, order, Ids)
  BY <1>1, <1>2, <1>3 DEF MemoryTyped, Keeping, Matching, Pooled, Present
<1> QED
  BY <1>4 DEF accts

Published(news) == [id \in Ids |-> IF id \in news THEN [accounts[id] EXCEPT !.premium = asked[id]] ELSE accounts[id]]

\* So does publishing what a premium check was answered.
LEMMA PublishKeeps ==
    ASSUME MemoryTyped, RestTyped, NEW news \in SUBSET Ids, \A id \in news : Publishes(id)
    PROVE  Keeping(Published(news), order, Ids)
<1>1. \A id \in news : accounts[id] \in Accounts
  BY DEF MemoryTyped, Matching, Present, Publishes
<1>2. ASSUME NEW id \in Ids
      PROVE  /\ Published(news)[id] \in Accounts \union {NoAccount}
             /\ Published(news)[id] = NoAccount <=> accounts[id] = NoAccount
             /\ accounts[id] # NoAccount => Published(news)[id].record = accounts[id].record
  <2>1. CASE id \in news
    <3>1. Published(news)[id] = [accounts[id] EXCEPT !.premium = asked[id]] /\ asked[id] \in Clients \union {NotAsked}
      BY <2>1 DEF Published, RestTyped
    <3>2. Published(news)[id] \in Accounts /\ Published(news)[id].record = accounts[id].record
      BY <1>1, <2>1, <3>1 DEF Accounts
    <3> QED
      BY <1>1, <2>1, <3>2, AccountForm
  <2>2. CASE id \notin news
    BY <2>2 DEF Published, MemoryTyped, Matching
  <2> QED
    BY <2>1, <2>2
<1>3. Published(news) = [id \in Ids |-> Published(news)[id]]
  BY DEF Published
<1> QED
  BY <1>2, <1>3 DEF MemoryTyped, Keeping, Matching, Pooled, Present

\* The row in its place, or at the end.
LEMMA UpsertRows ==
    ASSUME RowsTyped, NEW id \in Ids, NEW record \in Records, id \in issued, issued' = issued, Upsert(id, record)
    PROVE  /\ RowsTyped' /\ RowIds' = RowIds \union {id}
           /\ id \in RowIds => /\ Len(rows') = Len(rows)
                               /\ \A i \in 1 .. Len(rows) :
                                     rows'[i] = IF rows[i].id = id THEN [id |-> id, record |-> record] ELSE rows[i]
           /\ id \notin RowIds => /\ Len(rows') = Len(rows) + 1
                                  /\ \A i \in 1 .. Len(rows) : rows'[i] = rows[i]
                                  /\ rows'[Len(rows) + 1] = [id |-> id, record |-> record]
<1> DEFINE new == [id |-> id, record |-> record]
<1>1. new \in Entries /\ new.id = id
  BY DEF Entries
<1> HIDE DEF new
<1>2. /\ rows \in Seq(Entries) /\ Len(rows) \in Nat /\ DOMAIN rows = 1 .. Len(rows)
      /\ \A i \in 1 .. Len(rows) : rows[i] \in Entries
  BY LenProperties, ElementOfSeq DEF RowsTyped
<1>3. CASE id \in RowIds
  <2> DEFINE after == [i \in 1 .. Len(rows) |-> IF rows[i].id = id THEN new ELSE rows[i]]
  <2>1. rows' = after
    BY <1>2, <1>3 DEF Upsert, new
  <2>2. \A i \in 1 .. Len(rows) : after[i] \in Entries /\ after[i].id = rows[i].id
    BY <1>1, <1>2
  <2>3. after \in Seq(Entries) /\ Len(after) = Len(rows) /\ DOMAIN after = 1 .. Len(rows)
    BY <1>2, <2>2
  <2>4. \A i \in 1 .. Len(rows) : after[i] = IF rows[i].id = id THEN new ELSE rows[i]
    OBVIOUS
  <2> HIDE DEF after
  <2>5. UniqueIds(after) /\ {after[i].id : i \in DOMAIN after} = RowIds
    BY <1>2, <2>2, <2>3 DEF RowsTyped, UniqueIds, RowIds
  <2>6. RowIds' = RowIds
    BY <2>1, <2>5 DEF RowIds
  <2>7. RowsTyped'
    BY <2>1, <2>3, <2>5, <2>6 DEF RowsTyped
  <2> QED
    BY <1>3, <2>1, <2>3, <2>4, <2>6, <2>7 DEF new
<1>4. CASE id \notin RowIds
  <2> DEFINE after == Append(rows, new)
  <2>1. rows' = after
    BY <1>4 DEF Upsert, new
  <2>2. /\ after \in Seq(Entries) /\ Len(after) = Len(rows) + 1
        /\ \A i \in 1 .. Len(rows) : after[i] = rows[i]
        /\ after[Len(rows) + 1] = new
    BY <1>1, <1>2, AppendProperties
  <2> HIDE DEF after
  <2>3. DOMAIN after = 1 .. Len(rows) + 1 /\ \A i \in 1 .. Len(rows) + 1 : i \in 1 .. Len(rows) \/ i = Len(rows) + 1
    BY <1>2, <2>2, LenProperties
  <2>4. Len(rows) + 1 \in 1 .. Len(rows) + 1 /\ 1 .. Len(rows) \subseteq 1 .. Len(rows) + 1
    BY <1>2
  <2>5. \A i \in 1 .. Len(rows) : rows[i].id \in RowIds
    BY <1>2 DEF RowIds
  <2>6. UniqueIds(after)
    BY <1>1, <1>2, <1>4, <2>2, <2>3, <2>5 DEF RowsTyped, UniqueIds
  <2>7. {after[i].id : i \in DOMAIN after} = RowIds \union {id}
    BY <1>1, <1>2, <2>2, <2>3, <2>4 DEF RowIds
  <2>8. RowIds' = RowIds \union {id}
    BY <2>1, <2>7 DEF RowIds
  <2>9. RowsTyped'
    BY <2>1, <2>2, <2>6, <2>8 DEF RowsTyped
  <2> QED
    BY <1>4, <2>1, <2>2, <2>8, <2>9 DEF new
<1> QED
  BY <1>3, <1>4

\* What an addition puts in the place of an account.
LEMMA AddedType ==
    ASSUME MemoryTyped, RestTyped, NEW id \in Ids, NEW user \in Users, NEW client \in Clients
    PROVE  /\ Added(id, user, client) \in Accounts
           /\ Added(id, user, client).premium = client /\ Added(id, user, client).client = client
           /\ Added(id, user, client).record \in Records
           /\ Present(id) => /\ Added(id, user, client).record.used = accounts[id].record.used
                             /\ Added(id, user, client).record.period = accounts[id].record.period
           /\ ~ Present(id) => Added(id, user, client).record = NewRecord(user)
<1>1. NewRecord(user) \in Records
  BY DEF RestTyped, NewRecord, Records
<1>2. Present(id) => accounts[id].record \in Records
  BY AccountForm DEF MemoryTyped, Matching, Present
<1> QED
  BY <1>1, <1>2, AccountForm DEF Added, Records

\* What an addition leaves.
LEMMA AddEndsLeaves ==
    ASSUME PoolTypeOK, NEW c \in Callers, AddEnds(c)
    PROVE  LET id == calls[c].id IN
             /\ id \in Ids /\ id \in issued /\ calls[c].user \in Users /\ logins + 1 \in Clients
             /\ RowsTyped' /\ MemoryTyped'
<1> DEFINE id == calls[c].id
           new == Added(id, calls[c].user, logins + 1)
<1> USE TypeParts
<1>1. calls[c] \in [kind : {"add"}, id : issued, user : Users] /\ issued \subseteq Ids
  BY DEF AddEnds, CallsTyped
<1>2. logins + 1 \in Clients
  BY PoolAssumption DEF AddEnds, RestTyped, Clients
<1>3. id \in Ids /\ id \in issued /\ calls[c].user \in Users
  BY <1>1
<1>4. new \in Accounts /\ new.record \in Records /\ new # NoAccount
  BY <1>2, <1>3, AddedType, AccountForm
<1> HIDE DEF new
<1>5. issued' = issued /\ \/ /\ Upsert(id, new.record)
                             /\ accounts' = [accounts EXCEPT ![id] = new]
                             /\ order' = IF Present(id) THEN order ELSE Append(order, id)
                             /\ sameState' = sameState \ {id}
                          \/ /\ UNCHANGED pool
                             /\ UNCHANGED rows \/ Upsert(id, new.record)
  BY DEF AddEnds, new
<1>6. RowsTyped'
  <2>1. CASE UNCHANGED rows
    BY <1>5, <2>1 DEF RowsTyped, UniqueIds, RowIds
  <2>2. CASE Upsert(id, new.record)
    <3> HIDE DEF id
    <3> QED
      BY <1>3, <1>4, <1>5, <2>2, UpsertRows
  <2> QED
    BY <1>5, <2>1, <2>2
<1>7. MemoryTyped'
  <2>1. CASE UNCHANGED pool
    BY <1>5, <2>1 DEF pool, MemoryTyped, Matching, Pooled, Present
  <2>2. CASE /\ accounts' = [accounts EXCEPT ![id] = new]
             /\ order' = IF Present(id) THEN order ELSE Append(order, id)
             /\ sameState' = sameState \ {id}
    <3> HIDE DEF id
    <3>1. /\ accounts' \in [Ids -> Accounts \union {NoAccount}] /\ accounts'[id] = new
          /\ \A k \in Ids \ {id} : accounts'[k] = accounts[k]
      BY <1>3, <1>4, <2>2 DEF MemoryTyped, Matching
    <3>2. Pooled' = Pooled \union {id}
      BY <1>3, <1>4, <3>1 DEF Pooled, Present
    <3>3. order \in Seq(Ids) /\ IsInjective(order) /\ Range(order) = Pooled
      BY DEF MemoryTyped, Matching, Pooled, Present
    <3>4. order' \in Seq(Ids) /\ IsInjective(order') /\ Range(order') = Pooled \union {id}
      <4>1. CASE Present(id)
        BY <1>3, <2>2, <3>3, <4>1 DEF Pooled
      <4>2. CASE ~ Present(id)
        <5>1. id \notin Range(order)
          BY <3>3, <4>2 DEF Pooled
        <5> QED
          BY <1>3, <2>2, <3>3, <4>2, <5>1, AppendedTo
      <4> QED
        BY <4>1, <4>2
    <3>5. sameState' \subseteq Pooled' /\ Pooled' \subseteq issued'
      BY <1>3, <1>5, <2>2, <3>2 DEF MemoryTyped
    <3> QED
      BY <3>1, <3>2, <3>4, <3>5 DEF MemoryTyped, Matching, Pooled, Present
  <2> QED
    BY <1>5, <2>1, <2>2
<1> QED
  BY <1>2, <1>3, <1>6, <1>7

\* What a start makes of the stored rows.
LEMMA LoadLeaves ==
    ASSUME NEW stored \in Seq(Entries), UniqueIds(stored), Load(stored)
    PROVE  /\ rows' = stored /\ Matching(accounts, order)'
           /\ Pooled' = {stored[i].id : i \in DOMAIN stored}
           /\ Len(order') = Len(stored) /\ Len(stored) \in Nat
           /\ \A i \in 1 .. Len(stored) :
                 /\ order'[i] = stored[i].id /\ stored[i] \in Entries /\ Present(stored[i].id)'
                 /\ accounts'[stored[i].id] = [record |-> stored[i].record, client |-> 0, premium |-> NotAsked]
<1> DEFINE ids == [i \in DOMAIN stored |-> stored[i].id]
           found(id) == CHOOSE i \in DOMAIN ids : ids[i] = id
           made(id) == [record |-> stored[found(id)].record, client |-> 0, premium |-> NotAsked]
<1>1. /\ Len(stored) \in Nat /\ DOMAIN stored = 1 .. Len(stored)
      /\ \A i \in 1 .. Len(stored) : stored[i] \in Entries
  BY LenProperties, ElementOfSeq
<1>2. /\ rows' = stored /\ order' = ids
      /\ accounts' = [id \in Ids |-> IF id \in Range(ids) THEN made(id) ELSE NoAccount]
  BY DEF Load
<1>3. /\ ids \in Seq(Ids) /\ Len(ids) = Len(stored) /\ DOMAIN ids = 1 .. Len(stored)
      /\ \A i \in 1 .. Len(stored) : ids[i] = stored[i].id
  <2>1. ids = [i \in 1 .. Len(stored) |-> stored[i].id] /\ \A i \in 1 .. Len(stored) : stored[i].id \in Ids
    BY <1>1 DEF Entries
  <2> QED
    BY <1>1, <2>1
<1>4. IsInjective(ids) /\ Range(ids) = {stored[i].id : i \in DOMAIN stored} /\ Range(ids) \subseteq Ids
  <2> HIDE DEF ids
  <2> QED
    BY <1>1, <1>3 DEF UniqueIds, IsInjective, Range, Entries
<1>5. \A i \in 1 .. Len(stored) : found(stored[i].id) = i
  <2> HIDE DEF ids
  <2> QED
    BY <1>1, <1>3, <1>4 DEF IsInjective
<1> HIDE DEF ids, found
<1>6. \A id \in Range(ids) : \E i \in 1 .. Len(stored) : id = stored[i].id
  BY <1>1, <1>4
<1>7. \A i \in 1 .. Len(stored) :
         /\ made(stored[i].id) = [record |-> stored[i].record, client |-> 0, premium |-> NotAsked]
         /\ made(stored[i].id) \in Accounts /\ made(stored[i].id) # NoAccount
  <2> SUFFICES ASSUME NEW i \in 1 .. Len(stored)
               PROVE  /\ made(stored[i].id) = [record |-> stored[i].record, client |-> 0, premium |-> NotAsked]
                      /\ made(stored[i].id) \in Accounts /\ made(stored[i].id) # NoAccount
    OBVIOUS
  <2>1. made(stored[i].id) = [record |-> stored[i].record, client |-> 0, premium |-> NotAsked]
    BY <1>5
  <2>2. stored[i].record \in Records
    BY <1>1 DEF Entries
  <2>3. [record |-> stored[i].record, client |-> 0, premium |-> NotAsked] \in Accounts
    BY <2>2, AccountForm DEF Accounts
  <2> QED
    BY <2>1, <2>3, AccountForm
<1> HIDE DEF made
<1>8. /\ accounts' \in [Ids -> Accounts \union {NoAccount}]
      /\ \A id \in Ids : accounts'[id] = IF id \in Range(ids) THEN made(id) ELSE NoAccount
      /\ \A id \in Ids : accounts'[id] # NoAccount <=> id \in Range(ids)
  BY <1>2, <1>4, <1>6, <1>7
<1>9. Range(ids) = {id \in Ids : accounts'[id] # NoAccount}
  BY <1>4, <1>8
<1>10. Matching(accounts, order)'
  BY <1>2, <1>3, <1>4, <1>8, <1>9 DEF Matching
<1>11. Pooled' = {stored[i].id : i \in DOMAIN stored}
  BY <1>4, <1>9 DEF Pooled, Present
<1>12. ASSUME NEW i \in 1 .. Len(stored)
       PROVE  /\ order'[i] = stored[i].id /\ Present(stored[i].id)'
              /\ accounts'[stored[i].id] = [record |-> stored[i].record, client |-> 0, premium |-> NotAsked]
  <2>1. stored[i].id \in Range(ids) /\ stored[i].id \in Ids
    BY <1>1, <1>4
  <2> QED
    BY <1>2, <1>3, <1>7, <1>8, <2>1 DEF Present
<1> QED
  BY <1>1, <1>2, <1>3, <1>10, <1>11, <1>12

\* The rows that a start loads are those stored, or the first account's.
LEMMA StartLoads ==
    ASSUME PoolTypeOK, Start
    PROVE  \E stored \in Seq(Entries) :
              /\ UniqueIds(stored) /\ Load(stored)
              /\ \/ stored = rows /\ issued' = issued
                 \/ \E id \in Ids \ issued :
                       /\ issued' = issued \union {id} /\ rows = <<>>
                       /\ stored = <<[id |-> id, record |-> NewRecord(Configured)]>>
<1> USE TypeParts
<1>1. CASE Load(rows) /\ UNCHANGED issued
  BY <1>1 DEF RowsTyped
<1>2. CASE Bootstrap
  <2>1. PICK id \in Ids \ issued : /\ rows = <<>> /\ issued' = issued \union {id}
                                   /\ Load(<<[id |-> id, record |-> NewRecord(Configured)]>>)
    BY <1>2 DEF Bootstrap
  <2> DEFINE first == [id |-> id, record |-> NewRecord(Configured)]
  <2>2. first \in Entries
    BY PoolAssumption, NewRecordType DEF Entries
  <2> HIDE DEF first
  <2>3. <<first>> \in Seq(Entries) /\ UniqueIds(<<first>>)
    BY <2>2 DEF UniqueIds
  <2> QED
    BY <2>1, <2>3 DEF first
<1> QED
  BY <1>1, <1>2 DEF Start

\* The row of a completion gets its new record.
LEMMA WriteRows ==
    ASSUME RowsTyped, NEW c \in Charges, update \in Records, issued' = issued, Write(c)
    PROVE  /\ RowsTyped' /\ RowIds' = RowIds /\ Len(rows') = Len(rows)
           /\ \A i \in 1 .. Len(rows) :
                 /\ rows'[i].id = rows[i].id
                 /\ rows'[i].record = IF rows[i].id = account[c] THEN update ELSE rows[i].record
<1> DEFINE after == [i \in 1 .. Len(rows) |->
                       IF rows[i].id = account[c] THEN [rows[i] EXCEPT !.record = update] ELSE rows[i]]
<1>1. /\ rows \in Seq(Entries) /\ Len(rows) \in Nat /\ DOMAIN rows = 1 .. Len(rows)
      /\ \A i \in 1 .. Len(rows) : rows[i] \in Entries
  BY LenProperties, ElementOfSeq DEF RowsTyped
<1>2. rows' = after
  BY <1>1 DEF Write
<1>3. \A i \in 1 .. Len(rows) :
         /\ after[i] \in Entries /\ after[i].id = rows[i].id
         /\ after[i].record = IF rows[i].id = account[c] THEN update ELSE rows[i].record
  BY <1>1 DEF Entries
<1>4. after \in Seq(Entries) /\ Len(after) = Len(rows) /\ DOMAIN after = 1 .. Len(rows)
  BY <1>1, <1>3
<1> HIDE DEF after
<1>5. UniqueIds(after) /\ {after[i].id : i \in DOMAIN after} = RowIds
  BY <1>1, <1>3, <1>4 DEF RowsTyped, UniqueIds, RowIds
<1>6. RowIds' = RowIds
  BY <1>2, <1>5 DEF RowIds
<1> QED
  BY <1>2, <1>3, <1>4, <1>5, <1>6 DEF RowsTyped

\* What a booking makes of a record: a new period starts from nothing.
LEMMA BookedType ==
    ASSUME PoolTypeOK, NEW c \in Charges, NEW record \in Records
    PROVE  /\ Booked(c, record) \in Records
           /\ Booked(c, record).period = stamp[c]
           /\ Booked(c, record).used = IF record.period = stamp[c] THEN record.used \union {c} ELSE {c}
<1>1. stamp[c] \in 1 .. MaxMonth
  BY DEF PoolTypeOK
<1> QED
  BY <1>1 DEF Booked, Records

-----------------------------------------------------------------------------
(* Types.                                                                  *)

\* Where the accounts are the same, so are the types of what mirrors them.
LEMMA SamePool ==
    ASSUME PoolTypeOK, UNCHANGED <<accounts, order>>, issued \subseteq issued'
    PROVE  /\ rows' = rows => RowsTyped'
           /\ sameState' \subseteq sameState => MemoryTyped'
<1> USE TypeParts
<1>1. rows' = rows => RowsTyped'
  BY DEF RowsTyped, UniqueIds, RowIds
<1>2. sameState' \subseteq sameState => MemoryTyped'
  BY DEF MemoryTyped, Matching, Pooled, Present
<1> QED
  BY <1>1, <1>2

\* A call that returns leaves the others.
LEMMA CallsGo ==
    ASSUME PoolTypeOK, NEW c \in Callers, Return(c), issued' = issued
    PROVE  CallsTyped'
<1>1. NoCall \in [kind : {"idle"}]
  BY DEF NoCall
<1> QED
  BY <1>1, TypeParts DEF CallsTyped, Return

\* Every step keeps the types.
LEMMA PoolTypeStep ==
    ASSUME PoolTypeOK, LockHeld, [PoolNext]_poolVars
    PROVE  PoolTypeOK'
<1> USE TypeParts, TypePartsNext
<1> DEFINE AnId == CHOOSE id \in Ids : TRUE
<1>1. AnId \in Ids /\ 1 \in 1 .. MaxMonth /\ Monitor \in Callers /\ Admins \subseteq Callers
  BY PoolAssumption DEF Callers
<1>2. MaxFaults \in Nat /\ MaxKills \in Nat /\ MaxLogins \in Nat
  BY PoolAssumption
<1>3. PoolFault \/ NoPoolFault => poolFaults' \in 0 .. MaxFaults
  BY <1>2 DEF PoolFault, NoPoolFault, RestTyped
<1> HIDE DEF AnId
<1>4. ASSUME NEW c \in Callers, NEW call, issued \subseteq issued', issued' \subseteq Ids,
             calls' = [calls EXCEPT ![c] = call],
             call \in [kind : {"add"}, id : issued', user : Users] \union [kind : {"login"}, id : issued'],
             UNCHANGED <<poolUp, pool, rows, premium, booking, bounds, ghosts>>
      PROVE  PoolTypeOK'
  <2>1. RowsTyped' /\ MemoryTyped'
    BY <1>4, SamePool DEF pool
  <2>2. CallsTyped'
    BY <1>4 DEF CallsTyped
  <2>3. BookingTyped'
    BY <1>4 DEF BookingTyped, booking
  <2>4. RestTyped'
    BY <1>4 DEF RestTyped, premium, booking, bounds, ghosts
  <2> QED
    BY <2>1, <2>2, <2>3, <2>4
<1>5. ASSUME NEW c \in Admins, NEW u \in Users, AddBegins(c, u)
      PROVE  PoolTypeOK'
  <2>1. PICK id \in IdentitiesOf(u) : /\ calls' = [calls EXCEPT ![c] = [kind |-> "add", id |-> id, user |-> u]]
                                      /\ issued' = issued \union {id}
    BY <1>5 DEF AddBegins
  <2>2. id \in Ids
    BY <2>1 DEF IdentitiesOf, Pooled
  <2> DEFINE call == [kind |-> "add", id |-> id, user |-> u]
  <2>3. call \in [kind : {"add"}, id : issued', user : Users]
    BY <2>1
  <2>4. issued' \subseteq Ids
    BY <2>1, <2>2 DEF CallsTyped
  <2> HIDE DEF call
  <2>5. calls' = [calls EXCEPT ![c] = call] /\ c \in Callers
    BY <1>1, <2>1 DEF call
  <2>6. UNCHANGED <<poolUp, pool, rows, premium, booking, bounds, ghosts>>
    BY <1>5 DEF AddBegins
  <2> QED
    BY <1>4, <2>1, <2>3, <2>4, <2>5, <2>6
<1>6. ASSUME NEW c \in Callers, NEW id \in issued, calls' = [calls EXCEPT ![c] = [kind |-> "login", id |-> id]],
             UNCHANGED <<poolUp, pool, rows, issued, premium, booking, bounds, ghosts>>
      PROVE  PoolTypeOK'
  <2> DEFINE call == [kind |-> "login", id |-> id]
  <2>1. call \in [kind : {"login"}, id : issued']
    BY <1>6
  <2> HIDE DEF call
  <2>2. calls' = [calls EXCEPT ![c] = call] /\ issued' \subseteq Ids
    BY <1>6 DEF call, CallsTyped
  <2> QED
    BY <1>4, <1>6, <2>1, <2>2
<1>7. ASSUME NEW c \in Admins, NEW id \in Ids, LoginBegins(c, id)
      PROVE  PoolTypeOK'
  <2>1. id \in issued
    BY <1>7 DEF LoginBegins, MemoryTyped, Pooled
  <2> QED
    BY <1>1, <1>6, <1>7, <2>1 DEF LoginBegins
<1>8. ASSUME NEW id \in Ids, ProbeFails(id)
      PROVE  PoolTypeOK'
  BY <1>1, <1>6, <1>8 DEF ProbeFails
<1>9. ASSUME NEW c \in Callers, CallFails(c)
      PROVE  PoolTypeOK'
  <2>1. RowsTyped' /\ MemoryTyped'
    BY <1>9, SamePool DEF CallFails, pool
  <2>2. CallsTyped'
    BY <1>9, CallsGo DEF CallFails
  <2>3. BookingTyped' /\ RestTyped'
    BY <1>9 DEF CallFails, BookingTyped, RestTyped, premium, booking, bounds, ghosts
  <2> QED
    BY <2>1, <2>2, <2>3
<1>10. ASSUME NEW c \in Callers, AddEnds(c)
      PROVE  PoolTypeOK'
  <2>1. RowsTyped' /\ MemoryTyped' /\ logins + 1 \in Clients
    BY <1>10, AddEndsLeaves
  <2>2. CallsTyped'
    BY <1>10, CallsGo DEF AddEnds
  <2>3. BookingTyped'
    BY <1>10 DEF AddEnds, BookingTyped
  <2>4. RestTyped'
    <3>1. (PoolFault \/ NoPoolFault) /\ inDoubt' \in BOOLEAN /\ deleted' \subseteq Ids
      BY <1>10 DEF AddEnds, RestTyped
    <3> QED
      BY <1>3, <1>10, <2>1, <3>1 DEF AddEnds, RestTyped, premium
  <2> QED
    BY <2>1, <2>2, <2>3, <2>4
\* The saves.
<1>11. ASSUME NEW accts, NEW ids, NEW kept, Keeping(accts, ids, kept), SaveOrRollback(accts, ids, kept),
             UNCHANGED issued
      PROVE  RowsTyped' /\ MemoryTyped' /\ inDoubt' \in BOOLEAN /\ poolFaults' \in 0 .. MaxFaults
  <2>1. RowsTyped' /\ MemoryTyped'
    BY <1>11, SaveTypes
  <2>2. inDoubt' \in BOOLEAN /\ (PoolFault \/ NoPoolFault)
    BY <1>11 DEF SaveOrRollback, Saved, NotSaved, RestTyped
  <2> QED
    BY <1>3, <2>1, <2>2
<1>12. ASSUME NEW id \in Ids, Touch(id)
      PROVE  PoolTypeOK'
  <2>1. Keeping(accounts, order, Ids)
    BY TouchKeeps
  <2>2. RowsTyped' /\ MemoryTyped' /\ inDoubt' \in BOOLEAN /\ poolFaults' \in 0 .. MaxFaults
    BY <1>11, <1>12, <2>1 DEF Touch
  <2> QED
    BY <1>12, <2>2 DEF Touch, CallsTyped, BookingTyped, RestTyped, premium, booking
<1>13. ASSUME NEW id \in Ids, Delete(id)
       PROVE  PoolTypeOK'
  <2> DEFINE accts == [accounts EXCEPT ![id] = NoAccount]
             rest == RemoveAt(order, CHOOSE i \in DOMAIN order : order[i] = id)
  <2>1. Keeping(accts, rest, Ids \ {id})
    BY <1>13, DeleteKeeps DEF Delete
  <2>2. \/ Saved(accts, rest, Ids \ {id}) /\ deleted' = deleted \union {id} /\ billed' \subseteq billed
        \/ NotSaved(accts, rest) /\ UNCHANGED <<deleted, billed>>
    BY <1>13 DEF Delete
  <2> HIDE DEF accts, rest
  <2>3. SaveOrRollback(accts, rest, Ids \ {id})
    BY <2>2 DEF SaveOrRollback
  <2>4. RowsTyped' /\ MemoryTyped' /\ inDoubt' \in BOOLEAN /\ poolFaults' \in 0 .. MaxFaults
    BY <1>11, <1>13, <2>1, <2>3 DEF Delete
  <2>5. CallsTyped'
    BY <1>13 DEF Delete, CallsTyped
  <2>6. BookingTyped'
    BY <1>13, <2>2 DEF Delete, BookingTyped
  <2>7. RestTyped'
    BY <1>13, <2>2, <2>4 DEF Delete, RestTyped, premium
  <2> QED
    BY <2>4, <2>5, <2>6, <2>7
<1>14. ASSUME NEW c \in Callers, LoginEnds(c)
       PROVE  PoolTypeOK'
  <2> DEFINE id == calls[c].id
             accts == [accounts EXCEPT ![id] = SignedIn(id, logins + 1)]
             ids == IF Present(id) THEN order ELSE Append(order, id)
  <2>1. id \in Ids /\ logins + 1 \in Clients
    BY <1>14, PoolAssumption DEF LoginEnds, CallsTyped, RestTyped, Clients
  <2>2. \/ Present(id) /\ SaveOrRollback(accts, ids, Ids)
        \/ UNCHANGED <<pool, rows, inDoubt, poolFaults>>
    BY <1>14 DEF LoginEnds, StillThere
  <2>3. Present(id) => Keeping(accts, ids, Ids)
    <3> HIDE DEF id
    <3> QED
      BY <2>1, LoginKeeps
  <2> HIDE DEF accts, ids
  <2>4. RowsTyped' /\ MemoryTyped' /\ inDoubt' \in BOOLEAN /\ poolFaults' \in 0 .. MaxFaults
    <3>1. CASE Present(id) /\ SaveOrRollback(accts, ids, Ids)
      BY <1>11, <1>14, <2>3, <3>1 DEF LoginEnds
    <3>2. CASE UNCHANGED <<pool, rows, inDoubt, poolFaults>>
      BY <1>14, <3>2, SamePool DEF LoginEnds, pool, RestTyped
    <3> QED
      BY <2>2, <3>1, <3>2
  <2>5. CallsTyped'
    BY <1>14, CallsGo DEF LoginEnds
  <2>6. BookingTyped' /\ RestTyped'
    BY <1>14, <2>1, <2>4 DEF LoginEnds, BookingTyped, RestTyped, premium, booking
  <2> QED
    BY <2>4, <2>5, <2>6
<1>15. CASE AskPremium
  <2>1. PICK targets \in SUBSET Pooled :
           /\ asked' = [id \in Ids |-> IF id \in targets THEN accounts[id].client ELSE NotAsked]
           /\ sameState' = targets
    BY <1>15 DEF AskPremium
  <2>2. asked' \in [Ids -> Clients \union {NotAsked}]
    BY <2>1, AccountForm DEF MemoryTyped, Matching, Pooled, Present
  <2>3. RowsTyped'
    BY <1>15, SamePool DEF AskPremium
  <2>4. MemoryTyped'
    BY <1>15, <2>1 DEF AskPremium, MemoryTyped, Matching, Pooled, Present
  <2> QED
    BY <1>15, <2>2, <2>3, <2>4 DEF AskPremium, CallsTyped, BookingTyped, RestTyped, booking, bounds, ghosts
<1>16. CASE PublishPremium
  <2>1. PICK answered \in SUBSET {id \in Ids : asked[id] # NotAsked} :
           LET news == {id \in answered : Publishes(id)}
           IN  IF news = {} THEN UNCHANGED <<pool, rows, inDoubt, poolFaults>>
               ELSE SaveOrRollback(Published(news), order, Ids)
    BY <1>16 DEF PublishPremium, Published
  <2> DEFINE news == {id \in answered : Publishes(id)}
  <2>2. Keeping(Published(news), order, Ids)
    <3>1. news \in SUBSET Ids /\ \A id \in news : Publishes(id)
      OBVIOUS
    <3> HIDE DEF news
    <3> QED
      BY <3>1, PublishKeeps
  <2>3. UNCHANGED <<pool, rows, inDoubt, poolFaults>> \/ SaveOrRollback(Published(news), order, Ids)
    BY <2>1
  <2> HIDE DEF news
  <2>4. RowsTyped' /\ MemoryTyped' /\ inDoubt' \in BOOLEAN /\ poolFaults' \in 0 .. MaxFaults
    <3>1. CASE SaveOrRollback(Published(news), order, Ids)
      BY <1>11, <1>16, <2>2, <3>1 DEF PublishPremium
    <3>2. CASE UNCHANGED <<pool, rows, inDoubt, poolFaults>>
      BY <1>16, <3>2, SamePool DEF PublishPremium, pool, RestTyped
    <3> QED
      BY <2>3, <3>1, <3>2
  <2> QED
    BY <1>16, <2>4 DEF PublishPremium, CallsTyped, BookingTyped, RestTyped, booking
\* The completions.
<1>17. ASSUME NEW c \in Charges, Resolve(c) \/ BeginCompletion(c)
       PROVE  PoolTypeOK'
  <2>1. RowsTyped' /\ MemoryTyped'
    BY <1>17, SamePool DEF Resolve, BeginCompletion, pool
  <2>2. BookingTyped'
    BY <1>17 DEF Resolve, BeginCompletion, BookingTyped, RestTyped, ResolveOrder, Pooled, Advance
  <2> QED
    BY <1>17, <2>1, <2>2 DEF Resolve, BeginCompletion, CallsTyped, RestTyped, premium, bounds, ghosts
<1>18. ASSUME NEW c \in Charges, BeginTraffic(c)
       PROVE  PoolTypeOK'
  <2>1. RowsTyped' /\ MemoryTyped'
    BY <1>18, SamePool DEF BeginTraffic, pool
  <2>2. Present(account[c]) => Booked(c, accounts[account[c]].record) \in Records
    <3>1. Present(account[c]) => accounts[account[c]].record \in Records
      BY AccountForm DEF MemoryTyped, Matching, Present, BookingTyped
    <3> QED
      BY <3>1, BookedType
  <2>3. BookingTyped'
    BY <1>1, <1>18, <2>2 DEF BeginTraffic, BookingTyped, Advance, Lock, CompletionEnds, AnId
  <2> QED
    BY <1>18, <2>1, <2>3 DEF BeginTraffic, CallsTyped, RestTyped, premium, bounds, ghosts
<1>19. ASSUME NEW c \in Charges, CompletionTx(c)
       PROVE  PoolTypeOK'
  <2>1. update \in Records
    BY <1>19, PoolAssumption DEF CompletionTx, LockHeld
  <2>2. RowsTyped'
    <3>1. CASE Write(c)
      BY <1>19, <2>1, <3>1, WriteRows DEF CompletionTx
    <3>2. CASE UNCHANGED rows
      BY <1>19, <3>2, SamePool DEF CompletionTx, pool
    <3> QED
      BY <1>19, <3>1, <3>2 DEF CompletionTx
  <2>3. MemoryTyped'
    BY <1>19, SamePool DEF CompletionTx, pool
  <2>4. BookingTyped'
    BY <1>19 DEF CompletionTx, BookingTyped, Write, Advance
  <2>5. RestTyped'
    <3>1. PoolFault \/ NoPoolFault
      BY <1>19 DEF CompletionTx
    <3> QED
      BY <1>3, <1>19, <3>1 DEF CompletionTx, RestTyped, premium
  <2> QED
    BY <1>19, <2>2, <2>3, <2>4, <2>5 DEF CompletionTx, CallsTyped
<1>20. ASSUME NEW c \in Charges, Finish(c)
       PROVE  PoolTypeOK'
  <2>1. update \in Records
    BY <1>20, PoolAssumption DEF Finish, LockHeld
  <2>2. RowsTyped'
    BY <1>20 DEF Finish, RowsTyped, UniqueIds, RowIds
  <2>3. MemoryTyped'
    <3>1. CASE Finishes(c)
      <4> DEFINE a == account[c]
                 new == [accounts[a] EXCEPT !.record = update]
      <4>1. a \in Ids /\ accounts[a] \in Accounts
        BY <3>1 DEF BookingTyped, Finishes, Present, MemoryTyped, Matching
      <4>2. new \in Accounts /\ new # NoAccount
        BY <2>1, <4>1, AccountForm
      <4>3. accounts' = [accounts EXCEPT ![a] = new]
        BY <1>20, <3>1 DEF Finish
      <4> HIDE DEF new, a
      <4>4. /\ accounts' \in [Ids -> Accounts \union {NoAccount}]
            /\ \A id \in Ids : accounts'[id] # NoAccount <=> accounts[id] # NoAccount
        BY <4>1, <4>2, <4>3, AccountForm DEF MemoryTyped, Matching
      <4> QED
        BY <1>20, <4>4 DEF Finish, MemoryTyped, Matching, Pooled, Present
    <3>2. CASE ~ Finishes(c)
      BY <1>20, <3>2, SamePool DEF Finish
    <3> QED
      BY <3>1, <3>2
  <2>4. BookingTyped'
    BY <1>1, <1>20 DEF Finish, BookingTyped, CompletionEnds, Advance, AnId
  <2> QED
    BY <1>20, <2>2, <2>3, <2>4 DEF Finish, CallsTyped, RestTyped, premium, bounds, ghosts
<1>21. CASE NewMonth
  <2>1. RowsTyped' /\ MemoryTyped'
    BY <1>21, SamePool DEF NewMonth, pool
  <2>2. month' \in 1 .. MaxMonth
    BY <1>21, PoolAssumption DEF NewMonth, RestTyped
  <2> QED
    BY <1>21, <2>1, <2>2 DEF NewMonth, CallsTyped, BookingTyped, RestTyped, premium, ghosts
\* The process.
<1>22. CASE Start
  <2>1. PICK stored \in Seq(Entries) :
           /\ UniqueIds(stored) /\ Load(stored)
           /\ \/ stored = rows /\ issued' = issued
              \/ \E id \in Ids \ issued :
                    /\ issued' = issued \union {id} /\ rows = <<>>
                    /\ stored = <<[id |-> id, record |-> NewRecord(Configured)]>>
    BY <1>22, StartLoads
  <2>2. /\ rows' = stored /\ Matching(accounts, order)' /\ Pooled' = {stored[i].id : i \in DOMAIN stored}
    BY <2>1, LoadLeaves
  <2>3. {stored[i].id : i \in DOMAIN stored} \subseteq issued' /\ issued' \subseteq Ids /\ issued \subseteq issued'
    <3>1. CASE stored = rows /\ issued' = issued
      BY <3>1 DEF RowsTyped, RowIds, CallsTyped
    <3>2. ASSUME NEW id \in Ids \ issued, issued' = issued \union {id},
                 stored = <<[id |-> id, record |-> NewRecord(Configured)]>>
          PROVE  {stored[i].id : i \in DOMAIN stored} \subseteq issued' /\ issued' \subseteq Ids /\ issued \subseteq issued'
      BY <3>2 DEF CallsTyped
    <3> QED
      BY <2>1, <3>1, <3>2
  <2>4. RowsTyped'
    BY <2>1, <2>2, <2>3 DEF RowsTyped, RowIds, UniqueIds
  <2>5. sameState' = sameState /\ sameState = {}
    <3>1. order = <<>>
      BY <1>22 DEF Start, LockHeld
    <3>2. Range(order) = {}
      BY <3>1 DEF Range
    <3> QED
      BY <1>22, <3>2 DEF Start, MemoryTyped, Matching, Pooled, Present
  <2>6. MemoryTyped'
    BY <2>2, <2>3, <2>5 DEF MemoryTyped
  <2>7. CallsTyped'
    BY <1>22, <2>3 DEF Start, CallsTyped
  <2>8. BookingTyped' /\ RestTyped'
    BY <1>22 DEF Start, BookingTyped, RestTyped, premium, booking, bounds
  <2> QED
    BY <2>4, <2>6, <2>7, <2>8
<1>23. CASE Kill
  <2>1. RowsTyped'
    BY <1>23 DEF Kill, RowsTyped, UniqueIds, RowIds
  <2>2. MemoryTyped'
    <3>1. /\ accounts' = [id \in Ids |-> NoAccount] /\ order' = <<>> /\ sameState' = {}
      BY <1>23 DEF Kill
    <3>2. order' \in Seq(Ids) /\ IsInjective(order') /\ Range(order') = {}
      BY <3>1 DEF IsInjective, Range
    <3> QED
      BY <3>1, <3>2 DEF MemoryTyped, Matching, Pooled, Present
  <2>3. CallsTyped'
    BY <1>23 DEF Kill, CallsTyped, NoCall
  <2>4. BookingTyped'
    BY <1>1, <1>23 DEF Kill, BookingTyped, AnId
  <2>5. RestTyped'
    <3>1. poolKills' \in 0 .. MaxKills
      BY <1>2, <1>23 DEF Kill, RestTyped
    <3> QED
      BY <1>23, <3>1 DEF Kill, RestTyped, ghosts
  <2> QED
    BY <2>1, <2>2, <2>3, <2>4, <2>5
<1>24. CASE UNCHANGED poolVars
  BY <1>24 DEF poolVars, pool, premium, booking, bounds, ghosts, PoolTypeOK, Pooled, Present, RowIds, Callers, Clients
<1> QED
  BY <1>5, <1>7, <1>8, <1>9, <1>10, <1>12, <1>13, <1>14, <1>15, <1>16, <1>17, <1>18, <1>19, <1>20, <1>21, <1>22,
     <1>23, <1>24 DEF PoolNext

-----------------------------------------------------------------------------
(* The lock.                                                               *)

\* Every step keeps the lock with one call.
LEMMA LockStep ==
    ASSUME PoolTypeOK, LockHeld, [PoolNext]_poolVars
    PROVE  LockHeld'
<1> USE TypeParts
<1>1. NoCharge \notin Charges
  BY PoolAssumption
<1>2. ASSUME UNCHANGED <<poolUp, order, calls, stage, account, locker, update>>, Pooled \subseteq Pooled'
      PROVE  LockHeld'
  BY <1>2 DEF LockHeld, Pooled, BookingTyped
<1>3. ASSUME locker = NoCharge, poolUp, UNCHANGED <<poolUp, stage, locker>>
      PROVE  LockHeld'
  BY <1>3 DEF LockHeld
<1>4. ASSUME NEW c \in Callers, NEW u \in Users, AddBegins(c, u)
      PROVE  LockHeld'
  BY <1>4 DEF AddBegins, LockHeld, pool, booking, Present
<1>5. ASSUME NEW c \in Callers, CallFails(c)
      PROVE  LockHeld'
  BY <1>5 DEF CallFails, LockHeld, pool, booking, Present
<1>6. ASSUME NEW id \in Ids, ProbeFails(id)
      PROVE  LockHeld'
  BY <1>6 DEF ProbeFails, LockHeld, pool, booking, Present
<1>7. ASSUME NEW c \in Callers, AddEnds(c) \/ LoginEnds(c)
      PROVE  LockHeld'
  BY <1>3, <1>7 DEF AddEnds, LoginEnds, Unlocked, booking
<1>8. ASSUME NEW c \in Callers, NEW id \in Ids, LoginBegins(c, id)
      PROVE  LockHeld'
  BY <1>3, <1>8 DEF LoginBegins, Unlocked, booking
<1>9. ASSUME NEW id \in Ids, Touch(id) \/ Delete(id)
      PROVE  LockHeld'
  BY <1>3, <1>9 DEF Touch, Delete, Unlocked, booking
<1>10. CASE AskPremium \/ PublishPremium
  BY <1>3, <1>10 DEF AskPremium, PublishPremium, Unlocked, booking
<1>11. ASSUME NEW c \in Charges, Resolve(c)
       PROVE  LockHeld'
  BY <1>1, <1>11 DEF Resolve, Unlocked, Advance, LockHeld, BookingTyped
<1>12. ASSUME NEW c \in Charges, BeginCompletion(c)
       PROVE  LockHeld'
  BY <1>1, <1>12 DEF BeginCompletion, Advance, LockHeld, BookingTyped, pool, Present
<1>13. ASSUME NEW c \in Charges, BeginTraffic(c)
       PROVE  LockHeld'
  <2>1. Present(account[c]) => Booked(c, accounts[account[c]].record) \in Records
    <3>1. Present(account[c]) => accounts[account[c]].record \in Records
      BY AccountForm DEF MemoryTyped, Matching, Present, BookingTyped
    <3> QED
      BY <3>1, BookedType
  <2> QED
    BY <1>1, <1>13, <2>1 DEF BeginTraffic, Unlocked, Advance, Lock, CompletionEnds, LockHeld, BookingTyped, pool, Present
<1>14. ASSUME NEW c \in Charges, CompletionTx(c)
       PROVE  LockHeld'
  <2>1. UNCHANGED <<poolUp, pool, calls, account, locker, update>>
    BY <1>14 DEF CompletionTx
  <2>2. stage[c] = "locked" /\ \E to \in {"committed", "failed"} : stage' = [stage EXCEPT ![c] = to]
    BY <1>14 DEF CompletionTx, Advance
  <2> QED
    BY <1>1, <2>1, <2>2 DEF LockHeld, BookingTyped, pool, Present
<1>15. ASSUME NEW c \in Charges, Finish(c)
       PROVE  LockHeld'
  <2>1. /\ poolUp /\ UNCHANGED <<poolUp, order, calls>>
        /\ stage[c] \in {"committed", "failed"} /\ stage' = [stage EXCEPT ![c] = "done"] /\ locker' = NoCharge
    BY <1>15 DEF Finish, CompletionEnds, Advance
  <2> QED
    BY <1>1, <2>1 DEF LockHeld, BookingTyped
<1>16. CASE NewMonth
  BY <1>16 DEF NewMonth, LockHeld, pool, Present
<1>17. CASE Start
  <2>1. locker = NoCharge /\ UNCHANGED <<stage, locker>> /\ poolUp'
    BY <1>17 DEF Start, LockHeld, booking
  <2> QED
    BY <1>1, <2>1 DEF LockHeld
<1>18. CASE Kill
  BY <1>1, <1>18 DEF Kill, LockHeld
<1>19. CASE UNCHANGED poolVars
  BY <1>19 DEF poolVars, pool, booking, LockHeld, Present
<1>20. Admins \subseteq Callers
  BY DEF Callers
<1> QED
  BY <1>4, <1>5, <1>6, <1>7, <1>8, <1>9, <1>10, <1>11, <1>12, <1>13, <1>14, <1>15, <1>16, <1>17, <1>18, <1>19,
     <1>20 DEF PoolNext

-----------------------------------------------------------------------------
(* The premium information.                                                *)

\* Every step keeps PremiumIsCurrent.
LEMMA PremiumStep ==
    ASSUME PoolTypeOK, LockHeld, PremiumIsCurrent, [PoolNext]_poolVars
    PROVE  PremiumIsCurrent'
<1> USE TypeParts
<1>1. ASSUME accounts' = accounts
      PROVE  PremiumIsCurrent'
  BY <1>1 DEF PremiumIsCurrent, Pooled, Present
\* An account that is replaced, and those of a save.
<1>2. ASSUME NEW id \in Ids, NEW new, new.premium \in {NotAsked, new.client}, accounts' = [accounts EXCEPT ![id] = new]
      PROVE  PremiumIsCurrent'
  BY <1>2 DEF PremiumIsCurrent, Pooled, Present, MemoryTyped, Matching
<1>3. ASSUME NEW c \in Callers, AddEnds(c)
      PROVE  PremiumIsCurrent'
  <2> DEFINE new == Added(calls[c].id, calls[c].user, logins + 1)
  <2>1. calls[c].id \in Ids /\ calls[c].user \in Users /\ logins + 1 \in Clients
    BY <1>3, AddEndsLeaves
  <2>2. new.premium = new.client
    BY <2>1, AddedType
  <2>3. accounts' = accounts \/ accounts' = [accounts EXCEPT ![calls[c].id] = new]
    BY <1>3 DEF AddEnds, pool
  <2> HIDE DEF new
  <2> QED
    BY <1>1, <1>2, <2>1, <2>2, <2>3
<1>4. ASSUME NEW id \in Ids, Delete(id)
      PROVE  PremiumIsCurrent'
  <2>1. accounts' = accounts \/ accounts' = [accounts EXCEPT ![id] = NoAccount]
    BY <1>4 DEF Delete, Saved, NotSaved, RollBack
  <2> QED
    BY <1>1, <2>1 DEF PremiumIsCurrent, Pooled, Present, MemoryTyped, Matching
<1>5. ASSUME NEW c \in Callers, LoginEnds(c)
      PROVE  PremiumIsCurrent'
  <2> DEFINE new == SignedIn(calls[c].id, logins + 1)
  <2>1. calls[c].id \in Ids
    BY <1>5 DEF LoginEnds, CallsTyped
  <2>2. new.premium = new.client
    BY DEF SignedIn
  <2>3. accounts' = accounts \/ accounts' = [accounts EXCEPT ![calls[c].id] = new]
    BY <1>5 DEF LoginEnds, SaveOrRollback, Saved, NotSaved, RollBack, pool
  <2> HIDE DEF new
  <2> QED
    BY <1>1, <1>2, <2>1, <2>2, <2>3
<1>6. CASE PublishPremium
  <2>1. PICK answered \in SUBSET {id \in Ids : asked[id] # NotAsked} :
           LET news == {id \in answered : Publishes(id)}
           IN  IF news = {} THEN UNCHANGED <<pool, rows, inDoubt, poolFaults>>
               ELSE SaveOrRollback(Published(news), order, Ids)
    BY <1>6 DEF PublishPremium, Published
  <2> DEFINE news == {id \in answered : Publishes(id)}
  <2>2. accounts' = accounts \/ accounts' = Published(news)
    BY <2>1 DEF SaveOrRollback, Saved, NotSaved, RollBack, pool
  <2>3. \A id \in news : accounts[id] \in Accounts /\ asked[id] = accounts[id].client
    BY DEF Publishes, MemoryTyped, Matching, Present
  <2> HIDE DEF news
  <2>4. ASSUME NEW id \in Ids, accounts' = Published(news), accounts'[id] # NoAccount
        PROVE  accounts'[id].premium \in {NotAsked, accounts'[id].client}
    <3>1. CASE id \in news
      <4>1. accounts'[id] = [accounts[id] EXCEPT !.premium = asked[id]]
        BY <2>4, <3>1 DEF Published
      <4>2. accounts[id] \in Accounts /\ asked[id] = accounts[id].client
        BY <2>3, <3>1
      <4> QED
        BY <4>1, <4>2 DEF Accounts
    <3>2. CASE id \notin news
      BY <2>4, <3>2 DEF Published, PremiumIsCurrent, Pooled, Present
    <3> QED
      BY <3>1, <3>2
  <2> QED
    BY <1>1, <2>2, <2>4 DEF PremiumIsCurrent, Pooled, Present
<1>7. ASSUME NEW c \in Charges, Finish(c)
      PROVE  PremiumIsCurrent'
  <2>1. CASE Finishes(c)
    <3>1. PICK id \in Ids : id = account[c] /\ accounts[id] \in Accounts /\ id \in Pooled
      BY <2>1 DEF Finishes, BookingTyped, Present, Pooled, MemoryTyped, Matching
    <3>2. PICK new : new = [accounts[id] EXCEPT !.record = update]
      OBVIOUS
    <3>3. new.premium = accounts[id].premium /\ new.client = accounts[id].client
      BY <3>1, <3>2 DEF Accounts
    <3>4. new.premium \in {NotAsked, new.client}
      BY <3>1, <3>3 DEF PremiumIsCurrent
    <3>5. accounts' = [accounts EXCEPT ![id] = new]
      BY <1>7, <2>1, <3>1, <3>2 DEF Finish
    <3> QED
      BY <3>4, <3>5 DEF PremiumIsCurrent, Pooled, Present, MemoryTyped, Matching
  <2>2. CASE ~ Finishes(c)
    BY <1>1, <1>7, <2>2 DEF Finish
  <2> QED
    BY <2>1, <2>2
<1>8. CASE Start
  <2>1. PICK stored \in Seq(Entries) : UniqueIds(stored) /\ Load(stored)
    BY <1>8, StartLoads
  <2>2. /\ Pooled' = {stored[i].id : i \in DOMAIN stored}
        /\ \A i \in 1 .. Len(stored) :
              accounts'[stored[i].id] = [record |-> stored[i].record, client |-> 0, premium |-> NotAsked]
    BY <2>1, LoadLeaves
  <2>3. ASSUME NEW id \in Pooled'
        PROVE  accounts'[id].premium = NotAsked
    <3>1. PICK i \in 1 .. Len(stored) : id = stored[i].id
      BY <2>2
    <3>2. accounts'[id] = [record |-> stored[i].record, client |-> 0, premium |-> NotAsked]
      BY <2>2, <3>1
    <3> QED
      BY <3>2
  <2> QED
    BY <2>3 DEF PremiumIsCurrent
<1>9. CASE Kill
  BY <1>9 DEF Kill, PremiumIsCurrent, Pooled, Present
<1>10. ASSUME NEW id \in Ids, Touch(id)
       PROVE  accounts' = accounts
  BY <1>10 DEF Touch, SaveOrRollback, Saved, NotSaved, RollBack
<1>11. ASSUME NEW c \in Charges, Resolve(c) \/ BeginCompletion(c) \/ BeginTraffic(c) \/ CompletionTx(c)
       PROVE  accounts' = accounts
  BY <1>11 DEF Resolve, BeginCompletion, BeginTraffic, CompletionTx, pool
<1>12. CASE AskPremium \/ NewMonth \/ UNCHANGED poolVars
            \/ (\E c \in Admins, u \in Users : AddBegins(c, u)) \/ (\E c \in Callers : CallFails(c))
            \/ (\E c \in Admins, id \in Ids : LoginBegins(c, id)) \/ (\E id \in Ids : ProbeFails(id))
  BY <1>1, <1>12 DEF AskPremium, NewMonth, poolVars, AddBegins, CallFails, LoginBegins, ProbeFails, pool
<1> QED
  BY <1>1, <1>3, <1>4, <1>5, <1>6, <1>7, <1>8, <1>9, <1>10, <1>11, <1>12 DEF PoolNext

-----------------------------------------------------------------------------
(* The table.                                                              *)

\* Every step keeps the table following the memory.
LEMMA FollowStep ==
    ASSUME PoolTypeOK, LockHeld, TableFollows, [PoolNext]_poolVars
    PROVE  TableFollows'
<1> USE TypeParts
<1>1. /\ NoCharge \notin Charges /\ Matching(accounts, order)
      /\ Len(order) \in Nat /\ \A i \in 1 .. Len(order) : order[i] \in Ids /\ order[i] \in Pooled
  <2>1. Matching(accounts, order)
    BY DEF MemoryTyped
  <2>2. Len(order) \in Nat /\ DOMAIN order = 1 .. Len(order) /\ \A i \in 1 .. Len(order) : order[i] \in Ids
    BY <2>1, LenProperties, ElementOfSeq DEF Matching
  <2>3. \A i \in 1 .. Len(order) : order[i] \in Pooled
    BY <2>1, <2>2 DEF Matching, Range, Pooled, Present
  <2> QED
    BY <2>1, <2>2, <2>3, PoolAssumption
\* Steps that leave the records as they are or will be.
<1>2. ASSUME UNCHANGED <<poolUp, inDoubt, rows, order>>, \A id \in Pooled : Now(id)' = Now(id)
      PROVE  TableFollows'
  BY <1>1, <1>2 DEF TableFollows
<1>3. ASSUME UNCHANGED <<poolUp, inDoubt, rows, order, accounts, locker, update>>,
             locker # NoCharge => account'[locker] = account[locker] /\ stage'[locker] = stage[locker]
      PROVE  TableFollows'
  BY <1>2, <1>3 DEF Now, Committed
\* Saves.
<1>4. ASSUME locker' = NoCharge, NEW accts, NEW ids, NEW kept, Matching(accts, ids), Saved(accts, ids, kept)
      PROVE  TableFollows'
  <2>1. accounts' = accts /\ order' = ids /\ rows' = PoolRows(accts, ids)
    BY <1>4 DEF Saved
  <2>2. /\ Len(PoolRows(accts, ids)) = Len(ids)
        /\ \A i \in 1 .. Len(ids) : PoolRows(accts, ids)[i] = [id |-> ids[i], record |-> accts[ids[i]].record]
    BY <1>4, PoolRowsForm
  <2>3. ASSUME NEW i \in 1 .. Len(ids)
        PROVE  rows'[i].id = ids[i] /\ rows'[i].record = accts[ids[i]].record
    <3>1. rows'[i] = [id |-> ids[i], record |-> accts[ids[i]].record]
      BY <2>1, <2>2
    <3> QED
      BY <3>1
  <2>4. \A id : Now(id)' = accts[id].record
    BY <1>4, <2>1 DEF Now, Committed
  <2> QED
    BY <2>1, <2>2, <2>3, <2>4 DEF TableFollows
<1>5. ASSUME UNCHANGED <<poolUp, locker>>, locker = NoCharge, NEW accts, NEW ids, NEW kept, Matching(accts, ids),
             SaveOrRollback(accts, ids, kept)
      PROVE  TableFollows'
  <2>1. CASE Saved(accts, ids, kept)
    BY <1>4, <1>5, <2>1
  <2>2. CASE NotSaved(accts, ids)
    <3>1. UNCHANGED <<accounts, order>> /\ (inDoubt' \/ UNCHANGED <<rows, inDoubt>>)
      BY <2>2 DEF NotSaved, RollBack
    <3> QED
      BY <1>2, <1>5, <3>1 DEF Now, Committed, TableFollows
  <2> QED
    BY <1>5, <2>1, <2>2 DEF SaveOrRollback
<1>6. ASSUME NEW id \in Ids, Touch(id)
      PROVE  TableFollows'
  BY <1>5, <1>6, TouchKeeps DEF Touch, Unlocked, booking, Keeping
<1>7. ASSUME NEW id \in Ids, Delete(id)
      PROVE  TableFollows'
  <2> DEFINE accts == [accounts EXCEPT ![id] = NoAccount]
             rest == RemoveAt(order, CHOOSE i \in DOMAIN order : order[i] = id)
  <2>1. Matching(accts, rest)
    BY <1>7, DeleteKeeps DEF Delete, Keeping
  <2>2. SaveOrRollback(accts, rest, Ids \ {id})
    BY <1>7 DEF Delete, SaveOrRollback
  <2>3. UNCHANGED <<poolUp, locker>> /\ locker = NoCharge
    BY <1>7 DEF Delete, Unlocked
  <2> HIDE DEF accts, rest
  <2> QED
    BY <1>5, <2>1, <2>2, <2>3
<1>8. ASSUME NEW c \in Callers, LoginEnds(c)
      PROVE  TableFollows'
  <2>1. PICK id \in Ids : id = calls[c].id
    BY <1>8 DEF LoginEnds, CallsTyped
  <2> DEFINE accts == [accounts EXCEPT ![id] = SignedIn(id, logins + 1)]
             ids == IF Present(id) THEN order ELSE Append(order, id)
  <2>2. UNCHANGED <<poolUp, locker>> /\ locker = NoCharge
    BY <1>8 DEF LoginEnds, Unlocked, booking
  <2>3. logins + 1 \in Clients
    BY <1>8, PoolAssumption DEF LoginEnds, RestTyped, Clients
  <2>4. CASE Present(id)
    <3>1. Matching(accts, ids)
      BY <2>3, <2>4, LoginKeeps DEF Keeping
    <3>2. SaveOrRollback(accts, ids, Ids)
      BY <1>8, <2>1, <2>4 DEF LoginEnds, StillThere
    <3> HIDE DEF accts, ids
    <3> QED
      BY <1>5, <2>2, <3>1, <3>2
  <2>5. CASE ~ Present(id)
    BY <1>2, <1>8, <2>1, <2>2, <2>5 DEF LoginEnds, StillThere, pool, Now, Committed
  <2> QED
    BY <2>4, <2>5
<1>9. CASE PublishPremium
  <2>1. PICK answered \in SUBSET {id \in Ids : asked[id] # NotAsked} :
           LET news == {id \in answered : Publishes(id)}
           IN  IF news = {} THEN UNCHANGED <<pool, rows, inDoubt, poolFaults>>
               ELSE SaveOrRollback(Published(news), order, Ids)
    BY <1>9 DEF PublishPremium, Published
  <2>2. PICK news \in SUBSET Ids : news = {id \in answered : Publishes(id)}
    OBVIOUS
  <2>3. UNCHANGED <<poolUp, locker>> /\ locker = NoCharge
    BY <1>9 DEF PublishPremium, Unlocked, booking
  <2>4. CASE news = {}
    BY <1>2, <2>1, <2>2, <2>3, <2>4 DEF pool, Now, Committed
  <2>5. CASE news # {}
    <3>1. Matching(Published(news), order)
      BY <2>2, PublishKeeps DEF Keeping
    <3> QED
      BY <1>5, <2>1, <2>2, <2>3, <2>5, <3>1
  <2> QED
    BY <2>4, <2>5
<1>10. ASSUME NEW c \in Callers, AddEnds(c)
      PROVE  TableFollows'
  <2>1. PICK id \in Ids : id = calls[c].id /\ id \in issued
    BY <1>10, AddEndsLeaves
  <2>2. PICK new \in Accounts : new = Added(id, calls[c].user, logins + 1) /\ new.record \in Records
    BY <1>10, <2>1, AddEndsLeaves, AddedType
  <2>3. /\ poolUp /\ locker = NoCharge /\ UNCHANGED <<poolUp, locker, issued>>
    BY <1>10 DEF AddEnds, Unlocked
  <2>4. CASE inDoubt'
    BY <2>4 DEF TableFollows
  <2>5. CASE UNCHANGED <<pool, rows, inDoubt>>
    BY <1>2, <2>3, <2>5 DEF pool, Now, Committed
  <2>6. CASE /\ Upsert(id, new.record) /\ accounts' = [accounts EXCEPT ![id] = new]
             /\ order' = (IF Present(id) THEN order ELSE Append(order, id)) /\ ~inDoubt /\ ~inDoubt'
    <3>1. /\ Len(rows) = Len(order)
          /\ \A i \in 1 .. Len(order) : rows[i].id = order[i] /\ rows[i].record = accounts[order[i]].record
      BY <2>3, <2>6 DEF TableFollows, Now, Committed
    <3>2. accounts'[id] = new /\ \A k \in Ids \ {id} : accounts'[k] = accounts[k]
      BY <2>6 DEF MemoryTyped, Matching
    <3>3. Present(id) <=> \E i \in 1 .. Len(order) : order[i] = id
      BY <1>1, LenProperties DEF Matching, Range, Present
    <3>4. Present(id) <=> id \in RowIds
      <4>1. DOMAIN rows = 1 .. Len(order)
        BY <3>1, LenProperties DEF RowsTyped
      <4> QED
        BY <3>1, <3>3, <4>1 DEF RowIds
    <3>5. CASE Present(id)
      <4>1. order' = order /\ Len(rows') = Len(order)
            /\ \A i \in 1 .. Len(order) :
                  rows'[i] = IF rows[i].id = id THEN [id |-> id, record |-> new.record] ELSE rows[i]
        BY <2>1, <2>2, <2>3, <2>6, <3>1, <3>4, <3>5, UpsertRows
      <4>2. \A i \in 1 .. Len(order) : rows'[i].id = order[i] /\ rows'[i].record = accounts'[order[i]].record
        BY <1>1, <3>1, <3>2, <4>1
      <4> QED
        BY <2>3, <4>1, <4>2 DEF TableFollows, Now, Committed
    <3>6. CASE ~ Present(id)
      <4>1. /\ Len(rows') = Len(order) + 1 /\ \A i \in 1 .. Len(order) : rows'[i] = rows[i]
            /\ rows'[Len(order) + 1] = [id |-> id, record |-> new.record]
        BY <2>1, <2>2, <2>3, <2>6, <3>1, <3>4, <3>6, UpsertRows
      <4>2. /\ Len(order') = Len(order) + 1 /\ \A i \in 1 .. Len(order) : order'[i] = order[i]
            /\ order'[Len(order) + 1] = id
        BY <1>1, <2>6, <3>6, AppendProperties DEF Matching
      <4>3. \A i \in 1 .. Len(order) + 1 : i \in 1 .. Len(order) \/ i = Len(order) + 1
        BY <1>1
      <4>4. \A i \in 1 .. Len(order) : order[i] # id
        BY <3>3, <3>6
      <4>5. \A i \in 1 .. Len(order) + 1 : rows'[i].id = order'[i] /\ rows'[i].record = accounts'[order'[i]].record
        BY <1>1, <3>1, <3>2, <4>1, <4>2, <4>3, <4>4
      <4> QED
        BY <2>3, <4>1, <4>2, <4>5 DEF TableFollows, Now, Committed
    <3> QED
      BY <3>5, <3>6
  <2> QED
    BY <1>10, <2>1, <2>2, <2>4, <2>5, <2>6 DEF AddEnds
\* Completions.
<1>11. ASSUME NEW c \in Charges, Resolve(c) \/ BeginCompletion(c)
       PROVE  TableFollows'
  <2>1. stage[c] \in {"new", "resolving"} /\ locker # c
    BY <1>11 DEF Resolve, BeginCompletion, LockHeld
  <2>2. locker # NoCharge => account'[locker] = account[locker] /\ stage'[locker] = stage[locker]
    BY <1>11, <2>1 DEF Resolve, BeginCompletion, Advance, BookingTyped
  <2> QED
    BY <1>3, <1>11, <2>2 DEF Resolve, BeginCompletion, pool, ghosts
<1>12. ASSUME NEW c \in Charges, BeginTraffic(c)
       PROVE  TableFollows'
  <2>1. locker = NoCharge /\ UNCHANGED <<poolUp, inDoubt, rows, order, accounts>>
    BY <1>12 DEF BeginTraffic, Unlocked, pool, ghosts
  <2>2. \/ locker' = NoCharge
        \/ locker' = c /\ stage'[c] = "locked"
    BY <1>12, <2>1 DEF BeginTraffic, Lock, Advance, BookingTyped
  <2> QED
    BY <1>1, <1>2, <2>1, <2>2 DEF Now, Committed
<1>13. ASSUME NEW c \in Charges, CompletionTx(c)
       PROVE  TableFollows'
  <2>1. /\ c = locker /\ locker # NoCharge /\ poolUp /\ stage[c] = "locked" /\ update \in Records
        /\ UNCHANGED <<poolUp, order, accounts, account, locker, update, issued>>
    BY <1>1, <1>13 DEF CompletionTx, LockHeld, pool
  <2>2. CASE Write(c) /\ Advance(c, "committed")
    <3>1. stage'[locker] = "committed"
      BY <2>1, <2>2 DEF Advance, BookingTyped
    <3>2. inDoubt' = inDoubt
      BY <1>13, <2>1, <3>1 DEF CompletionTx, RestTyped
    <3>3. /\ Len(rows') = Len(rows) 
          /\ \A i \in 1 .. Len(rows) :
                /\ rows'[i].id = rows[i].id
                /\ rows'[i].record = IF rows[i].id = account[c] THEN update ELSE rows[i].record
      BY <2>1, <2>2, WriteRows
    <3>4. \A id \in Ids : Now(id)' = (IF id = account[c] THEN update ELSE Now(id))
      BY <2>1, <3>1 DEF Now, Committed
    <3> QED
      BY <1>1, <2>1, <3>2, <3>3, <3>4 DEF TableFollows
  <2>3. CASE Advance(c, "failed")
    <3>1. stage'[locker] = "failed"
      BY <2>1, <2>3 DEF Advance, BookingTyped
    <3>2. inDoubt' \/ UNCHANGED <<rows, inDoubt>>
      BY <1>13, <2>1, <3>1 DEF CompletionTx, RestTyped
    <3> QED
      BY <1>2, <2>1, <3>1, <3>2 DEF Now, Committed, TableFollows
  <2> QED
    BY <1>13, <2>2, <2>3 DEF CompletionTx
<1>14. ASSUME NEW c \in Charges, Finish(c)
       PROVE  TableFollows'
  <2>1. /\ c = locker /\ locker # NoCharge /\ Present(account[c]) /\ locker' = NoCharge
        /\ UNCHANGED <<poolUp, inDoubt, rows, order>> /\ account[c] \in Ids
    BY <1>1, <1>14 DEF Finish, LockHeld, ghosts, BookingTyped
  <2>2. CASE stage[c] = "committed"
    <3>1. accounts' = [accounts EXCEPT ![account[c]].record = update]
      BY <1>14, <2>1, <2>2 DEF Finish, Finishes
    <3>2. accounts[account[c]] \in Accounts
      BY <2>1 DEF MemoryTyped, Matching, Present
    <3>3. \A id \in Ids : accounts'[id].record = Now(id)
      BY <2>1, <2>2, <3>1, <3>2 DEF Now, Committed, MemoryTyped, Matching, Accounts
    <3>4. \A id \in Ids : Now(id)' = accounts'[id].record
      BY <2>1 DEF Now, Committed
    <3> QED
      BY <1>2, <2>1, <3>3, <3>4 DEF Pooled
  <2>3. CASE stage[c] # "committed"
    BY <1>2, <1>14, <2>1, <2>3 DEF Finish, Finishes, Now, Committed
  <2> QED
    BY <2>2, <2>3
\* The process, and the rest.
<1>15. CASE Start
  <2>1. locker = NoCharge /\ locker' = NoCharge
    BY <1>15 DEF Start, LockHeld, booking
  <2>2. PICK stored \in Seq(Entries) : UniqueIds(stored) /\ Load(stored)
    BY <1>15, StartLoads
  <2>3. /\ rows' = stored /\ Len(order') = Len(stored)
        /\ \A i \in 1 .. Len(stored) :
              /\ order'[i] = stored[i].id
              /\ accounts'[stored[i].id] = [record |-> stored[i].record, client |-> 0, premium |-> NotAsked]
    BY <2>2, LoadLeaves
  <2>4. ASSUME NEW i \in 1 .. Len(stored)
        PROVE  accounts'[stored[i].id].record = stored[i].record
    <3>1. accounts'[stored[i].id] = [record |-> stored[i].record, client |-> 0, premium |-> NotAsked]
      BY <2>3
    <3> QED
      BY <3>1
  <2>5. \A id : Now(id)' = accounts'[id].record
    BY <2>1 DEF Now, Committed
  <2> QED
    BY <2>3, <2>4, <2>5 DEF TableFollows
<1>16. CASE Kill
  BY <1>16 DEF Kill, TableFollows
<1>17. CASE AskPremium \/ NewMonth \/ UNCHANGED poolVars
            \/ (\E c \in Admins, u \in Users : AddBegins(c, u)) \/ (\E c \in Callers : CallFails(c))
            \/ (\E c \in Admins, id \in Ids : LoginBegins(c, id)) \/ (\E id \in Ids : ProbeFails(id))
  BY <1>3, <1>17 DEF AskPremium, NewMonth, poolVars, AddBegins, CallFails, LoginBegins, ProbeFails, pool, booking, ghosts
<1> QED
  BY <1>6, <1>7, <1>8, <1>9, <1>10, <1>11, <1>12, <1>13, <1>14, <1>15, <1>16, <1>17 DEF PoolNext

-----------------------------------------------------------------------------
(* Deleted accounts.                                                       *)

\* A save brings no account back, and leaves in the table what it leaves in memory.
LEMMA SaveLeaves ==
    ASSUME MemoryTyped, NEW accts, NEW ids, NEW kept, Keeping(accts, ids, kept), SaveOrRollback(accts, ids, kept)
    PROVE  /\ Pooled' \subseteq Pooled /\ RowIds' \subseteq RowIds \union Pooled
           /\ Saved(accts, ids, kept) => /\ Pooled' = {id \in Ids : accts[id] # NoAccount}
                                         /\ RowIds' = {id \in Ids : accts[id] # NoAccount}
<1>1. {id \in Ids : accts[id] # NoAccount} \subseteq Pooled
  BY DEF Keeping, Pooled
<1>2. PICK made : made = PoolRows(accts, ids)
  OBVIOUS
<1>3. {made[i].id : i \in DOMAIN made} = {id \in Ids : accts[id] # NoAccount}
  BY <1>2, PoolRowsForm DEF Keeping
<1>4. CASE Saved(accts, ids, kept)
  <2>1. rows' = made /\ accounts' = accts
    BY <1>2, <1>4 DEF Saved
  <2> QED
    BY <1>1, <1>3, <2>1 DEF RowIds, Pooled, Present
<1>5. CASE NotSaved(accts, ids) /\ ~ Saved(accts, ids, kept)
  <2>1. accounts' = accounts /\ rows' \in {rows, made}
    BY <1>2, <1>5 DEF NotSaved, RollBack
  <2>2. Pooled' = Pooled
    BY <2>1 DEF Pooled, Present
  <2>3. RowIds' = RowIds \/ RowIds' = {made[i].id : i \in DOMAIN made}
    BY <2>1 DEF RowIds
  <2> QED
    BY <1>1, <1>3, <1>5, <2>2, <2>3
<1> QED
  BY <1>4, <1>5 DEF SaveOrRollback

\* Every step keeps what was deleted deleted.
LEMMA DeletedStep ==
    ASSUME PoolTypeOK, LockHeld, DeletedInv, [PoolNext]_poolVars
    PROVE  DeletedInv'
<1> USE TypeParts
<1>1. deleted \subseteq issued /\ deleted \intersect (Pooled \union RowIds) = {}
  BY DEF DeletedInv, DeletedStaysDeleted, Pooled
<1>2. ASSUME deleted' \subseteq issued', deleted' \intersect (Pooled' \union RowIds') = {}
      PROVE  DeletedInv'
  <2>1. issued \subseteq Ids /\ issued' \subseteq Ids
    BY PoolTypeStep, TypeParts DEF PoolTypeOK
  <2> QED
    BY <1>2, <2>1 DEF DeletedInv, DeletedStaysDeleted, Pooled
<1>3. ASSUME UNCHANGED <<accounts, rows, deleted>>, issued \subseteq issued'
      PROVE  DeletedInv'
  <2>1. Pooled' = Pooled /\ RowIds' = RowIds
    BY <1>3 DEF Pooled, Present, RowIds
  <2> QED
    BY <1>1, <1>2, <1>3, <2>1
<1>4. ASSUME UNCHANGED <<deleted, issued>>, NEW accts, NEW ids, NEW kept, Keeping(accts, ids, kept),
             SaveOrRollback(accts, ids, kept)
      PROVE  DeletedInv'
  <2>1. Pooled' \subseteq Pooled /\ RowIds' \subseteq RowIds \union Pooled
    BY <1>4, SaveLeaves
  <2> QED
    BY <1>1, <1>2, <1>4, <2>1
<1>5. ASSUME NEW id \in Ids, Touch(id)
      PROVE  DeletedInv'
  BY <1>4, <1>5, TouchKeeps DEF Touch
<1>6. ASSUME NEW id \in Ids, Delete(id)
      PROVE  DeletedInv'
  <2> DEFINE accts == [accounts EXCEPT ![id] = NoAccount]
             rest == RemoveAt(order, CHOOSE i \in DOMAIN order : order[i] = id)
  <2>1. Keeping(accts, rest, Ids \ {id}) /\ issued' = issued /\ id \in Pooled
    BY <1>6, DeleteKeeps DEF Delete, Pooled
  <2>2. \/ Saved(accts, rest, Ids \ {id}) /\ deleted' = deleted \union {id}
        \/ NotSaved(accts, rest) /\ deleted' = deleted
    BY <1>6 DEF Delete
  <2>3. SaveOrRollback(accts, rest, Ids \ {id})
    BY <2>2 DEF SaveOrRollback
  <2>4. {k \in Ids : accts[k] # NoAccount} = Pooled \ {id}
    BY DEF Pooled, Present, MemoryTyped, Matching
  <2> HIDE DEF accts, rest
  <2>5. CASE Saved(accts, rest, Ids \ {id}) /\ deleted' = deleted \union {id}
    <3>1. Pooled' = Pooled \ {id} /\ RowIds' = Pooled \ {id}
      BY <2>1, <2>3, <2>4, <2>5, SaveLeaves
    <3> QED
      BY <1>1, <1>2, <2>1, <2>5, <3>1 DEF MemoryTyped
  <2>6. CASE NotSaved(accts, rest) /\ deleted' = deleted
    BY <1>4, <2>1, <2>3, <2>6
  <2> QED
    BY <2>2, <2>5, <2>6
<1>7. ASSUME NEW c \in Callers, LoginEnds(c)
      PROVE  DeletedInv'
  <2>1. PICK id \in Ids : id = calls[c].id
    BY <1>7 DEF LoginEnds, CallsTyped
  <2> DEFINE accts == [accounts EXCEPT ![id] = SignedIn(id, logins + 1)]
             ids == IF Present(id) THEN order ELSE Append(order, id)
  <2>2. logins + 1 \in Clients
    BY <1>7, PoolAssumption DEF LoginEnds, RestTyped, Clients
  <2>3. CASE Present(id)
    <3>1. Keeping(accts, ids, Ids)
      BY <2>2, <2>3, LoginKeeps
    <3>2. SaveOrRollback(accts, ids, Ids) /\ UNCHANGED <<deleted, issued>>
      BY <1>7, <2>1, <2>3 DEF LoginEnds, StillThere
    <3> HIDE DEF accts, ids
    <3> QED
      BY <1>4, <3>1, <3>2
  <2>4. CASE ~ Present(id)
    BY <1>3, <1>7, <2>1, <2>4 DEF LoginEnds, StillThere, pool
  <2> QED
    BY <2>3, <2>4
<1>8. CASE PublishPremium
  <2>1. PICK answered \in SUBSET {id \in Ids : asked[id] # NotAsked} :
           LET news == {id \in answered : Publishes(id)}
           IN  IF news = {} THEN UNCHANGED <<pool, rows, inDoubt, poolFaults>>
               ELSE SaveOrRollback(Published(news), order, Ids)
    BY <1>8 DEF PublishPremium, Published
  <2>2. PICK news \in SUBSET Ids : news = {id \in answered : Publishes(id)}
    OBVIOUS
  <2>3. UNCHANGED <<deleted, issued>>
    BY <1>8 DEF PublishPremium
  <2>4. CASE news = {}
    BY <1>3, <2>1, <2>2, <2>3, <2>4 DEF pool
  <2>5. CASE news # {}
    <3>1. Keeping(Published(news), order, Ids)
      BY <2>2, PublishKeeps
    <3> QED
      BY <1>4, <2>1, <2>2, <2>3, <2>5, <3>1
  <2> QED
    BY <2>4, <2>5
<1>9. ASSUME NEW c \in Callers, AddEnds(c)
      PROVE  DeletedInv'
  <2>1. PICK id \in Ids : id = calls[c].id /\ id \in issued
    BY <1>9, AddEndsLeaves
  <2>2. PICK new \in Accounts : new = Added(id, calls[c].user, logins + 1) /\ new.record \in Records
    BY <1>9, <2>1, AddEndsLeaves, AddedType
  <2>3. issued' = issued
    BY <1>9 DEF AddEnds
  <2>4. CASE UNCHANGED <<pool, rows, deleted>>
    BY <1>3, <2>3, <2>4 DEF pool
  <2>5. CASE /\ Upsert(id, new.record) /\ deleted' = deleted \ {id}
             /\ accounts' = accounts \/ accounts' = [accounts EXCEPT ![id] = new]
    <3>1. RowIds' = RowIds \union {id}
      BY <2>1, <2>2, <2>3, <2>5, UpsertRows
    <3>2. Pooled' \subseteq Pooled \union {id}
      BY <2>5 DEF Pooled, Present, MemoryTyped, Matching
    <3> QED
      BY <1>1, <1>2, <2>3, <2>5, <3>1, <3>2
  <2> QED
    BY <1>9, <2>1, <2>2, <2>4, <2>5 DEF AddEnds, pool
<1>10. ASSUME NEW c \in Charges, CompletionTx(c)
      PROVE  DeletedInv'
  <2>1. update \in Records /\ UNCHANGED <<accounts, deleted, issued>>
    BY <1>10, PoolAssumption DEF CompletionTx, LockHeld, pool
  <2>2. RowIds' = RowIds
    <3>1. Write(c) => RowIds' = RowIds
      BY <2>1, WriteRows
    <3> QED
      BY <1>10, <3>1 DEF CompletionTx, RowIds
  <2> QED
    BY <1>1, <1>2, <2>1, <2>2 DEF Pooled, Present
<1>11. ASSUME NEW c \in Charges, Finish(c)
       PROVE  DeletedInv'
  <2>1. UNCHANGED <<rows, deleted, issued>> /\ account[c] \in Ids
    BY <1>11 DEF Finish, ghosts, BookingTyped
  <2>2. Pooled' = Pooled
    <3>1. CASE Finishes(c)
      <4>1. /\ account[c] \in Pooled
            /\ \A id \in Ids \ {account[c]} : accounts'[id] = accounts[id]
        BY <1>11, <2>1, <3>1 DEF Finish, Finishes, Pooled, MemoryTyped, Matching
      <4>2. accounts'[account[c]] = [accounts[account[c]] EXCEPT !.record = update]
        BY <1>11, <2>1, <3>1 DEF Finish, MemoryTyped, Matching
      <4>3. update \in Records
        BY <1>11, PoolAssumption DEF Finish, LockHeld
      <4>4. accounts[account[c]] \in Accounts
        BY <4>1 DEF Pooled, Present, MemoryTyped, Matching
      <4>5. accounts'[account[c]] # NoAccount
        <5>1. \A a \in Accounts : \A s \in Records : [a EXCEPT !.record = s] # NoAccount
          BY AccountForm
        <5> QED
          BY <4>2, <4>3, <4>4, <5>1
      <4> QED
        BY <4>1, <4>5 DEF Pooled, Present
    <3>2. CASE ~ Finishes(c)
      BY <1>11, <3>2 DEF Finish, Pooled, Present
    <3> QED
      BY <3>1, <3>2
  <2> QED
    BY <1>1, <1>2, <2>1, <2>2 DEF RowIds
<1>12. CASE Start
  <2>1. PICK stored \in Seq(Entries) :
           /\ UniqueIds(stored) /\ Load(stored)
           /\ \/ stored = rows /\ issued' = issued
              \/ \E id \in Ids \ issued :
                    /\ issued' = issued \union {id} /\ rows = <<>>
                    /\ stored = <<[id |-> id, record |-> NewRecord(Configured)]>>
    BY <1>12, StartLoads
  <2>2. rows' = stored /\ Pooled' = {stored[i].id : i \in DOMAIN stored}
    BY <2>1, LoadLeaves
  <2>3. RowIds' = Pooled' /\ deleted' = deleted
    BY <1>12, <2>2 DEF RowIds, Start
  <2>4. CASE stored = rows /\ issued' = issued
    BY <1>1, <1>2, <2>2, <2>3, <2>4 DEF RowIds
  <2>5. ASSUME NEW id \in Ids \ issued, issued' = issued \union {id},
               stored = <<[id |-> id, record |-> NewRecord(Configured)]>>
        PROVE  DeletedInv'
    <3>1. Pooled' = {id}
      BY <2>2, <2>5
    <3> QED
      BY <1>1, <1>2, <2>3, <2>5, <3>1
  <2> QED
    BY <2>1, <2>4, <2>5
<1>13. CASE Kill
  BY <1>1, <1>2, <1>13 DEF Kill, Pooled, Present, RowIds, ghosts
<1>14. ASSUME NEW c \in Charges, Resolve(c) \/ BeginCompletion(c) \/ BeginTraffic(c)
       PROVE  UNCHANGED <<accounts, rows, deleted, issued>>
  BY <1>14 DEF Resolve, BeginCompletion, BeginTraffic, pool, ghosts
<1>15. CASE AskPremium \/ NewMonth \/ UNCHANGED poolVars
            \/ (\E c \in Admins, u \in Users : AddBegins(c, u)) \/ (\E c \in Callers : CallFails(c))
            \/ (\E c \in Admins, id \in Ids : LoginBegins(c, id)) \/ (\E id \in Ids : ProbeFails(id))
  BY <1>3, <1>15 DEF AskPremium, NewMonth, poolVars, AddBegins, CallFails, LoginBegins, ProbeFails, pool, ghosts
<1> QED
  BY <1>3, <1>5, <1>6, <1>7, <1>8, <1>9, <1>10, <1>11, <1>12, <1>13, <1>14, <1>15 DEF PoolNext

-----------------------------------------------------------------------------
(* The records of the accounts and of the rows.                            *)

AgreeRows(good) == \A i \in DOMAIN rows : <<rows[i].id, rows[i].record>> \in good
Agree(good) == (\A id \in Pooled : <<id, accounts[id].record>> \in good) /\ AgreeRows(good)

\* A save writes the records there are.
LEMMA SaveAgrees ==
    ASSUME MemoryTyped, NEW accts, NEW ids, NEW kept, Keeping(accts, ids, kept), SaveOrRollback(accts, ids, kept),
           NEW good, Agree(good)
    PROVE  Agree(good)'
<1>1. ASSUME NEW id \in Ids, accts[id] # NoAccount
      PROVE  <<id, accts[id].record>> \in good
  BY <1>1 DEF Keeping, Agree, Pooled
<1>2. PICK made : made = PoolRows(accts, ids)
  OBVIOUS
<1>3. ASSUME NEW i \in DOMAIN made
      PROVE  <<made[i].id, made[i].record>> \in good
  <2>1. /\ made[i] = [id |-> ids[i], record |-> accts[ids[i]].record]
        /\ ids[i] \in Ids /\ accts[ids[i]] \in Accounts
    <3>1. Matching(accts, ids)
      BY DEF Keeping
    <3>2. /\ DOMAIN made = 1 .. Len(ids)
          /\ \A k \in 1 .. Len(ids) : /\ made[k] = [id |-> ids[k], record |-> accts[ids[k]].record]
                                      /\ ids[k] \in Ids /\ accts[ids[k]] \in Accounts
      BY <1>2, <3>1, PoolRowsForm
    <3> QED
      BY <1>3, <3>2
  <2>2. <<ids[i], accts[ids[i]].record>> \in good
    BY <1>1, <2>1, AccountForm
  <2> QED
    BY <2>1, <2>2
<1>4. AgreeRows(good)'
  <2>1. rows' \in {rows, made}
    BY <1>2 DEF SaveOrRollback, Saved, NotSaved
  <2> QED
    BY <1>3, <2>1 DEF AgreeRows, Agree
<1>5. accounts' \in {accounts, accts}
  BY DEF SaveOrRollback, Saved, NotSaved, RollBack
<1> QED
  BY <1>1, <1>4, <1>5 DEF Agree, Pooled, Present

\* An addition leaves the rows agreeing with the accounts.
LEMMA AddAgrees ==
    ASSUME PoolTypeOK, NEW c \in Callers, AddEnds(c), NEW good, Agree(good),
           <<calls[c].id, Added(calls[c].id, calls[c].user, logins + 1).record>> \in good
    PROVE  Agree(good)'
<1> USE TypeParts
<1>1. PICK id \in Ids : id = calls[c].id /\ id \in issued
  BY AddEndsLeaves
<1>2. PICK new \in Accounts : new = Added(id, calls[c].user, logins + 1) /\ new.record \in Records
  BY <1>1, AddEndsLeaves, AddedType
<1>3. <<id, new.record>> \in good /\ issued' = issued
  BY <1>1, <1>2 DEF AddEnds
<1>4. /\ UNCHANGED rows \/ Upsert(id, new.record)
      /\ accounts' = accounts \/ accounts' = [accounts EXCEPT ![id] = new]
  BY <1>1, <1>2 DEF AddEnds, pool
<1>5. AgreeRows(good)'
  <2>1. CASE UNCHANGED rows
    BY <2>1 DEF Agree, AgreeRows
  <2>2. CASE Upsert(id, new.record)
    <3>1. /\ rows \in Seq(Entries) /\ rows' \in Seq(Entries)
          /\ Len(rows) \in Nat /\ DOMAIN rows = 1 .. Len(rows) /\ DOMAIN rows' = 1 .. Len(rows')
      BY <1>1, <1>2, <1>3, <2>2, UpsertRows, LenProperties DEF RowsTyped
    <3>2. ASSUME NEW i \in 1 .. Len(rows')
          PROVE  rows'[i] = [id |-> id, record |-> new.record] \/ (i \in 1 .. Len(rows) /\ rows'[i] = rows[i])
      <4>1. CASE id \in RowIds
        <5>1. /\ Len(rows') = Len(rows)
              /\ \A k \in 1 .. Len(rows) :
                    rows'[k] = IF rows[k].id = id THEN [id |-> id, record |-> new.record] ELSE rows[k]
          BY <1>1, <1>2, <1>3, <2>2, <4>1, UpsertRows
        <5> QED
          BY <5>1
      <4>2. CASE id \notin RowIds
        <5>1. /\ Len(rows') = Len(rows) + 1 /\ \A k \in 1 .. Len(rows) : rows'[k] = rows[k]
              /\ rows'[Len(rows) + 1] = [id |-> id, record |-> new.record]
          BY <1>1, <1>2, <1>3, <2>2, <4>2, UpsertRows
        <5>2. i \in 1 .. Len(rows) \/ i = Len(rows) + 1
          BY <3>1, <5>1
        <5> QED
          BY <5>1, <5>2
      <4> QED
        BY <4>1, <4>2
    <3>3. ASSUME NEW i \in 1 .. Len(rows')
          PROVE  <<rows'[i].id, rows'[i].record>> \in good
      <4>1. CASE rows'[i] = [id |-> id, record |-> new.record]
        BY <1>3, <4>1
      <4>2. CASE i \in 1 .. Len(rows) /\ rows'[i] = rows[i]
        BY <3>1, <4>2 DEF Agree, AgreeRows
      <4> QED
        BY <3>2, <4>1, <4>2
    <3> QED
      BY <3>1, <3>3 DEF AgreeRows
  <2> QED
    BY <1>4, <2>1, <2>2
<1> QED
  BY <1>3, <1>4, <1>5 DEF Agree, Pooled, Present, MemoryTyped, Matching

\* So does a start.
LEMMA StartAgrees ==
    ASSUME PoolTypeOK, Start, NEW good, AgreeRows(good),
           \A id \in Ids \ issued : <<id, NewRecord(Configured)>> \in good
    PROVE  Agree(good)'
<1>1. PICK stored \in Seq(Entries) :
         /\ UniqueIds(stored) /\ Load(stored)
         /\ \/ stored = rows /\ issued' = issued
            \/ \E id \in Ids \ issued :
                  /\ issued' = issued \union {id} /\ rows = <<>>
                  /\ stored = <<[id |-> id, record |-> NewRecord(Configured)]>>
  BY StartLoads
<1>2. DOMAIN stored = 1 .. Len(stored)
  BY LenProperties
<1>3. \A i \in 1 .. Len(stored) : <<stored[i].id, stored[i].record>> \in good
  <2>1. CASE stored = rows
    BY <1>2, <2>1 DEF AgreeRows
  <2>2. ASSUME NEW id \in Ids \ issued, stored = <<[id |-> id, record |-> NewRecord(Configured)]>>
        PROVE  \A i \in 1 .. Len(stored) : <<stored[i].id, stored[i].record>> \in good
    <3>1. PICK first : first = [id |-> id, record |-> NewRecord(Configured)]
      OBVIOUS
    <3>2. first.id = id /\ first.record = NewRecord(Configured) /\ stored = <<first>>
      BY <2>2, <3>1
    <3> QED
      BY <2>2, <3>2
  <2> QED
    BY <1>1, <2>1, <2>2
<1>4. /\ rows' = stored /\ Pooled' = {stored[i].id : i \in DOMAIN stored}
      /\ \A i \in 1 .. Len(stored) :
            accounts'[stored[i].id] = [record |-> stored[i].record, client |-> 0, premium |-> NotAsked]
  BY <1>1, LoadLeaves
<1>5. ASSUME NEW id \in Pooled'
      PROVE  <<id, accounts'[id].record>> \in good
  <2>1. PICK i \in 1 .. Len(stored) : id = stored[i].id
    BY <1>2, <1>4
  <2>2. accounts'[id] = [record |-> stored[i].record, client |-> 0, premium |-> NotAsked]
    BY <1>4, <2>1
  <2>3. accounts'[id].record = stored[i].record
    BY <2>2
  <2> QED
    BY <1>3, <2>1, <2>3
<1> QED
  BY <1>2, <1>3, <1>4, <1>5 DEF Agree, AgreeRows

\* The steps that save the records there are.
LEMMA KeepingSteps ==
    ASSUME PoolTypeOK,
           \/ \E id \in Ids : Touch(id) \/ Delete(id)
           \/ \E c \in Callers : LoginEnds(c)
           \/ PublishPremium
    PROVE  /\ locker = NoCharge /\ UNCHANGED <<issued, stage, account, stamp, locker, update, disputed, month>>
           /\ \A c \in Callers : calls'[c] \in {calls[c], NoCall}
           /\ \A good : Agree(good) => Agree(good)'
           /\ billed' \subseteq billed
           /\ \A id \in Ids : Billed(id)' = Billed(id) \/ (id \notin Pooled' \union RowIds' /\ Billed(id)' = {})
           /\ \A id \in Pooled \ Pooled' : Billed(id)' = {}
<1> USE TypeParts
<1> DEFINE Goal == /\ \A good : Agree(good) => Agree(good)'
                   /\ billed' \subseteq billed
                   /\ \A id \in Ids : Billed(id)' = Billed(id) \/ (id \notin Pooled' \union RowIds' /\ Billed(id)' = {})
                   /\ \A id \in Pooled \ Pooled' : Billed(id)' = {}
<1>1. /\ locker = NoCharge /\ UNCHANGED <<issued, stage, account, stamp, locker, update, disputed, month>>
      /\ \A c \in Callers : calls'[c] \in {calls[c], NoCall}
  BY DEF Touch, Delete, LoginEnds, PublishPremium, Unlocked, booking, Return, CallsTyped
<1>2. ASSUME UNCHANGED <<accounts, rows, billed>>
      PROVE  Goal
  BY <1>2 DEF Agree, AgreeRows, Billed, Pooled, Present
<1>3. ASSUME NEW accts, NEW ids, Keeping(accts, ids, Ids), SaveOrRollback(accts, ids, Ids), UNCHANGED billed
      PROVE  Goal
  <2>1. \A good : Agree(good) => Agree(good)'
    BY <1>3, SaveAgrees
  <2>2. Pooled \subseteq Pooled'
    BY <1>3 DEF SaveOrRollback, Saved, NotSaved, RollBack, Keeping, Pooled, Present
  <2> QED
    BY <1>3, <2>1, <2>2 DEF Billed
<1>4. ASSUME NEW id \in Ids, Touch(id)
      PROVE  Goal
  <2>1. Keeping(accounts, order, Ids) /\ SaveOrRollback(accounts, order, Ids) /\ UNCHANGED billed
    BY <1>4, TouchKeeps DEF Touch, booking
  <2> QED
    BY <1>3, <2>1
<1>5. ASSUME NEW id \in Ids, Delete(id)
      PROVE  Goal
  <2> DEFINE accts == [accounts EXCEPT ![id] = NoAccount]
             rest == RemoveAt(order, CHOOSE i \in DOMAIN order : order[i] = id)
             kept == Ids \ {id}
  <2>1. Keeping(accts, rest, kept)
    BY <1>5, DeleteKeeps DEF Delete
  <2>2. \/ Saved(accts, rest, kept) /\ billed' = {b \in billed : b[2] # id}
        \/ NotSaved(accts, rest) /\ billed' = billed
    BY <1>5 DEF Delete
  <2>3. SaveOrRollback(accts, rest, kept)
    BY <2>2 DEF SaveOrRollback
  <2>4. {k \in Ids : accts[k] # NoAccount} = Pooled \ {id}
    BY DEF Pooled, Present, MemoryTyped, Matching
  <2> HIDE DEF accts, rest, kept
  <2>5. \A good : Agree(good) => Agree(good)'
    BY <2>1, <2>3, SaveAgrees
  <2>6. CASE Saved(accts, rest, kept) /\ billed' = {b \in billed : b[2] # id}
    <3>1. Pooled' = Pooled \ {id} /\ RowIds' = Pooled \ {id}
      BY <2>1, <2>3, <2>4, <2>6, SaveLeaves
    <3>2. Billed(id)' = {} /\ \A k \in Ids \ {id} : Billed(k)' = Billed(k)
      BY <2>6 DEF Billed
    <3> QED
      BY <2>5, <2>6, <3>1, <3>2
  <2>7. CASE NotSaved(accts, rest) /\ billed' = billed
    <3>1. Pooled' = Pooled
      BY <2>7 DEF NotSaved, RollBack, Pooled, Present
    <3> QED
      BY <2>5, <2>7, <3>1 DEF Billed
  <2> QED
    BY <2>2, <2>6, <2>7
<1>6. ASSUME NEW c \in Callers, LoginEnds(c)
      PROVE  Goal
  <2>1. PICK id \in Ids : id = calls[c].id
    BY <1>6 DEF LoginEnds, CallsTyped
  <2> DEFINE accts == [accounts EXCEPT ![id] = SignedIn(id, logins + 1)]
             ids == IF Present(id) THEN order ELSE Append(order, id)
  <2>2. logins + 1 \in Clients /\ UNCHANGED billed
    BY <1>6, PoolAssumption DEF LoginEnds, RestTyped, Clients, booking
  <2>3. CASE Present(id)
    <3>1. Keeping(accts, ids, Ids)
      BY <2>2, <2>3, LoginKeeps
    <3>2. SaveOrRollback(accts, ids, Ids)
      BY <1>6, <2>1, <2>3 DEF LoginEnds, StillThere
    <3> HIDE DEF accts, ids
    <3> QED
      BY <1>3, <2>2, <3>1, <3>2
  <2>4. CASE ~ Present(id)
    BY <1>2, <1>6, <2>1, <2>2, <2>4 DEF LoginEnds, StillThere, pool
  <2> QED
    BY <2>3, <2>4
<1>7. ASSUME PublishPremium
      PROVE  Goal
  <2>1. PICK answered \in SUBSET {id \in Ids : asked[id] # NotAsked} :
           LET news == {id \in answered : Publishes(id)}
           IN  IF news = {} THEN UNCHANGED <<pool, rows, inDoubt, poolFaults>>
               ELSE SaveOrRollback(Published(news), order, Ids)
    BY <1>7 DEF PublishPremium, Published
  <2>2. PICK news \in SUBSET Ids : news = {id \in answered : Publishes(id)}
    OBVIOUS
  <2>3. UNCHANGED billed
    BY <1>7 DEF PublishPremium, booking
  <2>4. CASE news = {}
    BY <1>2, <2>1, <2>2, <2>3, <2>4 DEF pool
  <2>5. CASE news # {}
    <3>1. Keeping(Published(news), order, Ids)
      BY <2>2, PublishKeeps
    <3> QED
      BY <1>3, <2>1, <2>2, <2>3, <2>5, <3>1
  <2> QED
    BY <2>4, <2>5
<1>8. Goal
  BY <1>4, <1>5, <1>6, <1>7
<1> QED
  BY <1>1, <1>8

-----------------------------------------------------------------------------
(* The months.                                                             *)

RecordsBegun ==
    /\ \A id \in Pooled : accounts[id].record.period <= month
    /\ \A i \in DOMAIN rows : rows[i].record.period <= month

\* The accounts and the rows hold records.
LEMMA RecordsThere ==
    ASSUME PoolTypeOK
    PROVE  /\ \A id \in Pooled : accounts[id] \in Accounts /\ accounts[id].record \in Records /\ id \in Ids
           /\ \A i \in DOMAIN rows : rows[i].id \in Ids /\ rows[i].record \in Records
           /\ month \in Nat /\ \A record \in Records : record.period \in Nat
<1>1. \A i \in DOMAIN rows : rows[i] \in Entries
  BY LenProperties, ElementOfSeq, TypeParts DEF RowsTyped
<1> QED
  BY <1>1, PoolAssumption, AccountForm DEF PoolTypeOK, Pooled, Present, Entries, Records

\* Every step keeps to the periods that have begun.
LEMMA PeriodsStep ==
    ASSUME PoolTypeOK, LockHeld, PeriodsBegun, [PoolNext]_poolVars
    PROVE  PeriodsBegun'
<1> USE TypeParts
<1>1. PICK good : good = {e \in Ids \X Records : e[2].period <= month}
  OBVIOUS
<1>2. Agree(good)
  BY <1>1, RecordsThere DEF Agree, AgreeRows, PeriodsBegun
<1>3. month' \in Nat /\ month \in Nat /\ (month' = month \/ NewMonth) /\ month <= month'
  <2>1. ASSUME NEW c \in Charges,
               Resolve(c) \/ BeginCompletion(c) \/ BeginTraffic(c) \/ CompletionTx(c) \/ Finish(c)
        PROVE  month' = month
    BY <2>1 DEF Resolve, BeginCompletion, BeginTraffic, CompletionTx, Finish, bounds
  <2>2. ASSUME NEW c \in Callers, AddEnds(c) \/ CallFails(c) \/ LoginEnds(c)
        PROVE  month' = month
    BY <2>2 DEF AddEnds, CallFails, LoginEnds, bounds
  <2>3. ASSUME NEW id \in Ids, Touch(id) \/ Delete(id) \/ ProbeFails(id)
        PROVE  month' = month
    BY <2>3 DEF Touch, Delete, ProbeFails, bounds
  <2>4. CASE month' = month
    BY <2>4, PoolAssumption DEF RestTyped
  <2>5. CASE NewMonth
    BY <2>5, PoolAssumption DEF RestTyped, NewMonth
  <2>6. month' = month \/ NewMonth
    BY <2>1, <2>2, <2>3 DEF PoolNext, poolVars, bounds, AddBegins, LoginBegins, AskPremium, PublishPremium, Start, Kill
  <2> QED
    BY <2>4, <2>5, <2>6
<1>4. \A id : \A record : <<id, record>> \in good => record \in Records /\ record.period <= month
  BY <1>1
<1>5. ASSUME Agree(good)'
      PROVE  RecordsBegun'
  <2>1. ASSUME NEW id, NEW record, <<id, record>> \in good
        PROVE  record.period <= month'
    <3>1. record.period \in Nat /\ record.period <= month
      BY <1>4, <2>1, RecordsThere
    <3> QED
      BY <1>3, <3>1
  <2> QED
    BY <1>5, <2>1 DEF Agree, AgreeRows, RecordsBegun
<1>6. ASSUME UNCHANGED <<rows, accounts>>
      PROVE  RecordsBegun'
  BY <1>2, <1>5, <1>6 DEF Agree, AgreeRows, Pooled, Present
<1>7. ASSUME RecordsBegun', \A c \in Charges : stamp'[c] = stamp[c] \/ stamp'[c] <= month,
             locker' # NoCharge => update'.period <= month'
      PROVE  PeriodsBegun'
  <2>1. \A c \in Charges : stamp'[c] <= month'
    <3> SUFFICES ASSUME NEW c \in Charges
                 PROVE  stamp'[c] <= month'
      OBVIOUS
    <3>1. stamp'[c] <= month
      BY <1>7 DEF PeriodsBegun
    <3>2. stamp'[c] \in Nat
      BY PoolTypeStep DEF PoolTypeOK
    <3> QED
      BY <1>3, <3>1, <3>2
  <2> QED
    BY <1>7, <2>1 DEF RecordsBegun, PeriodsBegun
<1>8. ASSUME RecordsBegun', UNCHANGED <<stamp, locker, update>>
      PROVE  PeriodsBegun'
  <2>1. ASSUME locker # NoCharge
        PROVE  update'.period <= month'
    <3>1. update \in Records /\ update.period <= month
      BY <2>1 DEF LockHeld, PeriodsBegun
    <3>2. update.period \in Nat
      BY <3>1, RecordsThere
    <3> QED
      BY <1>3, <1>8, <3>1, <3>2
  <2> QED
    BY <1>7, <1>8, <2>1
<1>9. ASSUME \/ \E id \in Ids : Touch(id) \/ Delete(id)
             \/ \E c \in Callers : LoginEnds(c)
             \/ PublishPremium
      PROVE  PeriodsBegun'
  BY <1>2, <1>5, <1>8, <1>9, KeepingSteps
<1>10. ASSUME NEW user \in Users
       PROVE  NewRecord(user) \in Records /\ NewRecord(user).period <= month
  BY <1>3, NewRecordType DEF NewRecord
<1>11. ASSUME NEW c \in Callers, AddEnds(c)
       PROVE  PeriodsBegun'
  <2>1. PICK id \in Ids : id = calls[c].id
    BY <1>11, AddEndsLeaves
  <2>2. calls[c].user \in Users /\ logins + 1 \in Clients
    BY <1>11, AddEndsLeaves
  <2>3. PICK record \in Records : record = Added(id, calls[c].user, logins + 1).record
    BY <2>1, <2>2, AddedType
  <2>4. record.period <= month
    <3>1. CASE Present(id)
      BY <2>1, <2>2, <2>3, <3>1, AddedType DEF PeriodsBegun, Pooled
    <3>2. CASE ~ Present(id)
      BY <1>10, <2>1, <2>2, <2>3, <3>2, AddedType
    <3> QED
      BY <3>1, <3>2
  <2>5. Agree(good)'
    BY <1>1, <1>2, <1>11, <2>1, <2>3, <2>4, AddAgrees
  <2> QED
    BY <1>5, <1>8, <1>11, <2>5 DEF AddEnds
<1>12. ASSUME NEW c \in Charges, Resolve(c)
       PROVE  PeriodsBegun'
  BY <1>6, <1>8, <1>12 DEF Resolve, pool
<1>13. ASSUME NEW c \in Charges, BeginCompletion(c)
       PROVE  PeriodsBegun'
  <2>1. \A k \in Charges : stamp'[k] = stamp[k] \/ stamp'[k] <= month
    BY <1>3, <1>13 DEF BeginCompletion, BookingTyped
  <2>2. locker' # NoCharge => update'.period <= month'
    BY <1>13 DEF BeginCompletion, PeriodsBegun, bounds
  <2> QED
    BY <1>6, <1>7, <1>13, <2>1, <2>2 DEF BeginCompletion, pool
\* CompletionEnds sets the stamp to the first month.
<1>14. 1 <= month
  BY PoolAssumption DEF RestTyped
<1>15. ASSUME NEW c \in Charges, BeginTraffic(c)
       PROVE  PeriodsBegun'
  <2>1. \A k \in Charges : stamp'[k] = stamp[k] \/ stamp'[k] <= month
    BY <1>14, <1>15 DEF BeginTraffic, CompletionEnds, BookingTyped
  <2>2. locker' # NoCharge => update'.period <= month'
    <3>1. CASE Present(account[c])
      <4>1. account[c] \in Pooled
        BY <3>1 DEF Pooled, BookingTyped
      <4>2. update' = Booked(c, accounts[account[c]].record) /\ month' = month
        BY <1>15, <3>1 DEF BeginTraffic, bounds
      <4>3. Booked(c, accounts[account[c]].record).period = stamp[c]
        BY <4>1, RecordsThere, BookedType
      <4> QED
        BY <4>2, <4>3 DEF PeriodsBegun
    <3>2. CASE ~ Present(account[c])
      BY <1>15, <3>2 DEF BeginTraffic, Unlocked
    <3> QED
      BY <3>1, <3>2
  <2> QED
    BY <1>6, <1>7, <1>15, <2>1, <2>2 DEF BeginTraffic, pool
<1>16. ASSUME NEW c \in Charges, CompletionTx(c)
       PROVE  PeriodsBegun'
  <2>1. update \in Records /\ update.period <= month /\ UNCHANGED <<accounts, issued, month, stamp, locker, update>>
    BY <1>16, PoolAssumption DEF CompletionTx, LockHeld, pool, PeriodsBegun
  <2>2. RecordsBegun'
    <3>1. CASE UNCHANGED rows
      BY <1>6, <2>1, <3>1
    <3>2. CASE Write(c)
      <4>1. /\ Len(rows') = Len(rows) /\ rows \in Seq(Entries) /\ rows' \in Seq(Entries)
            /\ \A i \in 1 .. Len(rows) :
                  rows'[i].record = IF rows[i].id = account[c] THEN update ELSE rows[i].record
        BY <2>1, <3>2, WriteRows DEF RowsTyped
      <4>2. DOMAIN rows' = 1 .. Len(rows) /\ DOMAIN rows = 1 .. Len(rows)
        BY <4>1, LenProperties
      <4> QED
        BY <2>1, <4>1, <4>2 DEF PeriodsBegun, RecordsBegun, Pooled, Present
    <3> QED
      BY <1>16, <3>1, <3>2 DEF CompletionTx
  <2> QED
    BY <1>8, <2>1, <2>2
<1>17. ASSUME NEW c \in Charges, Finish(c)
       PROVE  PeriodsBegun'
  <2>1. \A k \in Charges : stamp'[k] = stamp[k] \/ stamp'[k] <= month
    BY <1>14, <1>17 DEF Finish, CompletionEnds, BookingTyped
  <2>2. rows' = rows /\ month' = month /\ locker' = NoCharge
    BY <1>17 DEF Finish, bounds
  <2>3. RecordsBegun'
    <3>1. CASE Finishes(c)
      <4>1. account[c] \in Pooled /\ accounts' = [accounts EXCEPT ![account[c]].record = update]
        BY <1>17, <3>1 DEF Finish, Finishes, Pooled, BookingTyped
      <4>2. update.period <= month
        BY <1>17, PoolAssumption DEF Finish, LockHeld, PeriodsBegun
      <4>3. ASSUME NEW id \in Pooled'
            PROVE  accounts'[id].record.period <= month'
        <5>1. CASE id = account[c]
          <6>1. accounts'[id] = [accounts[id] EXCEPT !.record = update] /\ accounts[id] \in Accounts
            BY <4>1, <5>1, RecordsThere DEF MemoryTyped, Matching
          <6>2. accounts'[id].record = update
            BY <6>1 DEF Accounts
          <6> QED
            BY <2>2, <4>2, <6>2
        <5>2. CASE id # account[c]
          BY <2>2, <4>1, <4>3, <5>2 DEF PeriodsBegun, Pooled, Present, MemoryTyped, Matching
        <5> QED
          BY <5>1, <5>2
      <4> QED
        BY <2>2, <4>3 DEF RecordsBegun, PeriodsBegun
    <3>2. CASE ~ Finishes(c)
      BY <1>6, <1>17, <2>2, <3>2 DEF Finish
    <3> QED
      BY <3>1, <3>2
  <2> QED
    BY <1>7, <2>1, <2>2, <2>3
<1>18. CASE Start
  <2>1. \A id \in Ids \ issued : <<id, NewRecord(Configured)>> \in good
    BY <1>1, <1>10, PoolAssumption
  <2>2. Agree(good)'
    BY <1>2, <1>18, <2>1, StartAgrees DEF Agree
  <2> QED
    BY <1>5, <1>8, <1>18, <2>2 DEF Start, booking
<1>19. CASE Kill
  <2>1. Pooled' = {} /\ rows' = rows /\ locker' = NoCharge /\ stamp' = [k \in Charges |-> 1]
    BY <1>19 DEF Kill, Pooled, Present
  <2>2. Agree(good)'
    BY <1>2, <2>1 DEF Agree, AgreeRows
  <2> QED
    BY <1>5, <1>7, <1>14, <2>1, <2>2
<1>20. CASE AskPremium \/ NewMonth \/ UNCHANGED poolVars
            \/ (\E c \in Admins, u \in Users : AddBegins(c, u)) \/ (\E c \in Callers : CallFails(c))
            \/ (\E c \in Admins, id \in Ids : LoginBegins(c, id)) \/ (\E id \in Ids : ProbeFails(id))
  <2>1. UNCHANGED <<rows, accounts, stamp, locker, update>>
    BY <1>20 DEF AskPremium, NewMonth, poolVars, AddBegins, CallFails, LoginBegins, ProbeFails, pool, booking
  <2> QED
    BY <1>6, <1>8, <2>1
<1> QED
  BY <1>9, <1>11, <1>12, <1>13, <1>15, <1>16, <1>17, <1>18, <1>19, <1>20 DEF PoolNext

-----------------------------------------------------------------------------
(* The traffic.                                                            *)

\* A record of an older month counts as none.
LEMMA EffectiveUse ==
    ASSUME PoolTypeOK, NEW c \in Charges, NEW record \in Records, record.period <= month,
           stamp[c] <= month, ~ (stamp[c] < record.period)
    PROVE  EffectiveUsed(Booked(c, record)) = EffectiveUsed(record) \union (IF stamp[c] = month THEN {c} ELSE {})
<1>1. stamp[c] \in Nat /\ month \in Nat /\ record.period \in Nat
  BY RecordsThere, PoolAssumption DEF PoolTypeOK
<1>2. /\ Booked(c, record).period = stamp[c]
      /\ Booked(c, record).used = IF record.period = stamp[c] THEN record.used \union {c} ELSE {c}
  BY BookedType
<1>3. record.period = month => stamp[c] = month
  BY <1>1
<1> QED
  BY <1>2, <1>3 DEF EffectiveUsed

\* Every step keeps the bookings.
LEMMA BookedStep ==
    ASSUME PoolTypeOK, LockHeld, PeriodsBegun, BookedInv, [PoolNext]_poolVars
    PROVE  BookedInv'
<1> USE TypeParts
<1> DEFINE Settled == BookedNow /\ BookedRows /\ BookedUpdate
           Known == billed \subseteq Charges \X issued
<1>1. PICK good : good = {e \in Ids \X Records : e[1] \in disputed \/ EffectiveUsed(e[2]) = Billed(e[1])}
  OBVIOUS
<1>2. AgreeRows(good) /\ (locker = NoCharge => Agree(good))
  BY <1>1, RecordsThere DEF Agree, AgreeRows, BookedInv, BookedNow, BookedRows, Now, Committed
<1>3. \A id : \A record : <<id, record>> \in good => id \in disputed \/ EffectiveUsed(record) = Billed(id)
  BY <1>1
\* Steps with the lock free before and after.
<1>4. ASSUME locker' = NoCharge, UNCHANGED <<month, disputed>>, Agree(good)',
             \A id \in Pooled' \union RowIds' : Billed(id)' = Billed(id)
      PROVE  Settled'
  <2>1. ASSUME NEW id, NEW record, <<id, record>> \in good, id \in Pooled' \union RowIds', id \notin disputed'
        PROVE  EffectiveUsed(record)' = Billed(id)'
    <3>1. EffectiveUsed(record) = Billed(id)
      BY <1>3, <1>4, <2>1
    <3>2. EffectiveUsed(record)' = EffectiveUsed(record)
      BY <1>4 DEF EffectiveUsed
    <3> QED
      BY <1>4, <2>1, <3>1, <3>2
  <2>2. ASSUME NEW id \in Pooled' \ disputed'
        PROVE  EffectiveUsed(Now(id))' = Billed(id)'
    <3>1. PICK record : record = accounts'[id].record
      OBVIOUS
    <3>2. Now(id)' = record
      BY <1>4, <3>1 DEF Now, Committed
    <3>3. EffectiveUsed(record)' = Billed(id)'
      BY <1>4, <2>1, <3>1 DEF Agree
    <3> QED
      BY <3>2, <3>3 DEF EffectiveUsed
  <2>3. ASSUME NEW i \in DOMAIN rows', rows'[i].id \notin disputed'
        PROVE  EffectiveUsed(rows[i].record)' = Billed(rows[i].id)'
    <3>1. PICK id, record : id = rows'[i].id /\ record = rows'[i].record
      OBVIOUS
    <3>2. EffectiveUsed(record)' = Billed(id)'
      BY <1>4, <2>1, <2>3, <3>1 DEF Agree, AgreeRows, RowIds
    <3> QED
      BY <3>1, <3>2 DEF EffectiveUsed, Billed
  <2> QED
    BY <1>4, <2>2, <2>3 DEF BookedNow, BookedRows, BookedUpdate
\* Steps that leave the records as they are.
<1>5. ASSUME UNCHANGED <<accounts, rows, month, billed, disputed, locker, update>>,
             locker # NoCharge => /\ stage'[locker] = stage[locker] /\ account'[locker] = account[locker]
                                  /\ stamp'[locker] = stamp[locker]
      PROVE  Settled'
  BY <1>5 DEF BookedInv, BookedNow, BookedRows, BookedUpdate, Now, Committed, EffectiveUsed, Billed, Pooled, Present
\* Calls that go on or end.
<1>6. ASSUME \A c \in Callers : calls'[c] \in {calls[c], NoCall},
             \A id \in Ids : Billed(id)' \subseteq Billed(id) \/ id \in Pooled,
             \A id \in Pooled \ Pooled' : Billed(id)' = {}
      PROVE  BookedAdds'
  <2>1. ASSUME NEW c \in Callers, calls'[c].kind = "add", ~ Present(calls[c].id)'
        PROVE  Billed(calls[c].id)' = {}
    <3>1. calls'[c] = calls[c]
      BY <1>6, <2>1 DEF NoCall
    <3>2. PICK id \in Ids : id = calls[c].id
      BY <2>1, <3>1 DEF CallsTyped
    <3>3. Billed(id)' = {}
      <4>1. CASE id \in Pooled
        BY <1>6, <2>1, <3>1, <3>2, <4>1 DEF Pooled, Present
      <4>2. CASE id \notin Pooled
        <5>1. Billed(id) = {}
          BY <2>1, <3>1, <3>2, <4>2 DEF BookedInv, BookedAdds, Pooled
        <5> QED
          BY <1>6, <4>2, <5>1
      <4> QED
        BY <4>1, <4>2
    <3> QED
      BY <3>1, <3>2, <3>3 DEF Billed
  <2> QED
    BY <2>1 DEF BookedAdds
<1>7. ASSUME UNCHANGED <<calls, billed>>, Pooled \subseteq Pooled'
      PROVE  BookedAdds'
  BY <1>6, <1>7 DEF Billed
<1>8. ASSUME issued \subseteq issued', billed' \subseteq billed
      PROVE  Known'
  BY <1>8 DEF BookedInv
<1>9. ASSUME \/ \E id \in Ids : Touch(id) \/ Delete(id)
             \/ \E c \in Callers : LoginEnds(c)
             \/ PublishPremium
      PROVE  BookedInv'
  <2>1. /\ UNCHANGED <<issued, disputed, month>> /\ locker = NoCharge /\ locker' = NoCharge
        /\ \A c \in Callers : calls'[c] \in {calls[c], NoCall}
        /\ Agree(good)' /\ billed' \subseteq billed
        /\ \A id \in Ids : Billed(id)' = Billed(id) \/ (id \notin Pooled' \union RowIds' /\ Billed(id)' = {})
        /\ \A id \in Pooled \ Pooled' : Billed(id)' = {}
    BY <1>2, <1>9, KeepingSteps
  <2>2. Pooled' \union RowIds' \subseteq Ids
    BY PoolTypeStep DEF PoolTypeOK
  <2>3. Settled'
    BY <1>4, <2>1, <2>2
  <2>4. BookedAdds'
    BY <1>6, <2>1
  <2> QED
    BY <1>8, <2>1, <2>3, <2>4 DEF BookedInv
<1>10. ASSUME NEW c \in Callers, AddEnds(c)
       PROVE  BookedInv'
  <2>1. PICK id \in Ids : id = calls[c].id
    BY <1>10, AddEndsLeaves
  <2>2. calls[c].user \in Users /\ logins + 1 \in Clients
    BY <1>10, AddEndsLeaves
  <2>3. PICK record \in Records : record = Added(id, calls[c].user, logins + 1).record
    BY <2>1, <2>2, AddedType
  <2>4. /\ locker = NoCharge /\ UNCHANGED <<issued, disputed, month, locker>> /\ Return(c)
        /\ billed' = billed \/ billed' = {b \in billed : Present(id) \/ b[2] # id}
        /\ accounts' = accounts \/ \E new : accounts' = [accounts EXCEPT ![id] = new] /\ new # NoAccount
    <3>1. Added(id, calls[c].user, logins + 1) # NoAccount
      BY <2>1, <2>2, AddedType, AccountForm
    <3> QED
      BY <1>10, <2>1, <3>1 DEF AddEnds, Unlocked, pool
  <2>5. ~ Present(id) => Billed(id) = {}
    BY <1>10, <2>1 DEF AddEnds, BookedInv, BookedAdds
  <2>6. \A k \in Ids : Billed(k)' = Billed(k)
    BY <2>4, <2>5 DEF Billed
  <2>7. <<id, record>> \in good
    <3>1. CASE Present(id)
      <4>1. record.used = accounts[id].record.used /\ record.period = accounts[id].record.period
        BY <2>1, <2>2, <2>3, <3>1, AddedType
      <4>2. EffectiveUsed(record) = EffectiveUsed(accounts[id].record)
        BY <4>1 DEF EffectiveUsed
      <4>3. id \in disputed \/ EffectiveUsed(accounts[id].record) = Billed(id)
        BY <1>2, <1>3, <2>4, <3>1 DEF Agree, Pooled
      <4> QED
        BY <1>1, <4>2, <4>3
    <3>2. CASE ~ Present(id)
      <4>1. record = NewRecord(calls[c].user)
        BY <2>1, <2>2, <2>3, <3>2, AddedType
      <4>2. EffectiveUsed(record) = {}
        BY <4>1 DEF EffectiveUsed, NewRecord
      <4> QED
        BY <1>1, <2>5, <3>2, <4>2
    <3> QED
      BY <3>1, <3>2
  <2>8. Agree(good)'
    BY <1>2, <1>10, <2>1, <2>3, <2>4, <2>7, AddAgrees
  <2>9. Pooled' \union RowIds' \subseteq Ids
    BY PoolTypeStep DEF PoolTypeOK
  <2>10. Settled'
    BY <1>4, <2>4, <2>6, <2>8, <2>9
  <2>11. BookedAdds'
    <3>1. Pooled \subseteq Pooled'
      BY <2>4 DEF Pooled, Present, MemoryTyped, Matching
    <3>2. \A k \in Callers : calls'[k] \in {calls[k], NoCall}
      BY <2>4 DEF Return, CallsTyped
    <3> QED
      BY <1>6, <2>6, <3>1, <3>2
  <2> QED
    BY <1>8, <2>4, <2>10, <2>11 DEF BookedInv
<1>11. ASSUME NEW c \in Admins, NEW user \in Users, AddBegins(c, user)
       PROVE  BookedInv'
  <2>1. UNCHANGED <<accounts, rows, month, billed, disputed, locker, update, stage, account, stamp>>
    BY <1>11 DEF AddBegins, pool, booking, bounds
  <2>2. PICK id \in Ids : /\ id \in IdentitiesOf(user)
                          /\ calls' = [calls EXCEPT ![c] = [kind |-> "add", id |-> id, user |-> user]]
                          /\ issued' = issued \union {id}
    BY <1>11 DEF AddBegins, IdentitiesOf, Pooled
  <2>3. id \in Pooled \/ Billed(id) = {}
    BY <2>2 DEF IdentitiesOf, BookedInv, Billed
  <2>4. ASSUME NEW k \in Callers, calls'[k].kind = "add", ~ Present(calls[k].id)'
        PROVE  Billed(calls[k].id)' = {}
    <3>1. CASE k = c
      <4>1. calls'[k].id = id
        BY <2>2, <2>4, <3>1 DEF CallsTyped
      <4> QED
        BY <2>1, <2>3, <2>4, <4>1 DEF Billed, Pooled, Present
    <3>2. CASE k # c
      <4>1. calls'[k] = calls[k]
        BY <2>2, <3>2 DEF CallsTyped
      <4> QED
        BY <2>1, <2>4, <4>1 DEF BookedInv, BookedAdds, Billed, Present
    <3> QED
      BY <3>1, <3>2
  <2>5. BookedAdds'
    BY <2>4 DEF BookedAdds
  <2>6. Settled'
    BY <1>5, <2>1
  <2> QED
    BY <1>8, <2>1, <2>2, <2>5, <2>6 DEF BookedInv
<1>12. ASSUME NEW c \in Charges, Resolve(c) \/ BeginCompletion(c)
       PROVE  BookedInv'
  <2>1. stage[c] \in {"new", "resolving"} /\ locker # c
    BY <1>12 DEF Resolve, BeginCompletion, LockHeld
  <2>2. locker # NoCharge => /\ stage'[locker] = stage[locker] /\ account'[locker] = account[locker]
                             /\ stamp'[locker] = stamp[locker]
    BY <1>12, <2>1 DEF Resolve, BeginCompletion, Advance, BookingTyped
  <2>3. UNCHANGED <<accounts, rows, month, billed, disputed, locker, update, calls, issued>>
    BY <1>12 DEF Resolve, BeginCompletion, pool, bounds
  <2>4. Settled'
    BY <1>5, <2>2, <2>3
  <2>5. BookedAdds'
    BY <1>7, <2>3 DEF Pooled, Present
  <2> QED
    BY <1>8, <2>3, <2>4, <2>5 DEF BookedInv
<1>13. ASSUME NEW c \in Charges, BeginTraffic(c)
       PROVE  BookedInv'
  <2>1. /\ UNCHANGED <<accounts, rows, month, billed, calls, issued>> /\ disputed \subseteq disputed'
        /\ locker = NoCharge
    BY <1>13 DEF BeginTraffic, Unlocked, pool, bounds
  <2>2. locker' # NoCharge => locker' = c /\ stage'[c] = "locked" /\ Present(account[c])
    BY <1>13, <2>1 DEF BeginTraffic, Lock, Advance, BookingTyped
  <2>3. BookedNow'
    BY <2>1, <2>2 DEF BookedInv, BookedNow, Now, Committed, EffectiveUsed, Billed, Pooled, Present
  <2>4. BookedRows'
    BY <2>1 DEF BookedInv, BookedRows, EffectiveUsed, Billed
  <2>5. BookedUpdate'
    <3>1. CASE ~ Present(account[c])
      BY <2>2, <3>1 DEF BookedUpdate
    <3>2. CASE Present(account[c])
      <4>1. PICK id \in Ids, record \in Records : id = account[c] /\ id \in Pooled /\ record = accounts[id].record
        BY <3>2, RecordsThere DEF BookingTyped, Pooled
      <4>2. /\ update' = Booked(c, record) /\ account' = account /\ stamp' = stamp /\ locker' = c
            /\ disputed' = (IF stamp[c] < record.period THEN disputed \union {id} ELSE disputed)
        BY <1>13, <3>2, <4>1 DEF BeginTraffic, Lock
      <4>3. ASSUME id \notin disputed'
            PROVE  EffectiveUsed(Booked(c, record)) = Billed(id) \union (IF stamp[c] = month THEN {c} ELSE {})
        <5>1. ~ (stamp[c] < record.period) /\ record.period <= month /\ stamp[c] <= month
          BY <4>1, <4>2, <4>3 DEF PeriodsBegun
        <5>2. EffectiveUsed(record) = Billed(id)
          BY <2>1, <4>1, <4>3 DEF BookedInv, BookedNow, Now, Committed
        <5> QED
          BY <5>1, <5>2, EffectiveUse
      <4>4. EffectiveUsed(update)' = EffectiveUsed(Booked(c, record))
        BY <2>1, <4>2 DEF EffectiveUsed
      <4>5. Billed(account[locker])' = Billed(id)
        BY <2>1, <4>1, <4>2 DEF Billed
      <4> QED
        BY <2>1, <4>1, <4>2, <4>3, <4>4, <4>5 DEF BookedUpdate
    <3> QED
      BY <3>1, <3>2
  <2>6. BookedAdds'
    BY <1>7, <2>1 DEF Pooled, Present
  <2> QED
    BY <1>8, <2>1, <2>3, <2>4, <2>5, <2>6 DEF BookedInv
<1>14. ASSUME NEW c \in Charges, CompletionTx(c)
       PROVE  BookedInv'
  <2>1. /\ c = locker /\ locker # NoCharge /\ stage[c] = "locked" /\ update \in Records
        /\ Present(account[c]) /\ stage'[c] # "locked"
        /\ UNCHANGED <<accounts, account, stamp, locker, update, issued, month, calls>>
        /\ disputed \subseteq disputed' /\ disputed' \subseteq disputed \union {account[c]}
    BY <1>14, PoolAssumption DEF CompletionTx, LockHeld, pool, Advance, BookingTyped
  <2>2. BookedUpdate'
    BY <2>1 DEF BookedUpdate
  <2>3. PICK id \in Ids : id = account[c] /\ id \in Pooled /\ id \in issued
    BY <2>1 DEF BookingTyped, Pooled, MemoryTyped
  <2>4. CASE UNCHANGED <<rows, billed, disputed>> /\ Advance(c, "failed")
    <3>1. \A k : ~ Committed(k)'
      BY <2>1, <2>4 DEF Committed, Advance, BookingTyped
    <3>2. \A k : ~ Committed(k)
      BY <2>1 DEF Committed
    <3>3. BookedNow'
      BY <2>1, <2>4, <3>1, <3>2 DEF BookedInv, BookedNow, Now, EffectiveUsed, Billed, Pooled, Present
    <3>4. BookedRows'
      BY <2>1, <2>4 DEF BookedInv, BookedRows, EffectiveUsed, Billed
    <3>5. BookedAdds'
      BY <1>7, <2>1, <2>4 DEF Pooled, Present
    <3> QED
      BY <1>8, <2>1, <2>2, <2>4, <3>3, <3>4, <3>5 DEF BookedInv
  <2>5. ASSUME Write(c), Advance(c, "committed") \/ id \in disputed'
        PROVE  BookedInv'
    <3>1. /\ Len(rows') = Len(rows) /\ rows \in Seq(Entries) /\ rows' \in Seq(Entries)
          /\ \A i \in 1 .. Len(rows) :
                /\ rows'[i].id = rows[i].id
                /\ rows'[i].record = IF rows[i].id = id THEN update ELSE rows[i].record
      BY <2>1, <2>3, <2>5, WriteRows DEF RowsTyped
    <3>2. DOMAIN rows' = 1 .. Len(rows) /\ DOMAIN rows = 1 .. Len(rows)
      BY <3>1, LenProperties
    <3>3. /\ \A k : k # id => Billed(k)' = Billed(k)
          /\ Billed(id)' = Billed(id) \union (IF stamp[c] = month THEN {c} ELSE {})
          /\ billed' \subseteq billed \union {<<c, id>>}
      BY <2>3, <2>5 DEF Write, Billed
    <3>4. \A record : EffectiveUsed(record)' = EffectiveUsed(record)
      BY <2>1 DEF EffectiveUsed
    <3>5. id \notin disputed' => EffectiveUsed(update) = Billed(id)'
      BY <2>1, <2>3, <3>3 DEF BookedInv, BookedUpdate
    <3>6. ASSUME NEW k \in Pooled' \ disputed'
          PROVE  EffectiveUsed(Now(k))' = Billed(k)'
      <4>1. k \in Pooled \ disputed /\ ~ Committed(k)
        BY <2>1, <3>6 DEF Pooled, Present, Committed
      <4>2. CASE k = id
        <5>1. Committed(k)'
          BY <2>1, <2>3, <2>5, <3>6, <4>2 DEF Committed, Advance, BookingTyped
        <5>2. Now(k)' = update
          BY <2>1, <5>1 DEF Now
        <5>3. EffectiveUsed(update)' = Billed(k)'
          BY <2>1, <3>4, <3>5, <3>6, <4>2
        <5> QED
          BY <2>1, <5>2, <5>3 DEF EffectiveUsed
      <4>3. CASE k # id
        <5>1. Now(k)' = Now(k) /\ Now(k) = accounts[k].record
          BY <2>1, <2>3, <4>1, <4>3 DEF Now, Committed
        <5>2. EffectiveUsed(Now(k)) = Billed(k)
          BY <4>1 DEF BookedInv, BookedNow
        <5> QED
          BY <2>1, <3>3, <4>3, <5>1, <5>2 DEF EffectiveUsed
      <4> QED
        BY <4>2, <4>3
    <3>7. ASSUME NEW i \in DOMAIN rows', rows'[i].id \notin disputed'
          PROVE  EffectiveUsed(rows[i].record)' = Billed(rows[i].id)'
      <4>1. PICK k, record : k = rows[i].id /\ k = rows'[i].id /\ record = rows'[i].record
        BY <3>1, <3>2
      <4>2. EffectiveUsed(record) = Billed(k)'
        <5>1. CASE k = id
          BY <3>1, <3>2, <3>5, <3>7, <4>1, <5>1
        <5>2. CASE k # id
          <6>1. record = rows[i].record /\ k \notin disputed
            BY <2>1, <3>1, <3>2, <3>7, <4>1, <5>2
          <6> QED
            BY <3>2, <3>3, <4>1, <5>2, <6>1 DEF BookedInv, BookedRows
        <5> QED
          BY <5>1, <5>2
      <4> QED
        BY <2>1, <4>1, <4>2 DEF EffectiveUsed, Billed
    <3>8. BookedAdds'
      <4>1. Pooled' = Pooled
        BY <2>1 DEF Pooled, Present
      <4> QED
        BY <1>6, <2>1, <2>3, <3>3, <4>1
    <3>9. Known'
      BY <2>1, <2>3, <3>3 DEF BookedInv
    <3> QED
      BY <2>2, <3>6, <3>7, <3>8, <3>9 DEF BookedInv, BookedNow, BookedRows
  <2> QED
    BY <1>14, <2>3, <2>4, <2>5 DEF CompletionTx
<1>15. ASSUME NEW c \in Charges, Finish(c)
       PROVE  BookedInv'
  <2>1. /\ c = locker /\ locker # NoCharge /\ Present(account[c]) /\ locker' = NoCharge /\ update \in Records
        /\ UNCHANGED <<rows, issued, calls, month, billed, disputed>>
    BY <1>15, PoolAssumption DEF Finish, LockHeld, bounds
  <2>2. PICK id \in Ids : id = account[c] /\ id \in Pooled /\ accounts[id] \in Accounts
    BY <2>1, RecordsThere DEF BookingTyped, Pooled
  <2>3. ASSUME NEW k \in Ids
        PROVE  (Present(k)' <=> Present(k)) /\ (Present(k) => accounts'[k].record = Now(k))
    <3>1. CASE stage[c] = "committed"
      <4>1. accounts' = [accounts EXCEPT ![id].record = update]
        BY <1>15, <2>1, <2>2, <3>1 DEF Finish, Finishes
      <4>2. CASE k = id
        <5>1. accounts'[k] = [accounts[id] EXCEPT !.record = update]
          BY <4>1, <4>2 DEF MemoryTyped, Matching
        <5>2. accounts'[k] \in Accounts /\ accounts'[k].record = update
          BY <2>1, <2>2, <5>1 DEF Accounts
        <5> QED
          BY <2>1, <2>2, <3>1, <4>2, <5>2, AccountForm DEF Present, Now, Committed
      <4>3. CASE k # id
        <5>1. accounts'[k] = accounts[k] /\ ~ Committed(k)
          BY <2>1, <2>2, <4>1, <4>3 DEF Committed, MemoryTyped, Matching
        <5> QED
          BY <5>1 DEF Present, Now
      <4> QED
        BY <4>2, <4>3
    <3>2. CASE stage[c] # "committed"
      BY <1>15, <2>1, <3>2 DEF Finish, Finishes, Now, Committed, Present
    <3> QED
      BY <3>1, <3>2
  <2>4. Pooled' = Pooled /\ \A k \in Pooled : Now(k)' = Now(k)
    BY <2>1, <2>3 DEF Pooled, Now, Committed
  <2>5. BookedNow'
    <3> SUFFICES ASSUME NEW k \in Pooled' \ disputed'
                 PROVE  EffectiveUsed(Now(k))' = Billed(k)'
      BY DEF BookedNow
    <3>1. EffectiveUsed(Now(k)) = Billed(k)
      BY <2>1, <2>4 DEF BookedInv, BookedNow
    <3> QED
      BY <2>1, <2>4, <3>1 DEF EffectiveUsed, Billed
  <2>6. BookedRows'
    BY <2>1 DEF BookedInv, BookedRows, EffectiveUsed, Billed
  <2>7. BookedUpdate'
    BY <2>1 DEF BookedUpdate
  <2>8. BookedAdds'
    BY <1>7, <2>1, <2>4
  <2> QED
    BY <1>8, <2>1, <2>5, <2>6, <2>7, <2>8 DEF BookedInv
\* What was booked in the months before counts no more.
<1>16. ASSUME NewMonth
       PROVE  BookedInv'
  <2>1. /\ UNCHANGED <<accounts, rows, issued, calls, locker, update, stage, account, stamp, disputed>>
        /\ month' = month + 1 /\ billed' = {}
    BY <1>16 DEF NewMonth, pool
  <2>2. \A id : Billed(id)' = {}
    BY <2>1 DEF Billed
  <2>3. ASSUME NEW record \in Records, record.period <= month
        PROVE  EffectiveUsed(record)' = {}
    <3>1. record.period # month'
      BY <2>1, <2>3, RecordsThere
    <3> QED
      BY <3>1 DEF EffectiveUsed
  <2>4. BookedNow'
    <3> SUFFICES ASSUME NEW id \in Pooled' \ disputed'
                 PROVE  EffectiveUsed(Now(id))' = {}
      BY <2>2 DEF BookedNow
    <3>1. id \in Pooled
      BY <2>1 DEF Pooled, Present
    <3>2. PICK record \in Records : record = Now(id) /\ record.period <= month
      BY <3>1, RecordsThere DEF Now, Committed, LockHeld, PeriodsBegun
    <3>3. Now(id)' = record
      BY <2>1, <3>2 DEF Now, Committed
    <3> QED
      BY <2>3, <3>2, <3>3 DEF EffectiveUsed
  <2>5. BookedRows'
    <3> SUFFICES ASSUME NEW i \in DOMAIN rows'
                 PROVE  EffectiveUsed(rows[i].record)' = {}
      BY <2>2 DEF BookedRows
    <3>1. PICK record \in Records : record = rows[i].record /\ record.period <= month
      BY <2>1, RecordsThere DEF PeriodsBegun
    <3> QED
      BY <2>1, <2>3, <3>1 DEF EffectiveUsed
  <2>6. BookedUpdate'
    <3>1. ASSUME locker # NoCharge
          PROVE  EffectiveUsed(update)' = {} /\ stamp'[locker] # month'
      <4>1. update \in Records /\ update.period <= month
        BY <3>1 DEF LockHeld, PeriodsBegun
      <4>2. stamp[locker] \in Nat /\ stamp[locker] <= month
        BY <3>1 DEF BookingTyped, PeriodsBegun
      <4>3. stamp[locker] # month'
        BY <2>1, <4>2, RecordsThere
      <4> QED
        BY <2>1, <2>3, <4>1, <4>3 DEF EffectiveUsed
    <3> QED
      BY <2>1, <2>2, <3>1 DEF BookedUpdate
  <2>7. BookedAdds'
    BY <2>2 DEF BookedAdds, Billed
  <2> QED
    BY <2>1, <2>4, <2>5, <2>6, <2>7 DEF BookedInv
<1>17. ASSUME Start
       PROVE  BookedInv'
  <2>1. /\ locker = NoCharge /\ locker' = NoCharge /\ calls = [c \in Callers |-> NoCall]
        /\ UNCHANGED <<calls, month, billed, disputed>>
    BY <1>17 DEF Start, LockHeld, booking, bounds
  <2>2. \A id \in Ids \ issued : <<id, NewRecord(Configured)>> \in good
    <3> SUFFICES ASSUME NEW id \in Ids \ issued
                 PROVE  <<id, NewRecord(Configured)>> \in good
      OBVIOUS
    <3>1. Billed(id) = {} /\ EffectiveUsed(NewRecord(Configured)) = {}
      BY DEF BookedInv, Billed, EffectiveUsed, NewRecord
    <3> QED
      BY <1>1, <3>1, NewRecordType, PoolAssumption
  <2>3. Agree(good)'
    BY <1>2, <1>17, <2>2, StartAgrees
  <2>4. \A id : Billed(id)' = Billed(id)
    BY <2>1 DEF Billed
  <2>5. Settled'
    BY <1>4, <2>1, <2>3, <2>4
  <2>6. BookedAdds'
    BY <2>1 DEF BookedAdds, NoCall
  <2>7. issued \subseteq issued'
    BY <1>17 DEF Start, Bootstrap
  <2> QED
    BY <1>8, <2>1, <2>5, <2>6, <2>7 DEF BookedInv
<1>18. ASSUME Kill
       PROVE  BookedInv'
  <2>1. /\ Pooled' = {} /\ locker' = NoCharge /\ calls' = [c \in Callers |-> NoCall]
        /\ UNCHANGED <<rows, issued, billed, disputed, month>>
    BY <1>18 DEF Kill, Pooled, Present
  <2>2. Agree(good)'
    BY <1>2, <2>1 DEF Agree, AgreeRows
  <2>3. \A id : Billed(id)' = Billed(id)
    BY <2>1 DEF Billed
  <2>4. Settled'
    BY <1>4, <2>1, <2>2, <2>3
  <2>5. BookedAdds'
    BY <2>1 DEF BookedAdds, NoCall
  <2> QED
    BY <1>8, <2>1, <2>4, <2>5 DEF BookedInv
<1>19. ASSUME \/ \E c \in Callers : CallFails(c)
              \/ \E c \in Admins, id \in Ids : LoginBegins(c, id)
              \/ \E id \in Ids : ProbeFails(id)
              \/ AskPremium \/ UNCHANGED poolVars
       PROVE  BookedInv'
  <2>1. UNCHANGED <<accounts, rows, month, billed, disputed, locker, update, stage, account, stamp, issued>>
    BY <1>19 DEF CallFails, LoginBegins, ProbeFails, AskPremium, poolVars, pool, booking, bounds
  <2>2. \A k \in Callers : calls'[k] \in {calls[k], NoCall} \/ calls'[k].kind = "login"
    BY <1>19 DEF CallFails, LoginBegins, ProbeFails, AskPremium, poolVars, Return, CallsTyped
  <2>3. BookedAdds'
    BY <2>1, <2>2 DEF BookedInv, BookedAdds, NoCall, Billed, Present
  <2>4. Settled'
    BY <1>5, <2>1
  <2> QED
    BY <1>8, <2>1, <2>3, <2>4 DEF BookedInv
<1> QED
  BY <1>9, <1>10, <1>11, <1>12, <1>13, <1>14, <1>15, <1>16, <1>17, <1>18, <1>19 DEF PoolNext

-----------------------------------------------------------------------------
(* The theorems.                                                           *)

PoolInv == PoolTypeOK /\ LockHeld /\ TableFollows /\ DeletedInv /\ PremiumIsCurrent /\ PeriodsBegun /\ BookedInv

\* The invariant of the pool holds when the process first starts.
LEMMA PoolStarts == PoolInit => PoolInv
<1> SUFFICES ASSUME PoolInit
             PROVE  PoolInv
  OBVIOUS
<1> USE DEF PoolInit
<1> DEFINE first == CHOOSE id \in Ids : TRUE
<1>1. first \in Ids /\ 1 \in 1 .. MaxMonth /\ NoCharge \notin Charges
      /\ 0 \in Clients /\ NotAsked \notin Clients /\ 0 \in 0 .. MaxFaults /\ 0 \in 0 .. MaxKills
  BY PoolAssumption, AccountForm
<1>2. Pooled = {}
  BY DEF Pooled, Present
<1>3. RowsTyped /\ RowIds \subseteq Ids /\ \A i \in DOMAIN rows : rows[i].record.period = 1 /\ rows[i].record.used = {}
  <2>1. CASE rows = <<>>
    BY <2>1 DEF RowsTyped, UniqueIds, RowIds
  <2>2. CASE rows # <<>>
    <3>1. PICK old : old = OldRow(first)
      OBVIOUS
    <3>2. /\ rows = <<old>> /\ old \in Entries /\ old.id = first /\ old.record.period = 1 /\ old.record.used = {}
      BY <1>1, <2>2, <3>1, PoolAssumption DEF OldRow, Entries, Records
    <3>3. rows \in Seq(Entries) /\ DOMAIN rows = {1} /\ rows[1] = old
      BY <3>2
    <3> QED
      BY <1>1, <3>2, <3>3 DEF RowsTyped, UniqueIds, RowIds
  <2> QED
    BY <2>1, <2>2
<1>4. MemoryTyped
  <2>1. order \in Seq(Ids) /\ IsInjective(order) /\ Range(order) = {}
    BY DEF IsInjective, Range
  <2> QED
    BY <1>2, <2>1 DEF MemoryTyped, Matching, Pooled, Present
<1>5. CallsTyped
  BY <1>3 DEF CallsTyped, NoCall
<1>6. BookingTyped
  BY <1>1 DEF BookingTyped
<1>7. RestTyped
  BY <1>1 DEF RestTyped
<1>8. PoolTypeOK
  BY <1>3, <1>4, <1>5, <1>6, <1>7, TypeParts
<1>9. LockHeld
  BY <1>1 DEF LockHeld
<1>10. TableFollows /\ DeletedInv /\ PremiumIsCurrent
  BY <1>2 DEF TableFollows, DeletedInv, DeletedStaysDeleted, PremiumIsCurrent
<1>11. PeriodsBegun
  BY <1>2, <1>3 DEF PeriodsBegun
<1>12. BookedInv
  BY <1>2, <1>3 DEF BookedInv, BookedNow, BookedRows, BookedAdds, BookedUpdate, EffectiveUsed, Billed, NoCall
<1> QED
  BY <1>8, <1>9, <1>10, <1>11, <1>12 DEF PoolInv

\* And in every state of every behaviour.
LEMMA PoolHolds == PoolSpec => []PoolInv
<1>1. PoolInv /\ [PoolNext]_poolVars => PoolInv'
  BY PoolTypeStep, LockStep, FollowStep, DeletedStep, PremiumStep, PeriodsStep, BookedStep DEF PoolInv
<1> QED
  BY <1>1, PoolStarts, PTL DEF PoolSpec

\* Every variable keeps its type, and the row ids are unique (AccountPool,
\* accountStore).
THEOREM PoolTypeCorrect == PoolSpec => []PoolTypeOK
<1>1. PoolInv => PoolTypeOK
  BY DEF PoolInv
<1> QED
  BY <1>1, PoolHolds, PTL

\* The table holds the pool whenever the lock is free and no save is in doubt,
\* for any number of accounts, calls and completions (saveOrRollbackLocked,
\* Add, finalizeCompletedJob, load).
THEOREM PoolDurable == PoolSpec => []PoolIsDurable
<1>1. PoolInv => PoolIsDurable
  <2> SUFFICES ASSUME PoolInv, Unlocked, ~inDoubt
               PROVE  rows = PoolRows(accounts, order)
    BY DEF PoolIsDurable
  <2>1. Matching(accounts, order) /\ rows \in Seq(Entries)
    BY TypeParts DEF PoolInv, MemoryTyped, RowsTyped
  <2>2. /\ Len(rows) = Len(order)
        /\ \A i \in 1 .. Len(order) : rows[i].id = order[i] /\ rows[i].record = accounts[order[i]].record
    BY DEF PoolInv, TableFollows, Unlocked, Now, Committed
  <2>3. PICK made : made = PoolRows(accounts, order)
    OBVIOUS
  <2>4. /\ made \in Seq(Entries) /\ Len(made) = Len(order)
        /\ \A i \in 1 .. Len(order) : made[i] = [id |-> order[i], record |-> accounts[order[i]].record]
    BY <2>1, <2>3, PoolRowsForm
  <2>5. ASSUME NEW i \in 1 .. Len(rows)
        PROVE  rows[i] = made[i]
    <3>1. rows[i] \in Entries
      BY <2>1, ElementOfSeq
    <3>2. rows[i].id = order[i] /\ rows[i].record = accounts[order[i]].record
      BY <2>2
    <3>3. made[i] = [id |-> order[i], record |-> accounts[order[i]].record]
      BY <2>2, <2>4
    <3> QED
      BY <3>1, <3>2, <3>3 DEF Entries
  <2> QED
    BY <2>1, <2>2, <2>3, <2>4, <2>5, SeqEqual
<1> QED
  BY <1>1, PoolHolds, PTL

\* No deleted account comes back on its own, whatever was under way when it was
\* deleted (RefreshLogin, RefreshPremiumInfo, finish).
THEOREM DeletionStays == PoolSpec => []DeletedStaysDeleted
<1>1. PoolInv => DeletedStaysDeleted
  BY DEF PoolInv, DeletedInv
<1> QED
  BY <1>1, PoolHolds, PTL

\* The premium information shown is an answer to the client the account has
\* (RefreshPremiumInfo).
THEOREM PremiumCurrent == PoolSpec => []PremiumIsCurrent
<1>1. PoolInv => PremiumIsCurrent
  BY DEF PoolInv
<1> QED
  BY <1>1, PoolHolds, PTL

\* The traffic of an account in this month is what was booked on it in this month,
\* but for the disputed ones (beginTrafficUpdate, finalizeCompletedJob,
\* saveOrRollbackLocked).
THEOREM TrafficBooked == PoolSpec => []TrafficIsBooked
<1>1. PoolInv => TrafficIsBooked
  BY DEF PoolInv, BookedInv, BookedNow, TrafficIsBooked, Unlocked, Now, Committed, Billed
<1> QED
  BY <1>1, PoolHolds, PTL

-----------------------------------------------------------------------------
(* RestoreJournal.                                                         *)

PlaceForms == [target : Nat, rollback : Nat, staged : Nat]
JournalForms == [id : Nat, original : SUBSET Files]
FilesIn(d) == {f \in Files : Dir(f) = d}
SnapshotForms(d) == [place : [FilesIn(d) -> PlaceForms], journal : JournalForms, marker : Int]

DiskTypes ==
    /\ place \in [Files -> PlaceForms]
    /\ journal \in JournalForms
    /\ marker \in Int
    /\ DOMAIN behind = Dirs /\ behind = [d \in Dirs |-> behind[d]]
    /\ \A d \in Dirs : behind[d] \in SUBSET SnapshotForms(d)
    /\ todo \in SUBSET Files /\ moved \in SUBSET Files /\ published \in SUBSET Files
    /\ committed \in BOOLEAN
    /\ restore \in Nat
    /\ syncLost \in BOOLEAN

\* What a rename, a copy or a removal makes of the places of a file.
LEMMA PlaceChanges ==
    ASSUME NEW p \in PlaceForms, NEW n \in Nat
    PROVE  /\ p.target \in Nat /\ p.rollback \in Nat /\ p.staged \in Nat
           /\ [p EXCEPT !.target = n] \in PlaceForms
           /\ [p EXCEPT !.rollback = n] \in PlaceForms
           /\ [p EXCEPT !.staged = n] \in PlaceForms
           /\ [p EXCEPT !.target = p.rollback, !.rollback = n] \in PlaceForms
           /\ [p EXCEPT !.target = n, !.rollback = p.target] \in PlaceForms
           /\ [p EXCEPT !.target = p.staged, !.staged = n] \in PlaceForms
  BY DEF PlaceForms

\* Each step of recovery and restore makes one of them.
LEMMA ChangedPlaces ==
    ASSUME DiskTypes, NEW f \in Files
    PROVE  /\ [place[f] EXCEPT !.target = Nothing] \in PlaceForms
           /\ [place[f] EXCEPT !.rollback = Nothing] \in PlaceForms
           /\ [place[f] EXCEPT !.staged = Nothing] \in PlaceForms
           /\ [place[f] EXCEPT !.staged = Copy(restore)] \in PlaceForms
           /\ [place[f] EXCEPT !.target = place[f].rollback, !.rollback = Nothing] \in PlaceForms
           /\ [place[f] EXCEPT !.target = Nothing, !.rollback = place[f].target] \in PlaceForms
           /\ [place[f] EXCEPT !.target = place[f].staged, !.staged = Nothing] \in PlaceForms
<1>1. place[f] \in PlaceForms /\ Copy(restore) \in Nat /\ Nothing \in Nat
  BY DEF DiskTypes, Copy, Nothing
<1> QED
  BY <1>1, PlaceChanges

\* A file is in one of two directories.
LEMMA DirOf == \A f \in Files : /\ Dir(f) \in Dirs
                                /\ Dir(f) = "home" <=> f \notin Away
                                /\ Dir(f) = "away" <=> f \in Away
  BY DEF Dir, Dirs

\* A snapshot of a directory, before and after a step.
LEMMA SnapshotIs ==
    /\ \A d \in Dirs : \A f \in FilesIn(d) : /\ Snapshot(d).place[f] = place[f]
                                             /\ Snapshot(d)'.place[f] = place'[f]
    /\ Snapshot("home").journal = journal /\ Snapshot("home").marker = marker
    /\ Snapshot("home")'.journal = journal' /\ Snapshot("home")'.marker = marker'
  BY DEF Snapshot, FilesIn

\* What a directory holds is one of the states a crash may leave.
LEMMA SnapshotType ==
    ASSUME DiskTypes, NEW d \in Dirs
    PROVE  Snapshot(d) \in SnapshotForms(d)
<1>1. [f \in {g \in Files : Dir(g) = d} |-> place[f]] \in [FilesIn(d) -> PlaceForms]
  BY DEF DiskTypes, FilesIn
<1>2. NoJournal \in JournalForms /\ 0 \in Int
  BY DEF NoJournal, JournalForms
<1> QED
  BY <1>1, <1>2 DEF Snapshot, SnapshotForms, DiskTypes

\* One change in a directory: the place of one file.
LEMMA ChangeTypes ==
    ASSUME DiskTypes, NEW f \in Files, NEW p \in PlaceForms, Change(f, p)
    PROVE  /\ place' \in [Files -> PlaceForms] /\ place'[f] = p
           /\ \A g \in Files \ {f} : place'[g] = place[g]
           /\ journal' = journal /\ marker' = marker
           /\ DOMAIN behind' = Dirs /\ behind' = [d \in Dirs |-> behind'[d]]
           /\ behind'[Dir(f)] = behind[Dir(f)] \union {Snapshot(Dir(f))}
           /\ \A d \in Dirs \ {Dir(f)} : behind'[d] = behind[d]
           /\ \A d \in Dirs : behind'[d] \in SUBSET SnapshotForms(d)
<1>1. Dir(f) \in Dirs
  BY DirOf
<1>2. Snapshot(Dir(f)) \in SnapshotForms(Dir(f))
  BY <1>1, SnapshotType
<1> QED
  BY <1>1, <1>2 DEF Change, Behind, DiskTypes

\* What an action leaves of the disk when it changes no file.
LEMMA HeadTypes ==
    ASSUME DiskTypes, Behind("home")
    PROVE  /\ DOMAIN behind' = Dirs /\ behind' = [d \in Dirs |-> behind'[d]]
           /\ behind'["home"] = behind["home"] \union {Snapshot("home")}
           /\ behind'["away"] = behind["away"]
           /\ \A d \in Dirs : behind'[d] \in SUBSET SnapshotForms(d)
<1>1. "home" \in Dirs /\ "away" \in Dirs /\ Snapshot("home") \in SnapshotForms("home")
  BY SnapshotType DEF Dirs
<1> QED
  BY <1>1 DEF Behind, DiskTypes

\* The steps of a recovery keep the types.
LEMMA RecoveryTypes ==
    ASSUME DiskTypes, Recovery
    PROVE  DiskTypes'
<1> USE DEF Goto, Err, NoFault, mishaps, disk, locals
<1>1. ASSUME NEW f \in Files, RemoveTarget(f) \/ PutBack(f) \/ RemoveRollback(f) \/ RemoveStaged(f)
      PROVE  DiskTypes'
  <2>1. CASE UNCHANGED disk
    BY <1>1, <2>1 DEF DiskTypes, SnapshotForms, FilesIn, RemoveTarget, PutBack, RemoveRollback, RemoveStaged
  <2>2. ASSUME NEW p \in PlaceForms, Change(f, p), todo' \in SUBSET Files,
               UNCHANGED <<moved, published, committed, restore, syncLost>>
        PROVE  DiskTypes'
    BY <2>2, ChangeTypes DEF DiskTypes
  <2>3. todo \in SUBSET Files /\ todo \ {f} \in SUBSET Files
    BY DEF DiskTypes
  <2>4. CASE RemoveTarget(f)
    BY <2>2, <2>3, <2>4, ChangedPlaces DEF RemoveTarget
  <2>5. CASE PutBack(f)
    BY <2>2, <2>3, <2>5, ChangedPlaces DEF PutBack
  <2>6. CASE RemoveRollback(f)
    BY <2>2, <2>3, <2>6, ChangedPlaces DEF RemoveRollback
  <2>7. CASE RemoveStaged(f)
    BY <2>1, <2>2, <2>3, <2>7, ChangedPlaces DEF RemoveStaged
  <2> QED
    BY <1>1, <2>4, <2>5, <2>6, <2>7
<1> USE DEF DiskTypes, SyncAll, SyncHome, SyncFails, OperationFails, Fault
<1>2. CASE NoJournalFound
  BY <1>2, HeadTypes DEF NoJournalFound
<1>3. CASE MarkerForgotten \/ RecoverFails
  BY <1>3 DEF MarkerForgotten, RecoverFails
<1>4. CASE SyncRecovered \/ SyncJournalRemoval \/ SyncMarkerRemoval
  BY <1>4 DEF SyncRecovered, SyncJournalRemoval, SyncMarkerRemoval
<1>5. CASE ReadJournal
  <2>1. committed' \in BOOLEAN /\ todo' \in SUBSET Files
    BY <1>5 DEF ReadJournal, Commits
  <2> QED
    BY <1>5, <2>1 DEF ReadJournal
<1>6. CASE RemoveJournal
  <2>1. NoJournal \in JournalForms
    BY DEF NoJournal, JournalForms
  <2>2. CASE OperationFails
    BY <1>6, <2>2 DEF RemoveJournal
  <2>3. CASE journal' = NoJournal /\ Behind("home") /\ UNCHANGED <<place, marker, locals, restore, mishaps>>
    BY <2>1, <2>3, HeadTypes
  <2> QED
    BY <1>6, <2>2, <2>3 DEF RemoveJournal
<1>7. CASE RemoveMarker
  <2>1. CASE Behind("home") /\ UNCHANGED <<place, journal, locals, restore, mishaps>> /\ marker' = 0
    BY <2>1, HeadTypes
  <2>2. CASE UNCHANGED <<behind, place, journal, locals, restore, mishaps>> /\ marker' = 0
    BY <2>2
  <2>3. CASE OperationFails
    BY <1>7, <2>3 DEF RemoveMarker
  <2> QED
    BY <1>7, <2>1, <2>2, <2>3 DEF RemoveMarker
<1> QED
  BY <1>1, <1>2, <1>3, <1>4, <1>5, <1>6, <1>7 DEF Recovery

\* So do the steps of a restore.
LEMMA RestoreTypes ==
    ASSUME DiskTypes, Restore
    PROVE  DiskTypes'
<1> USE DEF Goto, Err, NoFault, mishaps, disk, locals
<1>1. ASSUME NEW f \in Files, StageFile(f) \/ MoveAside(f) \/ Publish(f) \/ UndoFile(f) \/ Clean(f)
      PROVE  DiskTypes'
  <2>1. CASE UNCHANGED disk
    BY <1>1, <2>1 DEF DiskTypes, SnapshotForms, FilesIn, StageFile, MoveAside, Publish, UndoFile, Clean, Fault, OperationFails
  <2>2. ASSUME NEW p \in PlaceForms, Change(f, p), todo' \in SUBSET Files, moved' \in SUBSET Files, published' \in SUBSET Files,
               UNCHANGED <<committed, restore, syncLost>>
        PROVE  DiskTypes'
    BY <2>2, ChangeTypes DEF DiskTypes
  <2>3. /\ \A g \in Files : todo \ {g} \in SUBSET Files /\ moved \ {g} \in SUBSET Files /\ published \ {g} \in SUBSET Files
        /\ moved \union {f} \in SUBSET Files /\ published \union {f} \in SUBSET Files
        /\ todo \in SUBSET Files /\ moved \in SUBSET Files /\ published \in SUBSET Files
    BY DEF DiskTypes
  <2>4. CASE StageFile(f)
    BY <2>2, <2>3, <2>4, ChangedPlaces DEF StageFile
  <2>5. CASE MoveAside(f)
    BY <2>1, <2>2, <2>3, <2>5, ChangedPlaces DEF MoveAside
  <2>6. CASE Publish(f)
    BY <2>2, <2>3, <2>6, ChangedPlaces DEF Publish
  <2>7. CASE UndoFile(f)
    BY <2>1, <2>2, <2>3, <2>7, ChangedPlaces DEF UndoFile, OperationFails, Fault
  <2>8. CASE Clean(f)
    BY <2>1, <2>2, <2>3, <2>8, ChangedPlaces DEF Clean, OperationFails, Fault
  <2> QED
    BY <1>1, <2>4, <2>5, <2>6, <2>7, <2>8
<1> USE DEF DiskTypes, SyncAll, SyncHome, SyncFails, OperationFails, Fault
<1>2. CASE Stage \/ Refuse
  BY <1>2, RestoreAssumption DEF Stage, Refuse
<1>3. CASE PublishJournal
  BY <1>3, HeadTypes DEF PublishJournal, JournalForms
<1>4. CASE SyncPrepared \/ SyncMarker
  BY <1>4 DEF SyncPrepared, SyncMarker
<1>5. CASE MoveFails \/ PublishFails
  BY <1>5 DEF MoveFails, PublishFails, Undo
<1>6. CASE SyncMoved \/ SyncPublished \/ SyncUndone \/ SyncCleaned
  BY <1>6, RestoreAssumption DEF SyncMoved, SyncPublished, SyncUndone, SyncCleaned, Undo
<1>7. CASE Commit
  <2>1. marker' \in Int
    BY <1>7 DEF Commit, Torn
  <2> QED
    BY <1>7, <2>1, HeadTypes DEF Commit
<1>8. CASE Exit
  <2>1. \A d \in Dirs : Snapshot(d) \in SnapshotForms(d)
    BY SnapshotType
  <2>2. place' \in [Files -> PlaceForms]
    BY <1>8 DEF Exit, PlaceForms, Nothing
  <2> QED
    BY <1>8, <2>1, <2>2 DEF Exit
<1> QED
  BY <1>1, <1>2, <1>3, <1>4, <1>5, <1>6, <1>7, <1>8 DEF Restore

\* So do the others.
LEMMA OtherTypes ==
    ASSUME DiskTypes,
           \/ StartServer \/ StartRestore \/ StopServer \/ KillProcess \/ PowerLoss \/ UNCHANGED restoreVars
           \/ \E f \in Files : Serve(f)
    PROVE  DiskTypes'
<1>1. CASE StartServer \/ StartRestore \/ StopServer \/ KillProcess \/ UNCHANGED restoreVars
  BY <1>1 DEF StartServer, StartRestore, StopServer, KillProcess, Dead, restoreVars, DiskTypes, SnapshotForms, FilesIn,
              disk, locals, mishaps
<1>2. CASE PowerLoss
  <2>1. PICK home \in behind["home"] \union {Snapshot("home")}, away \in behind["away"] \union {Snapshot("away")} :
          /\ place' = [f \in Files |-> IF f \in Away THEN away.place[f] ELSE home.place[f]]
          /\ journal' = home.journal /\ marker' = home.marker
    BY <1>2 DEF PowerLoss
  <2>2. home \in SnapshotForms("home") /\ away \in SnapshotForms("away")
    BY <2>1, SnapshotType DEF DiskTypes, Dirs
  <2>3. \A f \in Files : (f \in Away => f \in FilesIn("away")) /\ (f \notin Away => f \in FilesIn("home"))
    BY DirOf DEF FilesIn
  <2>4. place' \in [Files -> PlaceForms] /\ journal' \in JournalForms /\ marker' \in Int
    BY <2>1, <2>2, <2>3 DEF SnapshotForms
  <2> QED
    BY <1>2, <2>4 DEF PowerLoss, Dead, DiskTypes
<1>3. ASSUME NEW f \in Files, Serve(f)
      PROVE  DiskTypes'
  <2> DEFINE Written(p) == IF p.target = place[f].target THEN [p EXCEPT !.target = Live] ELSE p
             after == IF place[f].target = Nothing THEN {}
                      ELSE {[s EXCEPT !.place[f] = Written(s.place[f])] : s \in behind["home"]}
  <2>1. f \in FilesIn("home") /\ "home" \in Dirs
    BY <1>3, DirOf DEF Serve, FilesIn, Dirs
  <2>2. behind' = [behind EXCEPT !["home"] = after]
    BY <1>3 DEF Serve
  <2>3. \A p \in PlaceForms : Written(p) \in PlaceForms
    BY DEF PlaceForms, Live
  <2>4. ASSUME NEW s \in SnapshotForms("home")
        PROVE  [s EXCEPT !.place[f] = Written(s.place[f])] \in SnapshotForms("home")
    <3>1. s.place[f] \in PlaceForms
      BY <2>1 DEF SnapshotForms
    <3>2. Written(s.place[f]) \in PlaceForms
      BY <2>3, <3>1
    <3> HIDE DEF Written
    <3>3. [s.place EXCEPT ![f] = Written(s.place[f])] \in [FilesIn("home") -> PlaceForms]
      BY <2>1, <3>2 DEF SnapshotForms
    <3> QED
      BY <3>3 DEF SnapshotForms
  <2> HIDE DEF Written
  <2>5. after \in SUBSET SnapshotForms("home")
    BY <2>1, <2>4 DEF DiskTypes
  <2> HIDE DEF after
  <2>6. place' \in [Files -> PlaceForms]
    BY <1>3 DEF Serve, DiskTypes, PlaceForms, Live
  <2>7. /\ DOMAIN behind' = Dirs /\ behind' = [d \in Dirs |-> behind'[d]]
        /\ \A d \in Dirs : behind'[d] \in SUBSET SnapshotForms(d)
    BY <2>1, <2>2, <2>5 DEF DiskTypes
  <2> QED
    BY <1>3, <2>6, <2>7 DEF Serve, DiskTypes, locals, mishaps
<1> QED
  BY <1>1, <1>2, <1>3

\* So does every step.
LEMMA DiskTypesStep == DiskTypes /\ [RestoreNext]_restoreVars => DiskTypes'
  BY RecoveryTypes, RestoreTypes, OtherTypes DEF RestoreNext

\* The states of a directory a crash may leave.  Once a sync has failed the disk
\* keeps its power, and only the current one is left.
Left(d) == {Snapshot(d)} \union (IF syncLost THEN {} ELSE behind[d])

\* What recovery, with journal j and marker m, makes of a file at p: the content
\* that is wanted.  Without a journal it has to be in its place already.
Recovers(p, j, m, f, wanted) ==
    IF j # NoJournal /\ m # j.id
    THEN IF f \in j.original
         THEN wanted # Nothing /\ wanted = (IF p.rollback = Nothing THEN p.target ELSE p.rollback)
         ELSE wanted = Nothing /\ p.rollback = Nothing
    ELSE p.target = wanted /\ (j = NoJournal => p.rollback = Nothing)

Settled(p, wanted) == p.target = wanted /\ p.rollback = Nothing

\* Whatever a crash makes of each directory, alone or together, recovery gets to
\* the same contents w.  When there is no journal they are there, in every state,
\* and when a crash may leave another journal or marker they are there now.
FilesInv(w) ==
    /\ \A s \in Left("home") :
          /\ \A f \in FilesIn("home") : Recovers(s.place[f], s.journal, s.marker, f, w[f])
          /\ \A a \in Left("away") : \A f \in FilesIn("away") : Recovers(a.place[f], s.journal, s.marker, f, w[f])
    /\ journal = NoJournal =>
          \A d \in Dirs : \A s \in Left(d) : \A f \in FilesIn(d) : Settled(s.place[f], w[f])
    /\ \/ \A s \in Left("home") : s.journal = journal /\ s.marker = marker
       \/ \A f \in Files : Settled(place[f], w[f])

\* The steps of a restore between the durable journal and the marker, and after it.
Forward == {"move", "publish", "undo", "commit"}
Marked == {"marked", "clean"}
Cleaning == {"drop", "dropped", "unmark", "unmarked"}

\* Where the process is tells whether there is a journal and whose, and that no
\* state without it, or with a marker for it, is left.
PhaseInv ==
    /\ next \in {"stage", "serve", "exit", "success"}
    /\ pc \in {"forget", "dropped", "unmark", "unmarked", "stage", "prepare", "serve", "success"} => journal = NoJournal
    /\ pc = "recover" => journal # NoJournal /\ (committed <=> marker = journal.id)
    /\ pc \in {"prepared"} \union Forward \union Marked => journal # NoJournal /\ journal.id = restore
    /\ pc \in {"prepare", "prepared"} \union Forward => marker # restore /\ restore # 0
    /\ pc \in Marked => marker = restore
    /\ pc \in Forward \union Marked \union {"success"} => next = "success"
    /\ next = "success" => pc \in Forward \union Marked \union Cleaning \union {"success"}
    /\ pc \in {"prepare", "publish"} => todo \subseteq Replaced

LeftInv ==
    /\ \A s \in Left("home") : s.marker <= restore
    /\ pc \in Forward \union Marked => \A s \in Left("home") : s.journal = journal /\ s.marker = marker
    /\ pc \in {"commit", "drop"} => \A d \in Dirs : Left(d) = {Snapshot(d)}

\* Only a restore moves files aside and publishes others.
LoopsStartEmpty == pc \notin Forward \union Marked \union Cleaning => moved = {} /\ published = {}

\* What the loops have done so far.
LoopInv(w) ==
    /\ pc = "recover" => \A f \in Files \ todo : Settled(place[f], w[f])
    /\ pc \in {"drop", "prepared"} => \A f \in Files : Settled(place[f], w[f])
    /\ pc = "prepare" => \A f \in Replaced \ todo : place[f].staged = Copy(restore)
    /\ pc \in {"prepared", "move"} => \A f \in Replaced : place[f].staged = Copy(restore)
    /\ pc = "move" =>
          /\ published = {} /\ moved = journal.original \ todo
          /\ \A f \in todo : Settled(place[f], w[f])
          /\ \A f \in Files \ todo : place[f].target = Nothing
    /\ pc \in Forward =>
          /\ moved \subseteq journal.original
          /\ \A f \in moved : place[f].rollback # Nothing
          /\ published \intersect journal.original \subseteq moved
    /\ pc = "publish" => \A f \in todo : place[f].staged = Copy(restore) /\ place[f].target = Nothing
    /\ pc \in {"publish", "commit"} => moved = journal.original
    /\ pc = "publish" => \A f \in Files \ todo : place[f].target = Restored(restore)[f]
    /\ pc = "commit" => \A f \in Files : place[f].target = Restored(restore)[f]
    /\ pc \in {"prepared"} \union Forward => Restored(restore) \in agreed
    /\ pc \in Marked \union {"success"} \/ (next = "success" /\ pc \in Cleaning) => w = Restored(restore)

RestoreHolds(w) == w \in agreed /\ w \in [Files -> Nat] /\ FilesInv(w) /\ LoopInv(w)

RestoreInv == DiskTypes /\ LoopsStartEmpty /\ PhaseInv /\ LeftInv /\ \E w \in agreed : RestoreHolds(w)

-----------------------------------------------------------------------------
(* The disk in a step.                                                     *)

\* No file, journal or marker changes, and no state is left that was not.
Still == place' = place /\ journal' = journal /\ marker' = marker /\ \A d \in Dirs : Left(d)' \subseteq Left(d)

\* The states that may be left are those that were, and the new one.
Grows == \A d \in Dirs : Left(d)' \subseteq Left(d) \union {Snapshot(d)'}

\* Where no file changes, no directory does.
LEMMA SameSnapshots ==
    ASSUME place' = place, journal' = journal, marker' = marker
    PROVE  \A d \in Dirs : Snapshot(d)' = Snapshot(d)
  BY DEF Snapshot

\* A step that leaves the disk alone, or syncs it, adds no state a crash may leave.
LEMMA StillOrSynced ==
    ASSUME DiskTypes, syncLost' = TRUE \/ syncLost' = syncLost
    PROVE  /\ UNCHANGED disk => Still
           /\ SyncAll => Still /\ \A d \in Dirs : Left(d)' = {Snapshot(d)'}
           /\ SyncHome => Still /\ Left("home")' = {Snapshot("home")'}
<1>1. UNCHANGED disk \/ SyncAll \/ SyncHome => place' = place /\ journal' = journal /\ marker' = marker
  BY DEF disk, SyncAll, SyncHome
<1>2. SyncAll => \A d \in Dirs : behind'[d] = {}
  BY DEF SyncAll
<1>3. SyncHome => behind'["home"] = {} /\ \A d \in Dirs : behind'[d] \subseteq behind[d]
  BY DEF SyncHome, DiskTypes, Dirs
<1>4. UNCHANGED disk => \A d \in Dirs : behind'[d] = behind[d]
  BY DEF disk
<1>. DEFINE Kept(d) == IF syncLost THEN {} ELSE behind[d]
           KeptThen(d) == IF syncLost' THEN {} ELSE behind'[d]
<1>. \A d \in Dirs : behind'[d] \subseteq behind[d] => KeptThen(d) \subseteq Kept(d)
  OBVIOUS
<1>5. UNCHANGED disk => Still
  BY <1>1, <1>4, SameSnapshots DEF Still, Left
<1>6. SyncAll => Still /\ \A d \in Dirs : Left(d)' = {Snapshot(d)'}
  BY <1>1, <1>2, SameSnapshots DEF Still, Left
<1>7. SyncHome => Still
  BY <1>1, <1>3, SameSnapshots DEF Still, Left
<1>8. SyncHome => Left("home")' = {Snapshot("home")'}
  BY <1>3 DEF Left
<1> QED
  BY <1>5, <1>6, <1>7, <1>8

\* After a sync that failed only what is there counts.
LEMMA SyncLostLeaves ==
    ASSUME place' = place, journal' = journal, marker' = marker, syncLost' = TRUE
    PROVE  Still /\ \A d \in Dirs : Left(d)' = {Snapshot(d)'}
  BY SameSnapshots DEF Still, Left

\* A change of one file adds the states of its directory with that file changed.
LEMMA ChangeGrows ==
    ASSUME DiskTypes, NEW f \in Files, NEW p \in PlaceForms, Change(f, p), syncLost' = syncLost
    PROVE  /\ Grows
           /\ \A d \in Dirs \ {Dir(f)} : Left(d)' = Left(d)
<1>1. \A d \in Dirs \ {Dir(f)} : Snapshot(d)' = Snapshot(d)
  <2> SUFFICES ASSUME NEW d \in Dirs, d # Dir(f)
               PROVE  Snapshot(d)' = Snapshot(d)
    OBVIOUS
  <2>1. \A g \in FilesIn(d) : place'[g] = place[g]
    BY ChangeTypes DEF FilesIn
  <2>2. [g \in {h \in Files : Dir(h) = d} |-> place'[g]] = [g \in {h \in Files : Dir(h) = d} |-> place[g]]
    BY <2>1 DEF FilesIn
  <2>3. journal' = journal /\ marker' = marker
    BY ChangeTypes
  <2> QED
    BY <2>2, <2>3 DEF Snapshot
<1>2. \A d \in Dirs \ {Dir(f)} : Left(d)' = Left(d)
  BY <1>1, ChangeTypes DEF Left
<1>3. Left(Dir(f))' \subseteq Left(Dir(f)) \union {Snapshot(Dir(f))'}
  BY ChangeTypes DEF Left
<1> QED
  BY <1>2, <1>3 DEF Grows

\* A change of the journal or the marker adds those of the home directory.
LEMMA HeadGrows ==
    ASSUME DiskTypes, Behind("home"), place' = place, syncLost' = syncLost
    PROVE  Grows /\ Left("away")' = Left("away")
<1>1. Snapshot("away")' = Snapshot("away")
  BY DEF Snapshot
<1>2. Left("away")' = Left("away")
  BY <1>1, HeadTypes DEF Left
<1>3. Left("home")' \subseteq Left("home") \union {Snapshot("home")'}
  BY HeadTypes DEF Left
<1> QED
  BY <1>2, <1>3 DEF Grows, Dirs

\* Recovery works for the state at hand too.
LEMMA HereRecovers ==
    ASSUME NEW w, FilesInv(w)
    PROVE  /\ \A f \in Files : Recovers(place[f], journal, marker, f, w[f])
           /\ journal = NoJournal => \A f \in Files : Settled(place[f], w[f])
<1>1. \A d \in Dirs : Snapshot(d) \in Left(d)
  BY DEF Left
<1>2. "home" \in Dirs /\ "away" \in Dirs /\ \A f \in Files : f \in FilesIn("home") \/ f \in FilesIn("away")
  BY DirOf DEF Dirs, FilesIn
<1>3. \A f \in Files : Recovers(place[f], journal, marker, f, w[f])
  BY <1>1, <1>2, SnapshotIs DEF FilesInv
<1>4. journal = NoJournal => \A f \in Files : Settled(place[f], w[f])
  BY <1>1, <1>2, SnapshotIs DEF FilesInv
<1> QED
  BY <1>3, <1>4

\* Where everything is settled, it does not matter how a recovery would go.
LEMMA SettledRecovers ==
    ASSUME NEW p, NEW q, NEW j, NEW m, NEW f, NEW x, Recovers(p, j, m, f, x), Settled(p, x), Settled(q, x)
    PROVE  Recovers(q, j, m, f, x)
  BY DEF Recovers, Settled

\* Recovery still gets there when no file has changed,
LEMMA StillRecovers ==
    ASSUME NEW w, FilesInv(w), Still
    PROVE  FilesInv(w)'
<1>1. \/ \A s \in Left("home")' : s.journal = journal' /\ s.marker = marker'
      \/ \A f \in Files : Settled(place'[f], w[f])
  BY DEF FilesInv, Still, Dirs
<1>2. /\ \A s \in Left("home")' :
            /\ \A f \in FilesIn("home") : Recovers(s.place[f], s.journal, s.marker, f, w[f])
            /\ \A a \in Left("away")' : \A f \in FilesIn("away") : Recovers(a.place[f], s.journal, s.marker, f, w[f])
      /\ journal' = NoJournal =>
            \A d \in Dirs : \A s \in Left(d)' : \A f \in FilesIn(d) : Settled(s.place[f], w[f])
  BY DEF FilesInv, Still, Dirs
<1> QED
  BY <1>1, <1>2 DEF FilesInv

\* when one file has changed to a place from which recovery gets there, and which
\* is settled if the file was or belongs to a journal that is durable,
LEMMA ChangeRecovers ==
    ASSUME DiskTypes, NEW w, FilesInv(w), NEW f \in Files, NEW p \in PlaceForms, Change(f, p), syncLost' = syncLost,
           Recovers(p, journal, marker, f, w[f]),
           \/ Settled(place[f], w[f]) => Settled(p, w[f])
           \/ journal # NoJournal /\ \A s \in Left("home") : s.journal = journal /\ s.marker = marker
    PROVE  FilesInv(w)'
<1>1. /\ place'[f] = p /\ \A g \in Files \ {f} : place'[g] = place[g]
      /\ journal' = journal /\ marker' = marker
  BY ChangeTypes
<1>2. Grows /\ \A d \in Dirs \ {Dir(f)} : Left(d)' = Left(d)
  BY ChangeGrows
<1>3. \A d \in Dirs : Snapshot(d) \in Left(d) /\ d \in {"home", "away"}
  BY DEF Left, Dirs
<1>4. "home" \in Dirs /\ "away" \in Dirs
  BY DEF Dirs
<1>5. Snapshot("home").journal = journal /\ Snapshot("home").marker = marker
  BY SnapshotIs
<1>6. ASSUME NEW s \in Left("home"), f \in Away \/ s = Snapshot("home")
      PROVE  Recovers(p, s.journal, s.marker, f, w[f])
  <2>1. CASE s.journal = journal /\ s.marker = marker
    BY <2>1
  <2>2. CASE Settled(place[f], w[f]) /\ Settled(p, w[f])
    <3>1. Recovers(place[f], s.journal, s.marker, f, w[f])
      <4>1. CASE s = Snapshot("home")
        BY <1>5, <4>1, HereRecovers
      <4>2. CASE f \in Away
        <5>1. f \in FilesIn("away") /\ Snapshot("away").place[f] = place[f]
          BY <1>4, <4>2, SnapshotIs, DirOf DEF FilesIn
        <5> QED
          BY <1>3, <1>4, <5>1 DEF FilesInv
      <4> QED
        BY <1>6, <4>1, <4>2
    <3> QED
      BY <2>2, <3>1, SettledRecovers
  <2> QED
    BY <2>1, <2>2 DEF FilesInv
<1>7. journal = NoJournal => Settled(p, w[f])
  BY HereRecovers
<1>8. \/ \A s \in Left("home")' : s.journal = journal' /\ s.marker = marker'
      \/ \A g \in Files : Settled(place'[g], w[g])
  <2>1. CASE \A s \in Left("home") : s.journal = journal /\ s.marker = marker
    <3>1. ASSUME NEW s \in Left("home")'
          PROVE  s.journal = journal' /\ s.marker = marker'
      <4>1. s \in Left("home") \/ s = Snapshot("home")'
        BY <1>2, <1>4 DEF Grows
      <4> QED
        BY <1>1, <2>1, <4>1, SnapshotIs
    <3> QED
      BY <3>1
  <2>2. CASE (\A g \in Files : Settled(place[g], w[g])) /\ Settled(p, w[f])
    BY <1>1, <2>2
  <2> QED
    BY <2>1, <2>2 DEF FilesInv
<1>9. CASE f \in Away
  <2>1. Dir(f) = "away" /\ f \in FilesIn("away") /\ Left("home")' = Left("home")
    BY <1>2, <1>4, <1>9 DEF Dir, FilesIn
  <2>2. ASSUME NEW s \in Left("home"), NEW a \in Left("away")', NEW g \in FilesIn("away")
        PROVE  Recovers(a.place[g], s.journal, s.marker, g, w[g])
    <3>1. CASE a \in Left("away")
      BY <2>2, <3>1 DEF FilesInv
    <3>2. CASE a = Snapshot("away")'
      <4>1. a.place[g] = IF g = f THEN p ELSE Snapshot("away").place[g]
        BY <1>1, <1>4, <3>2, SnapshotIs DEF FilesIn
      <4> QED
        BY <1>3, <1>4, <1>9, <1>6, <4>1 DEF FilesInv
    <3> QED
      BY <1>2, <1>4, <3>1, <3>2 DEF Grows
  <2>3. ASSUME journal = NoJournal, NEW d \in Dirs, NEW s \in Left(d)', NEW g \in FilesIn(d)
        PROVE  Settled(s.place[g], w[g])
    <3>1. CASE s \in Left(d)
      BY <2>3, <3>1 DEF FilesInv
    <3>2. CASE s = Snapshot(d)'
      <4>1. s.place[g] = IF g = f THEN p ELSE Snapshot(d).place[g]
        BY <1>1, <3>2, SnapshotIs DEF FilesIn
      <4> QED
        BY <1>3, <1>7, <2>3, <4>1 DEF FilesInv
    <3> QED
      BY <1>2, <3>1, <3>2 DEF Grows
  <2>4. \A s \in Left("home") : \A g \in FilesIn("home") : Recovers(s.place[g], s.journal, s.marker, g, w[g])
    BY DEF FilesInv
  <2> QED
    BY <1>1, <1>8, <2>1, <2>2, <2>3, <2>4 DEF FilesInv
<1>10. CASE f \notin Away
  <2>1. Dir(f) = "home" /\ f \in FilesIn("home") /\ Left("away")' = Left("away")
    BY <1>2, <1>4, <1>10 DEF Dir, FilesIn
  <2>2. ASSUME NEW s \in Left("home")', NEW g \in FilesIn("home")
        PROVE  Recovers(s.place[g], s.journal, s.marker, g, w[g])
    <3>1. CASE s \in Left("home")
      BY <2>2, <3>1 DEF FilesInv
    <3>2. CASE s = Snapshot("home")'
      <4>1. s.place[g] = IF g = f THEN p ELSE Snapshot("home").place[g]
        BY <1>1, <1>4, <3>2, SnapshotIs DEF FilesIn
      <4>2. s.journal = Snapshot("home").journal /\ s.marker = Snapshot("home").marker
        BY <1>1, <3>2, SnapshotIs
      <4> QED
        BY <1>3, <1>4, <1>6, <4>1, <4>2 DEF FilesInv
    <3> QED
      BY <1>2, <1>4, <3>1, <3>2 DEF Grows
  <2>3. ASSUME NEW s \in Left("home")', NEW a \in Left("away"), NEW g \in FilesIn("away")
        PROVE  Recovers(a.place[g], s.journal, s.marker, g, w[g])
    <3>1. CASE s \in Left("home")
      BY <2>3, <3>1 DEF FilesInv
    <3>2. CASE s = Snapshot("home")'
      <4>1. s.journal = Snapshot("home").journal /\ s.marker = Snapshot("home").marker
        BY <1>1, <3>2, SnapshotIs
      <4> QED
        BY <1>3, <1>4, <4>1 DEF FilesInv
    <3> QED
      BY <1>2, <1>4, <3>1, <3>2 DEF Grows
  <2>4. ASSUME journal = NoJournal, NEW d \in Dirs, NEW s \in Left(d)', NEW g \in FilesIn(d)
        PROVE  Settled(s.place[g], w[g])
    <3>1. CASE s \in Left(d)
      BY <2>4, <3>1 DEF FilesInv
    <3>2. CASE s = Snapshot(d)'
      <4>1. s.place[g] = IF g = f THEN p ELSE Snapshot(d).place[g]
        BY <1>1, <3>2, SnapshotIs DEF FilesIn
      <4> QED
        BY <1>3, <1>7, <2>4, <4>1 DEF FilesInv
    <3> QED
      BY <1>2, <3>1, <3>2 DEF Grows
  <2> QED
    BY <1>1, <1>8, <2>1, <2>2, <2>3, <2>4 DEF FilesInv
<1> QED
  BY <1>9, <1>10

\* and when the journal or the marker has changed, if it gets there with the new
\* ones from every place that may be left.
LEMMA HeadRecovers ==
    ASSUME NEW w, FilesInv(w), place' = place, Grows, Left("away")' = Left("away"),
           \A f \in FilesIn("home") : Recovers(place[f], journal', marker', f, w[f]),
           \A a \in Left("away") : \A f \in FilesIn("away") : Recovers(a.place[f], journal', marker', f, w[f]),
           journal' = NoJournal =>
              \A d \in Dirs : \A s \in Left(d) : \A f \in FilesIn(d) : Settled(s.place[f], w[f]),
           \A f \in Files : Settled(place[f], w[f])
    PROVE  FilesInv(w)'
<1>1. "home" \in Dirs /\ "away" \in Dirs /\ Left("home")' \subseteq Left("home") \union {Snapshot("home")'}
  BY DEF Grows, Dirs
<1>2. \A f \in FilesIn("home") : Snapshot("home")'.place[f] = place[f]
  BY <1>1, SnapshotIs
<1>3. Snapshot("home")'.journal = journal' /\ Snapshot("home")'.marker = marker'
  BY SnapshotIs
<1>4. ASSUME NEW s \in Left("home")', NEW f \in FilesIn("home")
      PROVE  Recovers(s.place[f], s.journal, s.marker, f, w[f])
  BY <1>1, <1>2, <1>3 DEF FilesInv
<1>5. ASSUME NEW s \in Left("home")', NEW a \in Left("away"), NEW f \in FilesIn("away")
      PROVE  Recovers(a.place[f], s.journal, s.marker, f, w[f])
  BY <1>1, <1>3 DEF FilesInv
<1>6. ASSUME journal' = NoJournal, NEW d \in Dirs, NEW s \in Left(d)', NEW f \in FilesIn(d)
      PROVE  Settled(s.place[f], w[f])
  <2>1. CASE d = "away"
    BY <1>6, <2>1
  <2>2. CASE d = "home"
    BY <1>1, <1>2, <1>6, <2>2 DEF FilesIn
  <2> QED
    BY <2>1, <2>2 DEF Dirs
<1> QED
  BY <1>4, <1>5, <1>6 DEF FilesInv

-----------------------------------------------------------------------------
(* The steps.                                                              *)

\* What each step has to establish.
Holds == PhaseInv /\ LeftInv /\ \E w \in agreed : RestoreHolds(w)

\* A step that changes no file, journal or marker and stays with the contents
\* agreed has only its place in the process to account for.
LEMMA StillHolds ==
    ASSUME DiskTypes, LeftInv, NEW w, RestoreHolds(w), Still, restore' = restore, agreed' = agreed,
           PhaseInv', LoopInv(w)',
           pc' \in Forward \union Marked =>
              pc \in Forward \union Marked \/ Left("home")' = {Snapshot("home")'},
           pc' \in {"commit", "drop"} => \A d \in Dirs : Left(d)' = {Snapshot(d)'}
    PROVE  Holds'
<1>1. FilesInv(w)'
  BY StillRecovers DEF RestoreHolds
<1>2. RestoreHolds(w)' /\ w \in agreed'
  BY <1>1 DEF RestoreHolds
<1>3. "home" \in Dirs /\ Left("home")' \subseteq Left("home")
  BY DEF Dirs, Still
<1>4. \A s \in Left("home")' : s.marker <= restore'
  BY <1>3 DEF LeftInv
<1>5. ASSUME pc' \in Forward \union Marked, NEW s \in Left("home")'
      PROVE  s.journal = journal' /\ s.marker = marker'
  <2>1. CASE pc \in Forward \union Marked
    BY <1>3, <1>5, <2>1 DEF LeftInv, Still
  <2>2. CASE Left("home")' = {Snapshot("home")'}
    BY <1>5, <2>2, SnapshotIs
  <2> QED
    BY <1>5, <2>1, <2>2
<1>6. LeftInv'
  BY <1>4, <1>5 DEF LeftInv
<1> QED
  BY <1>2, <1>6 DEF Holds

\* The process ends, or begins with recovery.
LEMMA Rests ==
    ASSUME DiskTypes, LeftInv, NEW w, RestoreHolds(w), Still, restore' = restore, agreed' = agreed,
           pc' \in {"idle", "open", "exit"}, next' \in {"stage", "serve", "exit"}
    PROVE  Holds'
<1>1. PhaseInv'
  BY DEF PhaseInv, Forward, Marked, Cleaning
<1>2. LoopInv(w)'
  BY DEF LoopInv, Forward, Marked, Cleaning
<1> QED
  BY <1>1, <1>2, StillHolds DEF Forward, Marked

\* A fault adds no state.
LEMMA FaultsAreStill ==
    ASSUME DiskTypes
    PROVE  /\ NoFault => syncLost' = syncLost
           /\ OperationFails => Still /\ UNCHANGED disk
           /\ SyncFails => Still /\ place' = place /\ journal' = journal /\ marker' = marker
           /\ NoFault /\ UNCHANGED disk => Still
           /\ NoFault /\ SyncHome => Still /\ Left("home")' = {Snapshot("home")'}
           /\ NoFault /\ SyncAll => Still /\ \A d \in Dirs : Left(d)' = {Snapshot(d)'}
<1>1. NoFault => syncLost' = syncLost
  BY DEF NoFault, mishaps
<1>2. OperationFails => syncLost' = syncLost /\ UNCHANGED disk
  BY DEF OperationFails
<1>3. SyncFails => syncLost' = TRUE /\ UNCHANGED disk
  BY DEF SyncFails
<1>4. UNCHANGED disk => place' = place /\ journal' = journal /\ marker' = marker
  BY DEF disk
<1> QED
  BY <1>1, <1>2, <1>3, <1>4, StillOrSynced

\* A step that ends in an error keeps the invariant.
LEMMA ErrHolds ==
    ASSUME DiskTypes, PhaseInv, LeftInv, NEW w, RestoreHolds(w), restore' = restore, agreed' = agreed,
           OperationFails \/ SyncFails \/ (NoFault /\ (UNCHANGED disk \/ SyncAll)),
           Err
    PROVE  Holds'
<1>1. Still
  BY FaultsAreStill
<1>2. pc' \in {"idle", "open", "exit"} /\ next' \in {"stage", "serve", "exit"}
  BY DEF Err, PhaseInv
<1> QED
  BY <1>1, <1>2, Rests

\* So do a start, a stop and a kill,
LEMMA IdleSteps ==
    ASSUME DiskTypes, PhaseInv, LeftInv, NEW w, RestoreHolds(w),
           \/ StartServer \/ StartRestore \/ StopServer \/ KillProcess \/ Refuse
    PROVE  Holds'
<1>1. UNCHANGED disk /\ syncLost' = syncLost /\ restore' = restore /\ agreed' = agreed
  BY DEF StartServer, StartRestore, StopServer, KillProcess, Refuse, Dead, mishaps
<1>2. pc' \in {"idle", "open", "exit"}
  BY DEF StartServer, StartRestore, StopServer, KillProcess, Refuse, Dead
<1>3. next' \in {"stage", "serve", "exit"}
  BY DEF StartServer, StartRestore, StopServer, KillProcess, Refuse, Dead, PhaseInv, Forward, Marked, Cleaning
<1> QED
  BY <1>1, <1>2, <1>3, Rests, StillOrSynced

\* The end of a recovery, or of a restore: the process goes where it was to go.
LEMMA GoesOn ==
    ASSUME DiskTypes, PhaseInv, LeftInv, NEW w, RestoreHolds(w), Still, restore' = restore, agreed' = agreed,
           journal = NoJournal, pc \in {"open", "forget", "unmarked"}, Goto(next)
    PROVE  Holds'
<1>1. PhaseInv'
  BY DEF PhaseInv, Forward, Marked, Cleaning, Goto, Still
<1>2. LoopInv(w)'
  BY DEF PhaseInv, RestoreHolds, LoopInv, Forward, Marked, Cleaning, Goto
<1>3. pc' \notin Forward \union Marked /\ pc' \notin {"commit", "drop"}
  BY DEF PhaseInv, Forward, Marked, Goto
<1> QED
  BY <1>1, <1>2, <1>3, StillHolds

\* the steps of a recovery that change no file,
LEMMA RecoveryStill ==
    ASSUME DiskTypes, PhaseInv, LeftInv, NEW w, RestoreHolds(w),
           \/ MarkerForgotten \/ ReadJournal \/ RecoverFails \/ SyncRecovered
           \/ SyncJournalRemoval \/ SyncMarkerRemoval
    PROVE  Holds'
<1>1. restore' = restore /\ agreed' = agreed
  BY DEF MarkerForgotten, ReadJournal, RecoverFails, SyncRecovered, SyncJournalRemoval, SyncMarkerRemoval
<1>2. CASE MarkerForgotten
  BY <1>1, <1>2, GoesOn, FaultsAreStill DEF MarkerForgotten, PhaseInv
<1>3. CASE SyncMarkerRemoval
  <2>1. CASE SyncFails /\ Err
    BY <1>1, <2>1, ErrHolds
  <2>2. CASE SyncHome /\ NoFault /\ Goto(next)
    BY <1>1, <1>3, <2>2, GoesOn, FaultsAreStill DEF SyncMarkerRemoval, PhaseInv
  <2> QED
    BY <1>3, <2>1, <2>2 DEF SyncMarkerRemoval
<1>4. CASE RecoverFails
  BY <1>1, <1>4, ErrHolds DEF RecoverFails
<1>5. CASE ReadJournal
  <2>1. CASE OperationFails /\ Err
    BY <1>1, <2>1, ErrHolds
  <2>2. CASE committed' = Commits(journal) /\ todo' = Files /\ Goto("recover") /\ NoFault /\ UNCHANGED disk
    <3>1. Still
      BY <2>2, FaultsAreStill
    <3>2. journal # NoJournal /\ (committed' <=> marker = journal.id)
      BY <1>5, <2>2 DEF ReadJournal, Commits
    <3>3. next # "success"
      BY <1>5 DEF ReadJournal, PhaseInv, Forward, Marked, Cleaning
    <3>4. PhaseInv'
      BY <2>2, <3>1, <3>2, <3>3 DEF PhaseInv, Forward, Marked, Cleaning, Goto, Still
    <3>5. LoopInv(w)'
      BY <2>2, <3>3 DEF LoopInv, Forward, Marked, Cleaning, Goto
    <3> QED
      BY <1>1, <2>2, <3>1, <3>4, <3>5, StillHolds DEF Forward, Marked, Goto
  <2> QED
    BY <1>5, <2>1, <2>2 DEF ReadJournal
<1>6. CASE SyncRecovered
  <2>1. CASE SyncFails /\ Err
    BY <1>1, <2>1, ErrHolds
  <2>2. CASE SyncAll /\ NoFault /\ Goto("drop")
    <3>1. Still /\ \A d \in Dirs : Left(d)' = {Snapshot(d)'}
      BY <2>2, FaultsAreStill
    <3>2. next # "success" /\ pc = "recover" /\ todo = {}
      BY <1>6 DEF SyncRecovered, PhaseInv, Forward, Marked, Cleaning
    <3>3. PhaseInv'
      BY <2>2, <3>1, <3>2 DEF PhaseInv, Forward, Marked, Cleaning, Goto, Still
    <3>4. \A f \in Files : Settled(place'[f], w[f])
      BY <3>1, <3>2 DEF RestoreHolds, LoopInv, Still
    <3>5. LoopInv(w)'
      BY <2>2, <3>2, <3>4 DEF LoopInv, Forward, Marked, Cleaning, Goto
    <3> QED
      BY <1>1, <2>2, <3>1, <3>3, <3>5, StillHolds DEF Forward, Marked, Goto
  <2> QED
    BY <1>6, <2>1, <2>2 DEF SyncRecovered
<1>7. CASE SyncJournalRemoval
  <2>1. CASE SyncFails /\ Err
    BY <1>1, <2>1, ErrHolds
  <2>2. CASE SyncHome /\ NoFault /\ Goto("unmark")
    <3>1. Still
      BY <2>2, FaultsAreStill
    <3>2. pc = "dropped"
      BY <1>7 DEF SyncJournalRemoval
    <3>3. PhaseInv'
      BY <2>2, <3>1, <3>2 DEF PhaseInv, Forward, Marked, Cleaning, Goto, Still
    <3>4. LoopInv(w)'
      BY <1>1, <2>2, <3>2 DEF RestoreHolds, LoopInv, Forward, Marked, Cleaning, Goto
    <3> QED
      BY <1>1, <2>2, <3>1, <3>3, <3>4, StillHolds DEF Forward, Marked, Goto
  <2> QED
    BY <1>7, <2>1, <2>2 DEF SyncJournalRemoval
<1> QED
  BY <1>2, <1>3, <1>4, <1>5, <1>6, <1>7

\* those of a restore,
LEMMA RestoreStill ==
    ASSUME DiskTypes, LoopsStartEmpty, PhaseInv, LeftInv, NEW w, RestoreHolds(w),
           \/ Stage \/ SyncPrepared \/ MoveFails \/ SyncMoved \/ PublishFails \/ SyncPublished
           \/ SyncUndone \/ SyncMarker \/ SyncCleaned
    PROVE  Holds'
<1>1. CASE Stage
  <2>1. Still /\ restore' = restore + 1 /\ agreed' = agreed
    BY <1>1, StillOrSynced DEF Stage, mishaps
  <2>2. Snapshot("home") \in Left("home") /\ Snapshot("home").marker = marker
    BY SnapshotIs DEF Left
  <2>3. restore \in Nat /\ marker \in Int /\ marker <= restore
    BY <2>2 DEF DiskTypes, LeftInv
  <2>4. marker' # restore' /\ restore' # 0
    BY <2>1, <2>3 DEF Still
  <2>5. PhaseInv'
    BY <1>1, <2>1, <2>4 DEF Stage, PhaseInv, Forward, Marked, Cleaning, Goto, Still
  <2>6. ASSUME NEW s \in Left("home")'
        PROVE  s.marker <= restore'
    <3>1. s \in Left("home")
      BY <2>1, <2>6 DEF Still, Dirs
    <3>2. s \in SnapshotForms("home")
      BY <3>1, SnapshotType DEF Left, DiskTypes, Dirs
    <3>3. s.marker \in Int /\ s.marker <= restore
      BY <3>1, <3>2 DEF SnapshotForms, LeftInv
    <3> QED
      BY <2>1, <2>3, <3>3
  <2>7. LeftInv'
    BY <1>1, <2>6 DEF LeftInv, Stage, Goto, Forward, Marked
  <2>8. LoopInv(w)'
    BY <1>1 DEF Stage, LoopInv, Forward, Marked, Cleaning, Goto, PhaseInv
  <2>9. FilesInv(w)'
    BY <2>1, StillRecovers DEF RestoreHolds
  <2> QED
    BY <2>1, <2>5, <2>7, <2>8, <2>9 DEF Holds, RestoreHolds
<1>2. ASSUME \/ SyncPrepared \/ MoveFails \/ SyncMoved \/ PublishFails \/ SyncPublished
             \/ SyncUndone \/ SyncMarker \/ SyncCleaned
      PROVE  restore' = restore /\ agreed' = agreed
  BY <1>2 DEF SyncPrepared, MoveFails, SyncMoved, PublishFails, SyncPublished, SyncUndone, SyncMarker, SyncCleaned
<1>3. ASSUME OperationFails \/ SyncFails, pc \in {"move", "publish"}, Undo, restore' = restore, agreed' = agreed
      PROVE  Holds'
  <2>1. Still
    BY <1>3, FaultsAreStill
  <2>2. PhaseInv'
    BY <1>3, <2>1 DEF Undo, PhaseInv, Forward, Marked, Cleaning, Still
  <2>3. LoopInv(w)'
    BY <1>3, <2>1 DEF Undo, RestoreHolds, LoopInv, Forward, Marked, Cleaning, Still
  <2> QED
    BY <1>3, <2>1, <2>2, <2>3, StillHolds DEF Undo, Forward, Marked
<1>4. CASE SyncPrepared
  <2>1. CASE SyncFails /\ pc' = "exit" /\ next' = "exit"
    BY <1>2, <1>4, <2>1, Rests, FaultsAreStill
  <2>2. CASE SyncHome /\ NoFault /\ pc' = "move" /\ next' = "success" /\ todo' = Files
    <3>1. Still /\ Left("home")' = {Snapshot("home")'}
      BY <2>2, FaultsAreStill
    <3>2. pc = "prepared" /\ UNCHANGED <<moved, published>>
      BY <1>4 DEF SyncPrepared
    <3>3. PhaseInv'
      BY <1>2, <1>4, <2>2, <3>1, <3>2 DEF PhaseInv, Forward, Marked, Cleaning, Still
    <3>4. moved' = {} /\ published' = {} /\ journal.original \subseteq Files
      BY <3>2 DEF LoopsStartEmpty, Forward, Marked, Cleaning, DiskTypes, JournalForms
    <3>5. LoopInv(w)'
      <4>1. /\ \A f \in Files : Settled(place'[f], w[f])
            /\ \A f \in Replaced : place'[f].staged = Copy(restore)
            /\ Restored(restore) \in agreed
        BY <3>1, <3>2 DEF RestoreHolds, LoopInv, Forward, Still
      <4>2. moved' = journal'.original \ todo' /\ todo' = Files
        BY <2>2, <3>1, <3>4 DEF Still
      <4> QED
        BY <1>2, <1>4, <2>2, <3>4, <4>1, <4>2 DEF LoopInv, Forward, Marked, Cleaning
    <3> QED
      BY <1>2, <1>4, <2>2, <3>1, <3>3, <3>5, StillHolds
  <2> QED
    BY <1>4, <2>1, <2>2 DEF SyncPrepared
<1>5. CASE MoveFails \/ PublishFails
  BY <1>2, <1>3, <1>5 DEF MoveFails, PublishFails
<1>6. CASE SyncMoved
  <2>1. CASE SyncFails /\ Undo
    BY <1>2, <1>3, <1>6, <2>1 DEF SyncMoved
  <2>2. CASE SyncAll /\ NoFault /\ Goto("publish") /\ todo' = Replaced /\ UNCHANGED <<moved, published>>
    <3>1. Still
      BY <2>2, FaultsAreStill
    <3>2. pc = "move" /\ todo = {}
      BY <1>6 DEF SyncMoved
    <3>3. PhaseInv'
      BY <1>2, <1>6, <2>2, <3>1, <3>2 DEF PhaseInv, Forward, Marked, Cleaning, Still, Goto
    <3>4. \A f \in Files \ Replaced : Restored(restore)[f] = Nothing
      BY DEF Restored
    <3>5. LoopInv(w)'
      <4>1. /\ \A f \in Replaced : place'[f].staged = Copy(restore)
            /\ \A f \in Files : place'[f].target = Nothing
            /\ moved' = journal'.original /\ \A f \in moved' : place'[f].rollback # Nothing
            /\ published' = {} /\ Restored(restore) \in agreed
        BY <2>2, <3>1, <3>2 DEF RestoreHolds, LoopInv, Forward, Still
      <4> QED
        BY <1>2, <1>6, <2>2, <3>4, <4>1, RestoreAssumption DEF LoopInv, Forward, Marked, Cleaning, Goto
    <3> QED
      BY <1>2, <1>6, <2>2, <3>1, <3>2, <3>3, <3>5, StillHolds DEF Goto, Forward
  <2> QED
    BY <1>6, <2>1, <2>2 DEF SyncMoved
<1>7. CASE SyncPublished
  <2>1. CASE SyncFails /\ Undo
    BY <1>2, <1>3, <1>7, <2>1 DEF SyncPublished
  <2>2. CASE SyncAll /\ NoFault /\ Goto("commit") /\ UNCHANGED locals
    <3>1. Still /\ \A d \in Dirs : Left(d)' = {Snapshot(d)'}
      BY <2>2, FaultsAreStill
    <3>2. pc = "publish" /\ todo = {}
      BY <1>7 DEF SyncPublished
    <3>3. PhaseInv'
      BY <1>2, <1>7, <2>2, <3>1, <3>2 DEF PhaseInv, Forward, Marked, Cleaning, Still, Goto
    <3>4. LoopInv(w)'
      BY <1>2, <1>7, <2>2, <3>1, <3>2 DEF RestoreHolds, LoopInv, Forward, Marked, Cleaning, Still, Goto, locals
    <3> QED
      BY <1>2, <1>7, <2>2, <3>1, <3>2, <3>3, <3>4, StillHolds DEF Goto, Forward
  <2> QED
    BY <1>7, <2>1, <2>2 DEF SyncPublished
<1>8. CASE SyncUndone
  BY <1>2, <1>8, ErrHolds DEF SyncUndone
<1>9. CASE SyncMarker
  <2>1. CASE SyncFails /\ Err
    BY <1>2, <1>9, <2>1, ErrHolds
  <2>2. CASE SyncHome /\ NoFault /\ Goto("clean")
    <3>1. Still
      BY <2>2, FaultsAreStill
    <3>2. pc = "marked"
      BY <1>9 DEF SyncMarker
    <3>3. PhaseInv'
      BY <1>2, <1>9, <2>2, <3>1, <3>2 DEF PhaseInv, Forward, Marked, Cleaning, Still, Goto
    <3>4. LoopInv(w)'
      BY <1>2, <1>9, <2>2, <3>1, <3>2 DEF RestoreHolds, LoopInv, Forward, Marked, Cleaning, Still, Goto
    <3> QED
      BY <1>2, <1>9, <2>2, <3>1, <3>2, <3>3, <3>4, StillHolds DEF Goto, Marked
  <2> QED
    BY <1>9, <2>1, <2>2 DEF SyncMarker
<1>10. CASE SyncCleaned
  <2>1. CASE Err /\ (SyncFails \/ (NoFault /\ UNCHANGED disk))
    BY <1>2, <1>10, <2>1, ErrHolds
  <2>2. CASE Cleaned /\ SyncAll /\ NoFault /\ Goto("drop")
    <3>1. Still /\ \A d \in Dirs : Left(d)' = {Snapshot(d)'}
      BY <2>2, FaultsAreStill
    <3>2. pc = "clean"
      BY <1>10 DEF SyncCleaned
    <3>3. marker = journal.id /\ journal # NoJournal
      BY <3>2 DEF PhaseInv, Marked
    <3>4. \A f \in Files : Settled(place'[f], w[f])
      BY <2>2, <3>1, <3>3, HereRecovers DEF RestoreHolds, Recovers, Settled, Cleaned, Still
    <3>5. PhaseInv'
      BY <1>2, <1>10, <2>2, <3>1, <3>2 DEF PhaseInv, Forward, Marked, Cleaning, Still, Goto
    <3>6. LoopInv(w)'
      BY <1>2, <1>10, <2>2, <3>1, <3>2, <3>4 DEF RestoreHolds, LoopInv, Forward, Marked, Cleaning, Still, Goto
    <3> QED
      BY <1>2, <1>10, <2>2, <3>1, <3>2, <3>5, <3>6, StillHolds DEF Goto, Forward, Marked
  <2> QED
    BY <1>10, <2>1, <2>2 DEF SyncCleaned
<1> QED
  BY <1>1, <1>4, <1>5, <1>6, <1>7, <1>8, <1>9, <1>10

\* What an assignment to one name of a file leaves of the others.
LEMMA ChangedNames ==
    ASSUME DiskTypes, NEW f \in Files, NEW n
    PROVE  /\ LET p == [place[f] EXCEPT !.target = n]
              IN  p.target = n /\ p.rollback = place[f].rollback /\ p.staged = place[f].staged
           /\ LET p == [place[f] EXCEPT !.rollback = n]
              IN  p.target = place[f].target /\ p.rollback = n /\ p.staged = place[f].staged
           /\ LET p == [place[f] EXCEPT !.staged = n]
              IN  p.target = place[f].target /\ p.rollback = place[f].rollback /\ p.staged = n
           /\ LET p == [place[f] EXCEPT !.target = place[f].rollback, !.rollback = n]
              IN  p.target = place[f].rollback /\ p.rollback = n /\ p.staged = place[f].staged
           /\ LET p == [place[f] EXCEPT !.target = n, !.rollback = place[f].target]
              IN  p.target = n /\ p.rollback = place[f].target /\ p.staged = place[f].staged
           /\ LET p == [place[f] EXCEPT !.target = place[f].staged, !.staged = n]
              IN  p.target = place[f].staged /\ p.rollback = place[f].rollback /\ p.staged = n
<1>1. place[f] \in PlaceForms
  BY DEF DiskTypes
<1> QED
  BY <1>1 DEF PlaceForms

\* A step that changes one file goes on in the same loop.
LEMMA ChangeHolds ==
    ASSUME DiskTypes, PhaseInv, LeftInv, NEW w, RestoreHolds(w), NEW f \in Files, NEW p \in PlaceForms,
           Change(f, p), NoFault, UNCHANGED <<pc, next, committed, restore, agreed>>, todo' \subseteq todo,
           pc \notin {"commit", "drop"},
           Recovers(p, journal, marker, f, w[f]),
           pc \in Forward \union Marked \/ (Settled(place[f], w[f]) => Settled(p, w[f])),
           LoopInv(w)'
    PROVE  Holds'
<1>1. /\ \A g \in Files \ {f} : place'[g] = place[g]
      /\ journal' = journal /\ marker' = marker /\ syncLost' = syncLost
  BY ChangeTypes DEF NoFault, mishaps
<1>2. PhaseInv'
  BY <1>1 DEF PhaseInv
<1>3. pc \in Forward \union Marked => journal # NoJournal /\ \A s \in Left("home") : s.journal = journal /\ s.marker = marker
  BY DEF PhaseInv, LeftInv
<1>4. FilesInv(w)'
  BY <1>1, <1>3, ChangeRecovers DEF RestoreHolds
<1>5. ASSUME NEW s \in Left("home")'
      PROVE  s \in Left("home") \/ (s.journal = journal' /\ s.marker = marker')
  BY <1>1, <1>5, ChangeGrows, SnapshotIs DEF Grows, Dirs
<1>6. marker <= restore
  <2>1. Snapshot("home") \in Left("home")
    BY DEF Left
  <2> QED
    BY <2>1, SnapshotIs DEF LeftInv
<1>7. LeftInv'
  BY <1>1, <1>5, <1>6 DEF LeftInv
<1> QED
  BY <1>2, <1>4, <1>7 DEF Holds, RestoreHolds

\* the steps of a recovery that change one,
LEMMA RecoveryChanges ==
    ASSUME DiskTypes, PhaseInv, LeftInv, NEW w, RestoreHolds(w), NEW f \in Files,
           RemoveTarget(f) \/ PutBack(f) \/ RemoveRollback(f) \/ RemoveStaged(f)
    PROVE  Holds'
<1> DEFINE p == place[f]
<1>1. /\ pc = "recover" /\ f \in todo /\ UNCHANGED <<pc, next, committed, restore, agreed>>
      /\ NoFault /\ todo' \subseteq todo
  BY DEF RemoveTarget, PutBack, RemoveRollback, RemoveStaged, locals
<1>2. journal # NoJournal /\ (committed <=> marker = journal.id)
  BY <1>1 DEF PhaseInv
<1>3. Recovers(p, journal, marker, f, w[f])
  BY HereRecovers DEF RestoreHolds
<1>4. \A g \in Files \ todo : Settled(place[g], w[g])
  BY <1>1 DEF RestoreHolds, LoopInv
<1>5. ASSUME NEW q \in PlaceForms, Change(f, q), Recovers(q, journal, marker, f, w[f]), Settled(p, w[f]) => Settled(q, w[f]),
             f \in todo' \/ Settled(q, w[f]), todo' \in {todo, todo \ {f}}
      PROVE  Holds'
  <2>1. \A g \in Files \ todo' : Settled(place'[g], w[g])
    BY <1>4, <1>5, ChangeTypes
  <2>2. next # "success"
    BY <1>1 DEF PhaseInv, Forward, Marked, Cleaning
  <2>3. LoopInv(w)'
    BY <1>1, <2>1, <2>2 DEF LoopInv, Forward, Marked, Cleaning
  <2> QED
    BY <1>1, <1>5, <2>3, ChangeHolds
<1>6. CASE RemoveTarget(f)
  <2> DEFINE q == [place[f] EXCEPT !.target = Nothing]
  <2>1. q \in PlaceForms /\ q.target = Nothing /\ q.rollback = p.rollback
    BY ChangedPlaces, ChangedNames
  <2>2. /\ ~committed /\ p.target # Nothing /\ (f \in journal.original => p.rollback # Nothing)
        /\ Change(f, q) /\ todo' = todo
    BY <1>6 DEF RemoveTarget, locals
  <2> HIDE DEF q, p
  <2>3. Recovers(q, journal, marker, f, w[f]) /\ ~ Settled(p, w[f])
    BY <1>2, <1>3, <2>1, <2>2 DEF Recovers, Settled
  <2> QED
    BY <1>1, <1>5, <2>1, <2>2, <2>3
<1>7. CASE PutBack(f)
  <2> DEFINE q == [place[f] EXCEPT !.target = place[f].rollback, !.rollback = Nothing]
  <2>1. q \in PlaceForms /\ q.target = p.rollback /\ q.rollback = Nothing
    BY ChangedPlaces, ChangedNames
  <2>2. /\ ~committed /\ f \in journal.original /\ p.rollback # Nothing
        /\ Change(f, q) /\ todo' = todo
    BY <1>7 DEF PutBack, locals
  <2> HIDE DEF q, p
  <2>3. Recovers(q, journal, marker, f, w[f]) /\ ~ Settled(p, w[f])
    BY <1>2, <1>3, <2>1, <2>2 DEF Recovers, Settled
  <2> QED
    BY <1>1, <1>5, <2>1, <2>2, <2>3
<1>8. CASE RemoveRollback(f)
  <2> DEFINE q == [place[f] EXCEPT !.rollback = Nothing]
  <2>1. q \in PlaceForms /\ q.target = p.target /\ q.rollback = Nothing
    BY ChangedPlaces, ChangedNames
  <2>2. committed /\ Change(f, q) /\ todo' = todo
    BY <1>8 DEF RemoveRollback, locals
  <2> HIDE DEF q, p
  <2>3. Recovers(q, journal, marker, f, w[f]) /\ (Settled(p, w[f]) => Settled(q, w[f]))
    BY <1>2, <1>3, <2>1, <2>2 DEF Recovers, Settled
  <2> QED
    BY <1>1, <1>5, <2>1, <2>2, <2>3
<1>9. CASE RemoveStaged(f)
  <2> DEFINE q == [place[f] EXCEPT !.staged = Nothing]
  <2>1. q \in PlaceForms /\ q.target = p.target /\ q.rollback = p.rollback
    BY ChangedPlaces, ChangedNames
  <2>2. /\ IF committed THEN p.rollback = Nothing
           ELSE IF f \in journal.original THEN p.rollback = Nothing
           ELSE p.target = Nothing
        /\ UNCHANGED disk \/ Change(f, q)
        /\ todo' = todo \ {f}
    BY <1>9 DEF RemoveStaged
  <2> HIDE DEF q, p
  <2>3. Settled(p, w[f])
    BY <1>2, <1>3, <2>2 DEF Recovers, Settled
  <2>4. CASE Change(f, q)
    <3>1. Recovers(q, journal, marker, f, w[f]) /\ Settled(q, w[f])
      BY <1>3, <2>1, <2>3, SettledRecovers DEF Settled
    <3> QED
      BY <1>1, <1>5, <2>1, <2>2, <2>4, <3>1
  <2>5. CASE UNCHANGED disk
    <3>1. Still
      BY <1>1, <2>5, FaultsAreStill
    <3>2. \A g \in Files \ todo' : Settled(place'[g], w[g])
      BY <1>4, <2>2, <2>3, <3>1 DEF Still, p
    <3>3. next # "success"
      BY <1>1 DEF PhaseInv, Forward, Marked, Cleaning
    <3>4. LoopInv(w)' /\ PhaseInv'
      BY <1>1, <3>1, <3>2, <3>3 DEF LoopInv, PhaseInv, Forward, Marked, Cleaning, Still
    <3> QED
      BY <1>1, <3>1, <3>4, StillHolds DEF Forward, Marked
  <2> QED
    BY <2>2, <2>4, <2>5
<1> QED
  BY <1>6, <1>7, <1>8, <1>9

\* those of a restore,
LEMMA RestoreChanges ==
    ASSUME DiskTypes, PhaseInv, LeftInv, NEW w, RestoreHolds(w), NEW f \in Files,
           StageFile(f) \/ MoveAside(f) \/ Publish(f) \/ UndoFile(f) \/ Clean(f)
    PROVE  Holds'
<1> DEFINE p == place[f]
<1>1. /\ UNCHANGED <<pc, next, committed, restore, agreed>> /\ todo' \subseteq todo
      /\ pc \in {"prepare", "move", "publish", "undo", "clean"}
  BY DEF StageFile, MoveAside, Publish, UndoFile, Clean
<1>2. Recovers(p, journal, marker, f, w[f])
  BY HereRecovers DEF RestoreHolds
<1>3. ASSUME NEW q \in PlaceForms, Change(f, q), NoFault, Recovers(q, journal, marker, f, w[f]),
             pc # "prepare" \/ (Settled(p, w[f]) => Settled(q, w[f])), LoopInv(w)'
      PROVE  Holds'
  BY <1>1, <1>3, ChangeHolds DEF Forward, Marked
<1>4. ASSUME OperationFails \/ (NoFault /\ UNCHANGED disk), LoopInv(w)'
      PROVE  Holds'
  <2>1. Still
    BY <1>4, FaultsAreStill
  <2>2. PhaseInv'
    BY <1>1, <2>1 DEF PhaseInv, Still
  <2> QED
    BY <1>1, <1>4, <2>1, <2>2, StillHolds
<1>5. pc \in Forward => journal # NoJournal /\ marker # journal.id
  BY DEF PhaseInv, Forward, Marked
<1>6. ASSUME NEW q \in PlaceForms, Change(f, q)
      PROVE  /\ place'[f] = q /\ \A g \in Files \ {f} : place'[g] = place[g]
             /\ journal' = journal /\ marker' = marker
  BY <1>6, ChangeTypes
<1>7. CASE StageFile(f)
  <2> DEFINE q == [place[f] EXCEPT !.staged = Copy(restore)]
  <2>1. q \in PlaceForms /\ q.target = p.target /\ q.rollback = p.rollback /\ q.staged = Copy(restore)
    BY ChangedPlaces, ChangedNames
  <2>2. pc = "prepare" /\ Change(f, q) /\ NoFault /\ todo' = todo \ {f} /\ f \in todo
    BY <1>7 DEF StageFile
  <2> HIDE DEF q
  <2>3. Recovers(q, journal, marker, f, w[f]) /\ (Settled(p, w[f]) => Settled(q, w[f]))
    BY <1>2, <2>1 DEF Recovers, Settled
  <2>4. \A g \in Replaced \ todo' : place'[g].staged = Copy(restore)
    BY <1>6, <2>1, <2>2, RestoreAssumption DEF RestoreHolds, LoopInv
  <2>5. LoopInv(w)'
    BY <1>1, <2>2, <2>4 DEF LoopInv, Forward, Marked, Cleaning
  <2> QED
    BY <1>3, <2>1, <2>2, <2>3, <2>5
<1>8. CASE MoveAside(f)
  <2> DEFINE q == [place[f] EXCEPT !.target = Nothing, !.rollback = place[f].target]
  <2>1. q \in PlaceForms /\ q.target = Nothing /\ q.rollback = p.target /\ q.staged = p.staged
    BY ChangedPlaces, ChangedNames
  <2>2. /\ pc = "move" /\ f \in todo /\ todo' = todo \ {f} /\ published' = published /\ NoFault
        /\ \/ p.target = Nothing /\ UNCHANGED <<disk, moved>>
           \/ p.target # Nothing /\ Change(f, q) /\ moved' = moved \union {f}
    BY <1>8 DEF MoveAside
  <2>3. /\ Settled(p, w[f]) /\ \A g \in todo : Settled(place[g], w[g])
        /\ \A g \in Files \ todo : place[g].target = Nothing
        /\ moved = journal.original \ todo /\ published = {}
        /\ \A g \in moved : place[g].rollback # Nothing
        /\ \A g \in Replaced : place[g].staged = Copy(restore)
        /\ Restored(restore) \in agreed
    BY <2>2 DEF RestoreHolds, LoopInv, Forward
  <2> HIDE DEF q
  <2>4. f \in journal.original <=> p.target # Nothing
    BY <1>2, <1>5, <2>2, <2>3 DEF Recovers, Settled, Forward
  <2>5. CASE p.target = Nothing /\ UNCHANGED <<disk, moved>>
    <3>1. moved' = journal.original \ todo'
      BY <2>2, <2>3, <2>4, <2>5
    <3>2. place' = place /\ journal' = journal
      BY <2>5 DEF disk
    <3>3. LoopInv(w)'
      BY <1>1, <2>2, <2>3, <2>5, <3>1, <3>2 DEF LoopInv, Forward, Marked, Cleaning
    <3> QED
      BY <1>4, <2>2, <2>5, <3>3
  <2>6. CASE p.target # Nothing /\ Change(f, q) /\ moved' = moved \union {f}
    <3>1. moved' = journal'.original \ todo' /\ moved' \subseteq journal'.original
      BY <1>6, <2>1, <2>2, <2>3, <2>4, <2>6
    <3>2. Recovers(q, journal, marker, f, w[f])
      BY <1>2, <1>5, <2>1, <2>2, <2>3, <2>4, <2>6 DEF Recovers, Settled, Forward
    <3>3. /\ \A g \in todo' : Settled(place'[g], w[g])
          /\ \A g \in Files \ todo' : place'[g].target = Nothing
          /\ \A g \in Replaced : place'[g].staged = Copy(restore)
      BY <1>6, <2>1, <2>2, <2>3, <2>6, RestoreAssumption DEF DiskTypes
    <3>4. \A g \in moved' : place'[g].rollback # Nothing
      BY <1>6, <2>1, <2>3, <2>6 DEF DiskTypes
    <3>5. LoopInv(w)'
      BY <1>1, <2>2, <2>3, <3>1, <3>3, <3>4 DEF LoopInv, Forward, Marked, Cleaning
    <3> QED
      BY <1>3, <2>1, <2>2, <2>6, <3>2, <3>5
  <2> QED
    BY <2>2, <2>5, <2>6
<1>9. CASE Publish(f)
  <2> DEFINE q == [place[f] EXCEPT !.target = place[f].staged, !.staged = Nothing]
  <2>1. q \in PlaceForms /\ q.target = p.staged /\ q.rollback = p.rollback /\ q.staged = Nothing
    BY ChangedPlaces, ChangedNames
  <2>2. /\ pc = "publish" /\ f \in todo /\ todo' = todo \ {f} /\ NoFault /\ Change(f, q)
        /\ moved' = moved /\ published' = published \union {f}
    BY <1>9 DEF Publish
  <2>3. /\ \A g \in todo : place[g].staged = Copy(restore) /\ place[g].target = Nothing
        /\ \A g \in Files \ todo : place[g].target = Restored(restore)[g]
        /\ moved = journal.original /\ \A g \in moved : place[g].rollback # Nothing
        /\ published \intersect journal.original \subseteq moved
        /\ Restored(restore) \in agreed
    BY <2>2 DEF RestoreHolds, LoopInv, Forward
  <2>4. Restored(restore)[f] = Copy(restore)
    BY <2>2 DEF Restored, PhaseInv
  <2> HIDE DEF q
  <2>5. Recovers(q, journal, marker, f, w[f])
    BY <1>2, <1>5, <2>1, <2>2, <2>3 DEF Recovers, Forward
  <2>6. /\ \A g \in todo' : place'[g].staged = Copy(restore) /\ place'[g].target = Nothing
        /\ \A g \in Files \ todo' : place'[g].target = Restored(restore)[g]
        /\ \A g \in moved' : place'[g].rollback # Nothing
    BY <1>6, <2>1, <2>2, <2>3, <2>4 DEF DiskTypes
  <2>7. moved' = journal'.original
    BY <1>6, <2>1, <2>2, <2>3
  <2>8. LoopInv(w)'
    BY <1>1, <2>2, <2>3, <2>6, <2>7 DEF LoopInv, Forward, Marked, Cleaning
  <2> QED
    BY <1>3, <2>1, <2>2, <2>5, <2>8
<1>10. CASE UndoFile(f)
  <2>1. pc = "undo"
    BY <1>10 DEF UndoFile
  <2>2. /\ moved \subseteq journal.original /\ \A g \in moved : place[g].rollback # Nothing
        /\ published \intersect journal.original \subseteq moved
        /\ Restored(restore) \in agreed
    BY <2>1 DEF RestoreHolds, LoopInv, Forward
  <2>3. ASSUME moved' \subseteq journal'.original, \A g \in moved' : place'[g].rollback # Nothing,
               published' \intersect journal'.original \subseteq moved'
        PROVE  LoopInv(w)'
    BY <1>1, <2>1, <2>2, <2>3 DEF LoopInv, Forward, Marked, Cleaning
  <2>4. /\ moved' \subseteq moved /\ published' \subseteq published
        /\ published' \intersect journal.original \subseteq moved'
    BY <1>10, <2>2 DEF UndoFile
  <2>5. CASE OperationFails
    <3>1. place' = place /\ journal' = journal
      BY <2>5 DEF OperationFails, disk
    <3> QED
      BY <1>4, <2>2, <2>3, <2>4, <2>5, <3>1
  <2>6. CASE f \in published /\ Change(f, [place[f] EXCEPT !.target = Nothing]) /\ NoFault
    <3> DEFINE q == [place[f] EXCEPT !.target = Nothing]
    <3>1. q \in PlaceForms /\ q.target = Nothing /\ q.rollback = p.rollback
      BY ChangedPlaces, ChangedNames
    <3>2. Change(f, q)
      BY <2>6
    <3> HIDE DEF q
    <3>3. Recovers(q, journal, marker, f, w[f])
      BY <1>2, <1>5, <2>1, <2>2, <2>6, <3>1 DEF Recovers, Forward
    <3>4. \A g \in moved' : place'[g].rollback # Nothing
      BY <1>6, <2>2, <2>4, <3>1, <3>2 DEF DiskTypes
    <3>5. LoopInv(w)'
      BY <1>6, <2>2, <2>3, <2>4, <3>1, <3>2, <3>4
    <3> QED
      BY <1>3, <2>1, <2>6, <3>1, <3>2, <3>3, <3>5
  <2>7. CASE /\ f \in moved /\ moved' = moved \ {f} /\ NoFault
             /\ Change(f, [place[f] EXCEPT !.target = place[f].rollback, !.rollback = Nothing])
    <3> DEFINE q == [place[f] EXCEPT !.target = place[f].rollback, !.rollback = Nothing]
    <3>1. q \in PlaceForms /\ q.target = p.rollback /\ q.rollback = Nothing
      BY ChangedPlaces, ChangedNames
    <3>2. Change(f, q)
      BY <2>7
    <3> HIDE DEF q
    <3>3. Recovers(q, journal, marker, f, w[f])
      BY <1>2, <1>5, <2>1, <2>2, <2>7, <3>1 DEF Recovers, Forward
    <3>4. \A g \in moved' : place'[g].rollback # Nothing
      BY <1>6, <2>2, <2>7, <3>1, <3>2 DEF DiskTypes
    <3>5. LoopInv(w)'
      BY <1>6, <2>2, <2>3, <2>4, <3>1, <3>2, <3>4
    <3> QED
      BY <1>3, <2>1, <2>7, <3>1, <3>2, <3>3, <3>5
  <2> QED
    BY <1>10, <2>5, <2>6, <2>7 DEF UndoFile
<1>11. CASE Clean(f)
  <2> DEFINE q == [place[f] EXCEPT !.rollback = Nothing]
  <2>1. q \in PlaceForms /\ q.target = p.target /\ q.rollback = Nothing
    BY ChangedPlaces, ChangedNames
  <2>2. pc = "clean" /\ ((Change(f, q) /\ NoFault) \/ OperationFails)
    BY <1>11 DEF Clean
  <2>3. marker = journal.id /\ journal # NoJournal
    BY <2>2 DEF PhaseInv, Marked
  <2>4. w = Restored(restore)
    BY <2>2 DEF RestoreHolds, LoopInv, Marked
  <2> HIDE DEF q
  <2>5. Recovers(q, journal, marker, f, w[f])
    BY <1>2, <2>1, <2>3 DEF Recovers
  <2>6. LoopInv(w)'
    BY <1>1, <2>2, <2>4 DEF LoopInv, Forward, Marked, Cleaning
  <2> QED
    BY <1>3, <1>4, <2>1, <2>2, <2>5, <2>6
<1> QED
  BY <1>7, <1>8, <1>9, <1>10, <1>11

\* When one state of the disk is left, recovery has to work from that one.
LEMMA OneStateRecovers ==
    ASSUME NEW v, \A d \in Dirs : Left(d)' = {Snapshot(d)'},
           \A f \in Files : Recovers(place'[f], journal', marker', f, v[f])
    PROVE  FilesInv(v)'
<1>1. "home" \in Dirs /\ "away" \in Dirs
  BY DEF Dirs
<1>2. \A d \in Dirs : \A s \in Left(d)' : \A f \in FilesIn(d) : f \in Files /\ s.place[f] = place'[f]
  BY SnapshotIs DEF FilesIn
<1>3. \A s \in Left("home")' : s.journal = journal' /\ s.marker = marker'
  BY <1>1, SnapshotIs
<1>4. /\ \A s \in Left("home")' :
            /\ \A f \in FilesIn("home") : Recovers(s.place[f], s.journal, s.marker, f, v[f])
            /\ \A a \in Left("away")' : \A f \in FilesIn("away") : Recovers(a.place[f], s.journal, s.marker, f, v[f])
  BY <1>1, <1>2, <1>3
<1>5. journal' = NoJournal =>
         \A d \in Dirs : \A s \in Left(d)' : \A f \in FilesIn(d) : Settled(s.place[f], v[f])
  BY <1>2 DEF Recovers, Settled
<1> QED
  BY <1>3, <1>4, <1>5 DEF FilesInv

\* The journal or the marker has changed, and a crash may still leave the old one.
LEMMA HeadHolds ==
    ASSUME DiskTypes, LeftInv, NEW w, RestoreHolds(w), Behind("home"), place' = place, NoFault, restore' = restore,
           w \in agreed', PhaseInv', LoopInv(w)', marker' <= restore,
           pc' \notin Forward \union Marked \union {"drop"},
           \A f \in FilesIn("home") : Recovers(place[f], journal', marker', f, w[f]),
           \A a \in Left("away") : \A f \in FilesIn("away") : Recovers(a.place[f], journal', marker', f, w[f]),
           journal' = NoJournal =>
              \A d \in Dirs : \A s \in Left(d) : \A f \in FilesIn(d) : Settled(s.place[f], w[f]),
           \A f \in Files : Settled(place[f], w[f])
    PROVE  Holds'
<1>1. Grows /\ Left("away")' = Left("away")
  BY HeadGrows DEF NoFault, mishaps
<1>2. FilesInv(w)'
  BY <1>1, HeadRecovers DEF RestoreHolds
<1>3. \A s \in Left("home")' : s \in Left("home") \/ s.marker = marker'
  BY <1>1, SnapshotIs DEF Grows, Dirs
<1>4. LeftInv'
  BY <1>3 DEF LeftInv, Forward
<1> QED
  BY <1>2, <1>4 DEF Holds, RestoreHolds

\* the publication and the removal of the journal and the marker,
LEMMA HeadSteps ==
    ASSUME DiskTypes, PhaseInv, LeftInv, NEW w, RestoreHolds(w),
           NoJournalFound \/ RemoveJournal \/ RemoveMarker \/ PublishJournal
    PROVE  Holds'
<1>1. restore' = restore /\ w \in [Files -> Nat] /\ FilesInv(w) /\ LoopInv(w) /\ w \in agreed
  BY DEF NoJournalFound, RemoveJournal, RemoveMarker, PublishJournal, RestoreHolds
<1>2. restore \in Nat /\ marker <= restore
  <2>1. Snapshot("home") \in Left("home")
    BY DEF Left
  <2> QED
    BY <2>1, SnapshotIs DEF LeftInv, DiskTypes
<1>3. ASSUME \A d \in Dirs : \A s \in Left(d) : \A f \in FilesIn(d) : Settled(s.place[f], w[f]),
             journal' = NoJournal
      PROVE  /\ \A f \in Files : Settled(place[f], w[f])
             /\ \A f \in FilesIn("home") : Recovers(place[f], journal', marker', f, w[f])
             /\ \A a \in Left("away") : \A f \in FilesIn("away") : Recovers(a.place[f], journal', marker', f, w[f])
  <2>1. \A d \in Dirs : Snapshot(d) \in Left(d)
    BY DEF Left
  <2>2. \A f \in Files : Settled(place[f], w[f])
    BY <1>3, <2>1, SnapshotIs, DirOf DEF FilesIn
  <2>3. \A p : \A f \in Files : Settled(p, w[f]) => Recovers(p, journal', marker', f, w[f])
    BY <1>3 DEF Settled, Recovers
  <2> QED
    BY <1>3, <2>2, <2>3 DEF FilesIn, Dirs
<1>4. CASE NoJournalFound
  <2>1. pc = "open" /\ journal = NoJournal /\ agreed' = agreed
    BY <1>4 DEF NoJournalFound
  <2>2. CASE Goto(next) /\ ((NoFault /\ UNCHANGED disk) \/ OperationFails)
    <3>1. Still
      BY <2>2, FaultsAreStill
    <3> QED
      BY <1>1, <2>1, <2>2, <3>1, GoesOn
  <2>3. CASE /\ marker' = 0 /\ Behind("home") /\ Goto("forget") /\ NoFault
             /\ UNCHANGED <<place, journal>>
    <3>1. \A d \in Dirs : \A s \in Left(d) : \A f \in FilesIn(d) : Settled(s.place[f], w[f])
      BY <1>1, <2>1 DEF FilesInv
    <3>2. next # "success"
      BY <2>1 DEF PhaseInv, Forward, Marked, Cleaning
    <3>3. PhaseInv'
      BY <2>1, <2>3, <3>2 DEF PhaseInv, Goto, Forward, Marked, Cleaning
    <3>4. LoopInv(w)'
      BY <2>3 DEF LoopInv, Goto, Forward, Marked, Cleaning
    <3>5. pc' = "forget" /\ pc' \notin Forward \union Marked \union {"drop"}
      BY <2>3 DEF Goto, Forward, Marked
    <3> QED
      BY <1>1, <1>2, <1>3, <2>1, <2>3, <3>1, <3>3, <3>4, <3>5, HeadHolds
  <2> QED
    BY <1>4, <2>2, <2>3 DEF NoJournalFound
<1>5. CASE RemoveMarker
  <2>1. pc = "unmark" /\ journal = NoJournal /\ agreed' = agreed
    BY <1>5 DEF RemoveMarker, PhaseInv
  <2>2. CASE OperationFails /\ Err
    BY <1>1, <2>1, <2>2, ErrHolds
  <2>3. CASE /\ marker' = 0 /\ UNCHANGED <<place, journal, locals>> /\ NoFault /\ Goto("unmarked")
             /\ IF marker = 0 THEN UNCHANGED behind ELSE Behind("home")
    <3>1. PhaseInv'
      BY <1>1, <2>1, <2>3 DEF PhaseInv, Goto, Forward, Marked, Cleaning
    <3>2. LoopInv(w)'
      BY <1>1, <2>1, <2>3 DEF LoopInv, Goto, Forward, Marked, Cleaning
    <3>3. pc' \notin Forward \union Marked \union {"drop", "commit"}
      BY <2>3 DEF Goto, Forward, Marked
    <3>4. CASE marker = 0 /\ UNCHANGED behind
      <4>1. Still
        BY <2>3, <3>4, FaultsAreStill DEF disk
      <4> QED
        BY <1>1, <2>1, <3>1, <3>2, <3>3, <4>1, StillHolds
    <3>5. CASE Behind("home")
      <4>1. \A d \in Dirs : \A s \in Left(d) : \A f \in FilesIn(d) : Settled(s.place[f], w[f])
        BY <1>1, <2>1 DEF FilesInv
      <4>2. journal' = NoJournal /\ marker' <= restore
        BY <1>2, <2>1, <2>3
      <4> QED
        BY <1>1, <1>3, <2>1, <2>3, <3>1, <3>2, <3>3, <3>5, <4>1, <4>2, HeadHolds
    <3> QED
      BY <2>3, <3>4, <3>5
  <2> QED
    BY <1>5, <2>2, <2>3 DEF RemoveMarker
<1>6. CASE RemoveJournal
  <2>1. pc = "drop" /\ agreed' = agreed
    BY <1>6 DEF RemoveJournal
  <2>2. CASE OperationFails /\ Err
    BY <1>1, <2>1, <2>2, ErrHolds
  <2>3. CASE journal' = NoJournal /\ Behind("home") /\ UNCHANGED <<place, marker, locals>> /\ NoFault /\ Goto("dropped")
    <3>1. PhaseInv'
      BY <1>1, <2>1, <2>3 DEF PhaseInv, Goto, Forward, Marked, Cleaning
    <3>2. LoopInv(w)'
      BY <1>1, <2>1, <2>3 DEF LoopInv, Goto, Forward, Marked, Cleaning
    <3>3. pc' \notin Forward \union Marked \union {"drop"}
      BY <2>3 DEF Goto, Forward, Marked
    <3>4. \A d \in Dirs : \A s \in Left(d) : \A f \in FilesIn(d) : Settled(s.place[f], w[f])
      <4>1. \A d \in Dirs : Left(d) = {Snapshot(d)}
        BY <2>1 DEF LeftInv
      <4>2. \A f \in Files : Settled(place[f], w[f])
        BY <1>1, <2>1 DEF LoopInv
      <4> QED
        BY <4>1, <4>2, SnapshotIs DEF FilesIn
    <3> QED
      BY <1>1, <1>2, <1>3, <2>1, <2>3, <3>1, <3>2, <3>3, <3>4, HeadHolds
  <2> QED
    BY <1>6, <2>2, <2>3 DEF RemoveJournal
<1>7. CASE PublishJournal
  <2>1. /\ pc = "prepare" /\ todo = {} /\ Behind("home") /\ UNCHANGED <<place, marker, locals>>
        /\ journal' = [id |-> restore, original |-> {f \in Files : place[f].target # Nothing}]
        /\ agreed' = {Targets, Restored(restore)} /\ Goto("prepared") /\ NoFault
    BY <1>7 DEF PublishJournal
  <2>2. journal = NoJournal /\ marker # restore /\ restore # 0 /\ next # "success"
    BY <2>1 DEF PhaseInv, Forward, Marked, Cleaning
  <2>3. journal' # NoJournal /\ journal'.id = restore /\ \A f \in Files : f \in journal'.original <=> place[f].target # Nothing
    BY <2>1, <2>2 DEF NoJournal
  <2>4. \A d \in Dirs : \A s \in Left(d) : \A f \in FilesIn(d) : Settled(s.place[f], w[f])
    BY <1>1, <2>2 DEF FilesInv
  <2>5. \A f \in Files : Settled(place[f], w[f])
    BY <1>1, <2>2, HereRecovers
  <2>6. w = Targets
    <3>1. w = [f \in Files |-> w[f]]
      BY <1>1
    <3>2. \A f \in Files : w[f] = place[f].target
      BY <2>5 DEF Settled
    <3> QED
      BY <3>1, <3>2 DEF Targets
  <2>7. \A p : \A f \in Files : Settled(p, w[f]) => Recovers(p, journal', marker', f, w[f])
    BY <2>1, <2>2, <2>3, <2>5 DEF Settled, Recovers
  <2>8. /\ \A f \in FilesIn("home") : Recovers(place[f], journal', marker', f, w[f])
        /\ \A a \in Left("away") : \A f \in FilesIn("away") : Recovers(a.place[f], journal', marker', f, w[f])
    BY <2>4, <2>5, <2>7 DEF FilesIn, Dirs
  <2>9. PhaseInv'
    BY <1>1, <2>1, <2>2, <2>3 DEF PhaseInv, Goto, Forward, Marked, Cleaning
  <2>10. \A f \in Replaced : place[f].staged = Copy(restore)
    BY <1>1, <2>1 DEF LoopInv
  <2>11. LoopInv(w)'
    BY <1>1, <2>1, <2>2, <2>5, <2>10 DEF LoopInv, Goto, Forward, Marked, Cleaning
  <2>12. pc' \notin Forward \union Marked \union {"drop"}
    BY <2>1 DEF Goto, Forward, Marked
  <2> QED
    BY <1>1, <1>2, <2>1, <2>3, <2>4, <2>5, <2>6, <2>8, <2>9, <2>11, <2>12, HeadHolds
<1> QED
  BY <1>4, <1>5, <1>6, <1>7

\* the commit,
LEMMA CommitHolds ==
    ASSUME DiskTypes, PhaseInv, LeftInv, NEW w, RestoreHolds(w), Commit
    PROVE  Holds'
<1>1. /\ pc = "commit" /\ restore' = restore /\ agreed' = agreed /\ next = "success"
      /\ journal # NoJournal /\ journal.id = restore /\ marker # restore /\ restore \in Nat
  BY DEF Commit, PhaseInv, Forward, Marked, DiskTypes
<1>2. \A d \in Dirs : Left(d) = {Snapshot(d)}
  BY <1>1 DEF LeftInv
<1>3. /\ \A f \in Files : place[f].target = Restored(restore)[f]
      /\ Restored(restore) \in agreed
  BY <1>1 DEF RestoreHolds, LoopInv, Forward
<1>4. Restored(restore) \in [Files -> Nat]
  BY <1>1 DEF Restored, Copy, Nothing
<1>5. PICK v : v = Restored(restore)
  OBVIOUS
<1>6. CASE Err /\ (OperationFails \/ (NoFault /\ UNCHANGED disk))
  BY <1>1, <1>6, ErrHolds
\* One state is left, with the marker: the restore is committed.
<1>7. ASSUME place' = place, journal' = journal, marker' = restore, \A d \in Dirs : Left(d)' = {Snapshot(d)'},
             PhaseInv', LoopInv(v)'
      PROVE  Holds'
  <2>1. \A f \in Files : Recovers(place'[f], journal', marker', f, v[f])
    BY <1>1, <1>3, <1>7, <1>5 DEF Recovers
  <2>2. FilesInv(v)'
    BY <1>7, <2>1, OneStateRecovers
  <2>3. \A s \in Left("home")' : s.journal = journal' /\ s.marker = marker'
    BY <1>7, SnapshotIs DEF Dirs
  <2>4. LeftInv'
    BY <1>1, <1>7, <2>3 DEF LeftInv
  <2> QED
    BY <1>1, <1>3, <1>4, <1>7, <1>5, <2>2, <2>4 DEF Holds, RestoreHolds
<1>8. CASE /\ marker' = restore /\ behind' = [behind EXCEPT !["home"] = {}]
           /\ UNCHANGED <<place, journal>> /\ NoFault /\ Goto("marked")
  <2>1. Snapshot("away")' = Snapshot("away") /\ behind'["home"] = {} /\ behind'["away"] = behind["away"] /\ syncLost' = syncLost
    BY <1>8 DEF Snapshot, DiskTypes, Dirs, NoFault, mishaps
  <2>2. \A d \in Dirs : Left(d)' = {Snapshot(d)'}
    BY <1>2, <2>1 DEF Left, Dirs
  <2>3. PhaseInv'
    BY <1>1, <1>8 DEF PhaseInv, Goto, Forward, Marked, Cleaning
  <2>4. LoopInv(v)'
    BY <1>1, <1>8, <1>5 DEF LoopInv, Goto, Forward, Marked, Cleaning
  <2> QED
    BY <1>7, <1>8, <2>2, <2>3, <2>4
\* The marker could not be synced.
<1>9. CASE /\ marker' \in {Torn, restore} /\ UNCHANGED <<place, journal>> /\ syncLost' = TRUE /\ Err
  <2>1. pc' = "open" /\ next' = "exit"
    BY <1>1, <1>9 DEF Err
  <2>2. \A d \in Dirs : Left(d)' = {Snapshot(d)'}
    BY <1>9 DEF Left
  <2>3. PhaseInv'
    BY <2>1 DEF PhaseInv, Forward, Marked, Cleaning
  <2>4. \A x : LoopInv(x)'
    BY <2>1 DEF LoopInv, Forward, Marked, Cleaning
  <2>5. CASE marker' = restore
    BY <1>7, <1>9, <2>2, <2>3, <2>4, <2>5
  <2>6. CASE marker' = Torn
    <3>1. \A f \in Files : Recovers(place[f], journal, marker, f, w[f])
      BY HereRecovers DEF RestoreHolds
    <3>2. \A f \in Files : Recovers(place'[f], journal', marker', f, w[f])
      BY <1>1, <1>9, <2>6, <3>1 DEF Recovers, Torn
    <3>3. FilesInv(w)'
      BY <2>2, <3>2, OneStateRecovers
    <3>4. LeftInv'
      BY <1>1, <2>1, <2>2, <2>6, SnapshotIs DEF LeftInv, Dirs, Torn, Forward, Marked
    <3> QED
      BY <1>1, <2>3, <2>4, <3>3, <3>4 DEF Holds, RestoreHolds
  <2> QED
    BY <1>9, <2>5, <2>6
<1> QED
  BY <1>6, <1>8, <1>9 DEF Commit

\* a power loss, which leaves of each directory any state it may,
LEMMA PowerLossHolds ==
    ASSUME DiskTypes, PhaseInv, LeftInv, NEW w, RestoreHolds(w), PowerLoss
    PROVE  Holds'
<1>1. PICK home \in behind["home"] \union {Snapshot("home")}, away \in behind["away"] \union {Snapshot("away")} :
        /\ place' = [f \in Files |-> IF f \in Away THEN away.place[f] ELSE home.place[f]]
        /\ journal' = home.journal /\ marker' = home.marker
  BY DEF PowerLoss
<1>2. home \in Left("home") /\ away \in Left("away")
  BY <1>1 DEF PowerLoss, Left
<1>3. /\ pc' = "idle" /\ next' = "serve" /\ restore' = restore /\ agreed' = agreed
      /\ behind' = [d \in Dirs |-> {}]
  BY DEF PowerLoss, Dead
<1>4. \A d \in Dirs : Left(d)' = {Snapshot(d)'}
  BY <1>3 DEF Left
<1>5. ASSUME NEW f \in Files
      PROVE  Recovers(place'[f], journal', marker', f, w[f])
  <2>1. CASE f \in Away
    BY <1>1, <1>2, <2>1, DirOf DEF RestoreHolds, FilesInv, FilesIn
  <2>2. CASE f \notin Away
    BY <1>1, <1>2, <2>2, DirOf DEF RestoreHolds, FilesInv, FilesIn
  <2> QED
    BY <2>1, <2>2
<1>6. FilesInv(w)'
  BY <1>4, <1>5, OneStateRecovers
<1>7. PhaseInv'
  BY <1>3 DEF PhaseInv, Forward, Marked, Cleaning
<1>8. LoopInv(w)'
  BY <1>3 DEF LoopInv, Forward, Marked, Cleaning
<1>9. LeftInv'
  <2>1. \A s \in Left("home")' : s.marker = home.marker
    BY <1>1, <1>4, SnapshotIs DEF Dirs
  <2> QED
    BY <1>2, <1>3, <2>1 DEF LeftInv, Forward, Marked
<1> QED
  BY <1>3, <1>6, <1>7, <1>8, <1>9 DEF Holds, RestoreHolds

\* the end of a process,
LEMMA ExitHolds ==
    ASSUME DiskTypes, PhaseInv, LeftInv, NEW w, RestoreHolds(w), Exit
    PROVE  Holds'
<1>1. /\ pc \in {"exit", "success"} /\ pc' = "idle" /\ next' = "serve"
      /\ agreed' = IF pc = "success" THEN {Restored(restore)} ELSE agreed
      /\ journal' = journal /\ marker' = marker /\ restore' = restore /\ syncLost' = syncLost
      /\ behind' = [d \in Dirs |-> behind[d] \union {Snapshot(d)}]
  BY DEF Exit, mishaps
<1>2. w \in agreed'
  BY <1>1 DEF RestoreHolds, LoopInv
<1>3. \A d \in Dirs : Left(d)' \subseteq Left(d) \union {Snapshot(d)'} /\ Snapshot(d) \in Left(d)
  BY <1>1 DEF Left
<1>4. \A f \in Files : place'[f].target = place[f].target /\ place'[f].rollback = place[f].rollback
  BY DEF Exit, DiskTypes, PlaceForms
<1>5. \A p, q, j, m, f, x : p.target = q.target /\ p.rollback = q.rollback =>
          /\ Recovers(p, j, m, f, x) => Recovers(q, j, m, f, x)
          /\ Settled(p, x) => Settled(q, x)
  BY DEF Recovers, Settled
\* Every state left afterwards has the targets and rollbacks of one left before.
<1>6. ASSUME NEW d \in Dirs, NEW s \in Left(d)'
      PROVE  \E t \in Left(d) :
                /\ \A f \in FilesIn(d) : s.place[f].target = t.place[f].target /\ s.place[f].rollback = t.place[f].rollback
                /\ d = "home" => s.journal = t.journal /\ s.marker = t.marker
  <2>1. CASE s \in Left(d)
    BY <2>1
  <2>2. CASE s = Snapshot(d)'
    BY <1>1, <1>3, <1>4, <2>2, SnapshotIs DEF FilesIn
  <2> QED
    BY <1>3, <1>6, <2>1, <2>2
<1>7. FilesInv(w)'
  <2>1. FilesInv(w)
    BY DEF RestoreHolds
  <2>2. ASSUME NEW s \in Left("home")'
        PROVE  /\ \A f \in FilesIn("home") : Recovers(s.place[f], s.journal, s.marker, f, w[f])
               /\ \A a \in Left("away")' : \A f \in FilesIn("away") : Recovers(a.place[f], s.journal, s.marker, f, w[f])
    <3>1. PICK t \in Left("home") :
            /\ \A f \in FilesIn("home") : s.place[f].target = t.place[f].target /\ s.place[f].rollback = t.place[f].rollback
            /\ s.journal = t.journal /\ s.marker = t.marker
      BY <1>6 DEF Dirs
    <3>2. ASSUME NEW a \in Left("away")'
          PROVE  \A f \in FilesIn("away") : Recovers(a.place[f], s.journal, s.marker, f, w[f])
      <4>1. PICK b \in Left("away") :
              \A f \in FilesIn("away") : a.place[f].target = b.place[f].target /\ a.place[f].rollback = b.place[f].rollback
        BY <1>6 DEF Dirs
      <4> QED
        BY <1>5, <2>1, <3>1, <4>1 DEF FilesInv
    <3> QED
      BY <1>5, <2>1, <3>1, <3>2 DEF FilesInv
  <2>3. ASSUME journal' = NoJournal, NEW d \in Dirs, NEW s \in Left(d)', NEW f \in FilesIn(d)
        PROVE  Settled(s.place[f], w[f])
    <3>1. PICK t \in Left(d) : s.place[f].target = t.place[f].target /\ s.place[f].rollback = t.place[f].rollback
      BY <1>6, <2>3
    <3>2. Settled(t.place[f], w[f])
      BY <1>1, <2>1, <2>3, <3>1 DEF FilesInv
    <3> QED
      BY <3>1, <3>2 DEF Settled
  <2>4. \/ \A s \in Left("home")' : s.journal = journal' /\ s.marker = marker'
        \/ \A f \in Files : Settled(place'[f], w[f])
    BY <1>1, <1>4, <1>5, <1>6, <2>1 DEF FilesInv, Dirs
  <2> QED
    BY <2>2, <2>3, <2>4 DEF FilesInv
<1>8. PhaseInv' /\ LoopInv(w)'
  BY <1>1 DEF PhaseInv, LoopInv, Forward, Marked, Cleaning
<1>9. LeftInv'
  <2>1. \A s \in Left("home")' : s.marker <= restore
    BY <1>6 DEF LeftInv, Dirs
  <2> QED
    BY <1>1, <2>1 DEF LeftInv, Forward, Marked
<1> QED
  BY <1>2, <1>7, <1>8, <1>9 DEF Holds, RestoreHolds

\* a server that writes to its files,
LEMMA ServeHolds ==
    ASSUME DiskTypes, PhaseInv, LeftInv, NEW w, RestoreHolds(w), NEW f \in Files, Serve(f)
    PROVE  Holds'
<1> DEFINE Written(p) == IF p.target = place[f].target THEN [p EXCEPT !.target = Live] ELSE p
           Rewritten(s) == [s EXCEPT !.place[f] = Written(s.place[f])]
           v == [w EXCEPT ![f] = Live]
<1>1. /\ pc = "serve" /\ f \notin Away /\ UNCHANGED <<journal, marker, pc, next, restore>> /\ syncLost' = syncLost
      /\ behind' = [behind EXCEPT !["home"] = IF place[f].target = Nothing THEN {} ELSE {Rewritten(s) : s \in behind["home"]}]
      /\ place' = [place EXCEPT ![f].target = Live]
      /\ agreed' = {[Targets EXCEPT ![f] = Live]}
  BY DEF Serve, mishaps
<1>2. f \in FilesIn("home") /\ "home" \in Dirs /\ "away" \in Dirs /\ f \notin FilesIn("away")
  BY <1>1, DirOf DEF FilesIn, Dirs
<1>3. journal = NoJournal /\ next # "success" /\ w \in [Files -> Nat] /\ FilesInv(w) /\ restore \in Nat
  BY <1>1 DEF PhaseInv, RestoreHolds, DiskTypes, Forward, Marked, Cleaning
<1>4. \A g \in Files : Settled(place[g], w[g])
  BY <1>3, HereRecovers
<1>5. w = Targets /\ v \in [Files -> Nat] /\ v[f] = Live /\ \A g \in Files \ {f} : v[g] = w[g]
  <2>1. w = [g \in Files |-> w[g]]
    BY <1>3
  <2> QED
    BY <1>3, <1>4, <2>1 DEF Targets, Settled, Live
<1>6. v \in agreed'
  BY <1>1, <1>5
<1>7. \A g \in Files : Settled(place'[g], v[g])
  <2>1. place'[f].target = Live /\ place'[f].rollback = place[f].rollback /\ \A g \in Files \ {f} : place'[g] = place[g]
    BY <1>1 DEF DiskTypes, PlaceForms
  <2> QED
    BY <1>4, <1>5, <2>1 DEF Settled
<1>8. Left("away")' = Left("away")
  <2>1. behind'["away"] = behind["away"]
    BY <1>1 DEF DiskTypes
  <2>2. \A g \in FilesIn("away") : place'[g] = place[g]
    BY <1>1, <1>2 DEF DiskTypes, FilesIn
  <2>3. [g \in {h \in Files : Dir(h) = "away"} |-> place'[g]] = [g \in {h \in Files : Dir(h) = "away"} |-> place[g]]
    BY <2>2 DEF FilesIn
  <2>4. Snapshot("away")' = Snapshot("away")
    BY <2>3 DEF Snapshot
  <2> QED
    BY <1>1, <2>1, <2>4 DEF Left
\* What is left of the other states is settled too, with the file as it is now.
<1>9. ASSUME NEW s \in Left("home"), place[f].target # Nothing, s \in behind["home"]
      PROVE  /\ Rewritten(s).journal = s.journal /\ Rewritten(s).marker = s.marker
             /\ \A g \in FilesIn("home") : /\ Settled(Rewritten(s).place[g], v[g])
                                           /\ Recovers(Rewritten(s).place[g], s.journal, s.marker, g, v[g])
  <2>1. s \in SnapshotForms("home") /\ s.place[f] \in PlaceForms
    BY <1>2, <1>9 DEF DiskTypes, SnapshotForms
  <2>2. /\ \A g \in FilesIn("home") : Settled(s.place[g], w[g]) /\ Recovers(s.place[g], s.journal, s.marker, g, w[g])
    BY <1>2, <1>3 DEF FilesInv
  <2>3. s.place[f].target = place[f].target /\ w[f] # Nothing
    BY <1>2, <1>4, <1>9, <2>2 DEF Settled
  <2>4. Written(s.place[f]).target = Live /\ Written(s.place[f]).rollback = s.place[f].rollback
    BY <2>1, <2>3 DEF PlaceForms
  <2>5. /\ Rewritten(s).journal = s.journal /\ Rewritten(s).marker = s.marker
        /\ Rewritten(s).place[f] = Written(s.place[f])
        /\ \A g \in FilesIn("home") \ {f} : Rewritten(s).place[g] = s.place[g]
    <3> HIDE DEF Written
    <3> QED
      BY <1>2, <2>1 DEF SnapshotForms
  <2> HIDE DEF Written, Rewritten, v
  <2>6. ASSUME NEW g \in FilesIn("home")
        PROVE  /\ Settled(Rewritten(s).place[g], v[g])
               /\ Recovers(Rewritten(s).place[g], s.journal, s.marker, g, v[g])
    <3>1. CASE g = f
      BY <1>5, <2>2, <2>3, <2>4, <2>5, <3>1 DEF Settled, Recovers, Live, Nothing
    <3>2. CASE g # f
      BY <1>5, <2>2, <2>5, <3>2 DEF FilesIn
    <3> QED
      BY <3>1, <3>2
  <2> QED
    BY <2>5, <2>6
<1> HIDE DEF Rewritten, v
<1>10. ASSUME NEW s \in Left("home")'
       PROVE  s = Snapshot("home")' \/ \E t \in Left("home") : t \in behind["home"] /\ place[f].target # Nothing /\ s = Rewritten(t)
  <2>1. behind'["home"] = IF place[f].target = Nothing THEN {} ELSE {Rewritten(t) : t \in behind["home"]}
    BY <1>1, <1>2 DEF DiskTypes
  <2> QED
    BY <1>1, <1>10, <2>1 DEF Left
<1>11. ASSUME NEW s \in Left("home")'
       PROVE  /\ s.marker <= restore
              /\ \A g \in FilesIn("home") : Settled(s.place[g], v[g]) /\ Recovers(s.place[g], s.journal, s.marker, g, v[g])
              /\ \A a \in Left("away")' : \A g \in FilesIn("away") : Recovers(a.place[g], s.journal, s.marker, g, v[g])
  <2>1. \A g \in FilesIn("away") : v[g] = w[g]
    BY <1>2, <1>5 DEF FilesIn
  <2>2. CASE s = Snapshot("home")'
    <3>1. s.journal = NoJournal /\ s.marker = marker /\ \A g \in FilesIn("home") : s.place[g] = place'[g]
      BY <1>1, <1>2, <1>3, <2>2, SnapshotIs
    <3>2. marker <= restore
      <4>1. Snapshot("home") \in Left("home")
        BY DEF Left
      <4> QED
        BY <4>1, SnapshotIs DEF LeftInv
    <3>3. \A g \in FilesIn("home") : Settled(s.place[g], v[g]) /\ Recovers(s.place[g], s.journal, s.marker, g, v[g])
      BY <1>7, <3>1 DEF FilesIn, Settled, Recovers
    <3>4. \A a \in Left("away") : \A g \in FilesIn("away") : Settled(a.place[g], w[g])
      BY <1>2, <1>3 DEF FilesInv
    <3>5. \A a \in Left("away")' : \A g \in FilesIn("away") : Recovers(a.place[g], s.journal, s.marker, g, v[g])
      BY <1>8, <2>1, <3>1, <3>4 DEF Settled, Recovers
    <3> QED
      BY <3>1, <3>2, <3>3, <3>5
  <2>3. ASSUME NEW t \in Left("home"), t \in behind["home"], place[f].target # Nothing, s = Rewritten(t)
        PROVE  /\ s.marker <= restore
               /\ \A g \in FilesIn("home") : Settled(s.place[g], v[g]) /\ Recovers(s.place[g], s.journal, s.marker, g, v[g])
               /\ \A a \in Left("away")' : \A g \in FilesIn("away") : Recovers(a.place[g], s.journal, s.marker, g, v[g])
    <3>1. s.journal = t.journal /\ s.marker = t.marker /\ t.marker <= restore
      BY <1>9, <2>3 DEF LeftInv
    <3>2. \A g \in FilesIn("home") : Settled(s.place[g], v[g]) /\ Recovers(s.place[g], s.journal, s.marker, g, v[g])
      BY <1>9, <2>3, <3>1
    <3>3. \A a \in Left("away")' : \A g \in FilesIn("away") : Recovers(a.place[g], s.journal, s.marker, g, v[g])
      BY <1>3, <1>8, <2>1, <3>1 DEF FilesInv
    <3> QED
      BY <3>1, <3>2, <3>3
  <2> QED
    BY <1>10, <2>2, <2>3
<1>12. \A a \in Left("away")' : \A g \in FilesIn("away") : Settled(a.place[g], v[g])
  BY <1>2, <1>3, <1>5, <1>8 DEF FilesInv, FilesIn
<1>13. FilesInv(v)'
  <2>1. \A d \in Dirs : \A s \in Left(d)' : \A g \in FilesIn(d) : Settled(s.place[g], v[g])
    BY <1>11, <1>12 DEF Dirs
  <2> QED
    BY <1>7, <1>11, <2>1 DEF FilesInv
<1>14. PhaseInv' /\ LoopInv(v)'
  BY <1>1, <1>3 DEF PhaseInv, LoopInv, Forward, Marked, Cleaning
<1>15. LeftInv'
  BY <1>1, <1>11 DEF LeftInv, Forward, Marked
<1> QED
  BY <1>5, <1>6, <1>13, <1>14, <1>15 DEF Holds, RestoreHolds

\* and a loop, which starts with nothing done.
LEMMA LoopsStartEmptyStep == LoopsStartEmpty /\ [RestoreNext]_restoreVars => LoopsStartEmpty'
<1> SUFFICES ASSUME LoopsStartEmpty, [RestoreNext]_restoreVars
             PROVE  LoopsStartEmpty'
  OBVIOUS
<1> USE DEF LoopsStartEmpty, Forward, Marked, Cleaning, Goto, Err, Undo, locals
<1>1. CASE Recovery
  <2>1. CASE NoJournalFound \/ MarkerForgotten \/ ReadJournal \/ RecoverFails \/ SyncRecovered
    BY <2>1 DEF NoJournalFound, MarkerForgotten, ReadJournal, RecoverFails, SyncRecovered
  <2>2. CASE RemoveJournal \/ SyncJournalRemoval \/ RemoveMarker \/ SyncMarkerRemoval
    BY <2>2 DEF RemoveJournal, SyncJournalRemoval, RemoveMarker, SyncMarkerRemoval
  <2>3. ASSUME NEW f \in Files, RemoveTarget(f) \/ PutBack(f) \/ RemoveRollback(f) \/ RemoveStaged(f)
        PROVE  LoopsStartEmpty'
    BY <2>3 DEF RemoveTarget, PutBack, RemoveRollback, RemoveStaged
  <2> QED
    BY <1>1, <2>1, <2>2, <2>3 DEF Recovery
<1>2. CASE Restore
  <2>1. CASE Stage \/ Refuse \/ PublishJournal \/ SyncPrepared \/ MoveFails \/ SyncMoved \/ PublishFails
    BY <2>1 DEF Stage, Refuse, PublishJournal, SyncPrepared, MoveFails, SyncMoved, PublishFails
  <2>2. CASE SyncPublished \/ SyncUndone \/ Commit \/ SyncMarker \/ SyncCleaned \/ Exit
    BY <2>2 DEF SyncPublished, SyncUndone, Commit, SyncMarker, SyncCleaned, Exit
  <2>3. ASSUME NEW f \in Files, StageFile(f) \/ MoveAside(f) \/ Publish(f) \/ UndoFile(f) \/ Clean(f)
        PROVE  LoopsStartEmpty'
    BY <2>3 DEF StageFile, MoveAside, Publish, UndoFile, Clean
  <2> QED
    BY <1>2, <2>1, <2>2, <2>3 DEF Restore
<1>3. CASE StartServer \/ StartRestore \/ StopServer \/ KillProcess \/ PowerLoss \/ UNCHANGED restoreVars
  BY <1>3 DEF StartServer, StartRestore, StopServer, KillProcess, PowerLoss, Dead, restoreVars
<1>4. CASE \E f \in Files : Serve(f)
  BY <1>4 DEF Serve
<1> QED
  BY <1>1, <1>2, <1>3, <1>4 DEF RestoreNext

\* A stutter keeps it.
LEMMA StutterHolds ==
    ASSUME DiskTypes, PhaseInv, LeftInv, NEW w, RestoreHolds(w), UNCHANGED restoreVars
    PROVE  Holds'
<1>1. /\ UNCHANGED disk /\ syncLost' = syncLost
      /\ UNCHANGED <<pc, next, todo, moved, published, committed, restore, agreed>>
      /\ UNCHANGED <<place, journal, marker>>
  BY DEF restoreVars, locals, mishaps, disk
<1>2. Still /\ \A d \in Dirs : Snapshot(d)' = Snapshot(d) /\ Left(d)' = Left(d)
  <2>1. \A d \in Dirs : Snapshot(d)' = Snapshot(d) /\ behind'[d] = behind[d]
    BY <1>1, SameSnapshots DEF disk
  <2>2. \A d \in Dirs : Left(d)' = Left(d)
    BY <1>1, <2>1 DEF Left
  <2> QED
    BY <1>1, <2>1, <2>2 DEF Still
<1>3. PhaseInv' /\ LoopInv(w)'
  BY <1>1 DEF PhaseInv, LoopInv, RestoreHolds
<1>4. pc \in {"commit", "drop"} => \A d \in Dirs : Left(d) = {Snapshot(d)}
  BY DEF LeftInv
<1> QED
  BY <1>1, <1>2, <1>3, <1>4, StillHolds

\* Each step keeps what recovery can make of the disk.
LEMMA RestoreInvStep == RestoreInv /\ [RestoreNext]_restoreVars => RestoreInv'
<1> SUFFICES ASSUME DiskTypes, LoopsStartEmpty, PhaseInv, LeftInv, NEW w, RestoreHolds(w), [RestoreNext]_restoreVars
             PROVE  RestoreInv'
  BY DEF RestoreInv
<1>1. DiskTypes' /\ LoopsStartEmpty'
  BY DiskTypesStep, LoopsStartEmptyStep
<1>2. Holds'
  <2>1. CASE \/ MarkerForgotten \/ ReadJournal \/ RecoverFails \/ SyncRecovered
             \/ SyncJournalRemoval \/ SyncMarkerRemoval
    BY <2>1, RecoveryStill
  <2>2. CASE \E f \in Files : RemoveTarget(f) \/ PutBack(f) \/ RemoveRollback(f) \/ RemoveStaged(f)
    BY <2>2, RecoveryChanges
  <2>3. CASE NoJournalFound \/ RemoveJournal \/ RemoveMarker \/ PublishJournal
    BY <2>3, HeadSteps
  <2>4. CASE \/ Stage \/ SyncPrepared \/ MoveFails \/ SyncMoved \/ PublishFails \/ SyncPublished
             \/ SyncUndone \/ SyncMarker \/ SyncCleaned
    BY <2>4, RestoreStill
  <2>5. CASE \E f \in Files : StageFile(f) \/ MoveAside(f) \/ Publish(f) \/ UndoFile(f) \/ Clean(f)
    BY <2>5, RestoreChanges
  <2>6. CASE Commit
    BY <2>6, CommitHolds
  <2>7. CASE Exit
    BY <2>7, ExitHolds
  <2>8. CASE StartServer \/ StartRestore \/ StopServer \/ KillProcess \/ Refuse
    BY <2>8, IdleSteps
  <2>9. CASE PowerLoss
    BY <2>9, PowerLossHolds
  <2>10. CASE \E f \in Files : Serve(f)
    BY <2>10, ServeHolds
  <2>11. CASE UNCHANGED restoreVars
    BY <2>11, StutterHolds
  <2>12. CASE Recovery
    BY <2>1, <2>2, <2>3, <2>12 DEF Recovery
  <2>13. CASE Restore
    BY <2>3, <2>4, <2>5, <2>6, <2>7, <2>8, <2>13 DEF Restore
  <2> QED
    BY <2>8, <2>9, <2>10, <2>11, <2>12, <2>13 DEF RestoreNext
<1> QED
  BY <1>1, <1>2 DEF RestoreInv, Holds

\* It holds when the storage is first used.
LEMMA RestoreStarts == RestoreInit => RestoreInv
<1> SUFFICES ASSUME RestoreInit
             PROVE  RestoreInv
  OBVIOUS
<1>1. place \in [Files -> PlaceForms] /\ \A f \in Files : place[f].rollback = Nothing
  BY DEF RestoreInit, PlaceForms, First, Nothing
<1>2. journal = NoJournal /\ NoJournal \in JournalForms /\ marker = 0 /\ restore = 0 /\ pc = "idle" /\ next = "serve"
  BY DEF RestoreInit, NoJournal, JournalForms
<1>3. \A d \in Dirs : behind[d] = {} /\ Left(d) = {Snapshot(d)}
  BY DEF RestoreInit, Left
<1>4. DiskTypes
  <2>1. behind = [d \in Dirs |-> {}] /\ DOMAIN behind = Dirs /\ behind = [d \in Dirs |-> behind[d]]
    BY DEF RestoreInit
  <2>2. \A d \in Dirs : behind[d] \in SUBSET SnapshotForms(d)
    BY <1>3
  <2>3. /\ todo \in SUBSET Files /\ moved \in SUBSET Files /\ published \in SUBSET Files
        /\ committed \in BOOLEAN /\ restore \in Nat /\ syncLost \in BOOLEAN
    BY DEF RestoreInit
  <2> QED
    BY <1>1, <1>2, <2>1, <2>2, <2>3 DEF DiskTypes
<1>5. LoopsStartEmpty /\ PhaseInv
  BY DEF RestoreInit, LoopsStartEmpty, PhaseInv, Forward, Marked, Cleaning
<1>6. LeftInv
  BY <1>2, <1>3, SnapshotIs DEF LeftInv, Dirs, Forward, Marked
<1>7. Targets \in [Files -> Nat] /\ Targets \in agreed /\ \A f \in Files : Settled(place[f], Targets[f])
  BY <1>1 DEF RestoreInit, Targets, PlaceForms, Settled
<1>8. \A d \in Dirs : \A s \in Left(d) : \A f \in FilesIn(d) : Settled(s.place[f], Targets[f])
  BY <1>3, <1>7, SnapshotIs DEF FilesIn
<1>9. \A s \in Left("home") : s.journal = NoJournal /\ s.marker = 0
  BY <1>2, <1>3, SnapshotIs DEF Dirs
<1>10. FilesInv(Targets)
  BY <1>2, <1>8, <1>9 DEF FilesInv, Settled, Recovers, Dirs
<1>11. LoopInv(Targets)
  BY <1>2 DEF LoopInv, Forward, Marked, Cleaning
<1> QED
  BY <1>4, <1>5, <1>6, <1>7, <1>10, <1>11 DEF RestoreInv, RestoreHolds

\* And in every state of every behaviour.
LEMMA RestoreInvAlways == RestoreSpec => []RestoreInv
  BY RestoreStarts, RestoreInvStep, PTL DEF RestoreSpec

\* When no journal is there, every file is in its place.
LEMMA NoJournalMeansSettled ==
    ASSUME RestoreInv, pc \in {"serve", "stage"}
    PROVE  AllOrNothing /\ NothingLeftBehind
<1>1. PICK w \in agreed : w \in [Files -> Nat] /\ FilesInv(w)
  BY DEF RestoreInv, RestoreHolds
<1>2. journal = NoJournal
  BY DEF RestoreInv, PhaseInv
<1>3. \A f \in Files : Settled(place[f], w[f])
  BY <1>1, <1>2, HereRecovers
<1>4. w = Targets
  <2>1. w = [f \in Files |-> w[f]]
    BY <1>1
  <2> QED
    BY <1>3, <2>1 DEF Targets, Settled
<1> QED
  BY <1>1, <1>3, <1>4 DEF AllOrNothing, NothingLeftBehind, Settled

\* A server that runs, and a restore past its recovery, find the files all as
\* they were or all as the backup has them, whatever was interrupted before:
\* storage_restore.go recovers every restore to one contents.
THEOREM RestoreIsAllOrNothing == RestoreSpec => []AllOrNothing
<1>1. RestoreInv => AllOrNothing
  BY NoJournalMeansSettled DEF AllOrNothing
<1> QED
  BY <1>1, RestoreInvAlways, PTL

\* No file that a restore moved aside outlives the recovery.
THEOREM RestoreLeavesNothing == RestoreSpec => []NothingLeftBehind
<1>1. RestoreInv => NothingLeftBehind
  BY NoJournalMeansSettled DEF NothingLeftBehind
<1> QED
  BY <1>1, RestoreInvAlways, PTL
====
