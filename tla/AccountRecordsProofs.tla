------------------------- MODULE AccountRecordsProofs -------------------------
(***************************************************************************)
(* What AccountRecords states of deletions and exports, for any number of    *)
(* users and of concurrent requests.  The argument is Progress, DeletedSoFar *)
(* and ExportedSoFar: a collection that a request has passed stays as it     *)
(* left it, or is in the request's history.                                *)
(***************************************************************************)
EXTENDS AccountRecords, TLAPS

(* The two orders go through the same four collections, one place each.      *)
LEMMA Orders ==
  /\ \A i \in 1..4 : DeletionOrder[i] \in Collections /\ ExportOrder[i] \in Collections
  /\ \A i, j \in 1..4 : DeletionOrder[i] = DeletionOrder[j] => i = j
  /\ \A i, j \in 1..4 : ExportOrder[i] = ExportOrder[j] => i = j
  /\ DeletionOrder[4] = "users" /\ "users" \in Collections
  /\ \A c \in Owned : \E i \in 1..3 : DeletionOrder[i] = c
  /\ \A c \in Collections : \E i \in 1..4 : DeletionOrder[i] = c
  /\ \A c \in Collections : \E i \in 1..4 : ExportOrder[i] = c
  BY DEF DeletionOrder, ExportOrder, Collections, Owned

(* A write is noted by every request of its user, and of no other.           *)
LEMMA WriteIsNoted ==
  ASSUME IInv, NEW c \in Collections, NEW u \in Holders, Written(c, u)
  PROVE  /\ records' \in [Collections -> SUBSET Holders]
         /\ rewritten' \in [Calls -> SUBSET Collections]
         /\ vanished' = vanished
         /\ \A q \in Calls : rewritten[q] \subseteq rewritten'[q]
         /\ \A q \in Calls, d \in Collections :
              holder[q] \in Holders /\ ~(holder[q] \in records'[d] <=> holder[q] \in records[d])
                => d \in rewritten'[q]
         /\ \A v \in Holders : v \in records["users"] => v \in records'["users"]
         /\ \A d \in Collections, v \in Holders :
              v \in records'[d] => v \in records[d] \/ (d = c /\ v = u)
<1>1. records' = [records EXCEPT ![c] = @ \cup {u}] /\ vanished' = vanished
  BY DEF Written
<1>2. rewritten' = [q \in Calls |-> IF holder[q] = u THEN rewritten[q] \cup {c} ELSE rewritten[q]]
  BY DEF Written, Noting
<1>3. records \in [Collections -> SUBSET Holders] /\ rewritten \in [Calls -> SUBSET Collections]
  BY DEF IInv, TypeOK
<1>4. "users" \in Collections
  BY DEF Collections
<1> QED  BY <1>1, <1>2, <1>3, <1>4

(* A deletion takes away only, and is noted where it took something.         *)
LEMMA DeletionIsNoted ==
  ASSUME IInv, NEW c \in Collections, NEW u \in Holders, Emptied(c, u)
  PROVE  /\ records' \in [Collections -> SUBSET Holders]
         /\ vanished' \in [Calls -> SUBSET Collections]
         /\ rewritten' = rewritten
         /\ u \notin records'[c]
         /\ \A q \in Calls : vanished[q] \subseteq vanished'[q]
         /\ \A q \in Calls, d \in Collections :
              holder[q] \in Holders /\ ~(holder[q] \in records'[d] <=> holder[q] \in records[d])
                => d \in vanished'[q]
         /\ \A d \in Collections : records'[d] \subseteq records[d]
         /\ \A d \in Collections, v \in Holders :
              v \in records[d] /\ v \notin records'[d] => d = c /\ v = u
<1>1. records' = [records EXCEPT ![c] = @ \ {u}] /\ rewritten' = rewritten
  BY DEF Emptied
<1>2. vanished' = IF u \in records[c]
                  THEN [q \in Calls |-> IF holder[q] = u THEN vanished[q] \cup {c} ELSE vanished[q]]
                  ELSE vanished
  BY DEF Emptied, Noting
<1>3. records \in [Collections -> SUBSET Holders] /\ vanished \in [Calls -> SUBSET Collections]
  BY DEF IInv, TypeOK
<1> QED  BY <1>1, <1>2, <1>3

(* What both kinds of change keep of the requests they do not advance.       *)
LEMMA OthersKeep ==
  ASSUME IInv, NEW q \in Calls,
         asked'[q] = asked[q], holder'[q] = holder[q], done'[q] = done[q], found'[q] = found[q],
         records' \in [Collections -> SUBSET Holders],
         rewritten[q] \subseteq rewritten'[q], vanished[q] \subseteq vanished'[q],
         \A d \in Collections :
           holder[q] \in Holders /\ ~(holder[q] \in records'[d] <=> holder[q] \in records[d])
             => d \in rewritten'[q] \/ (d \in vanished'[q] /\ holder[q] \notin records'[d])
  PROVE  /\ asked'[q] = "delete" =>
              \A i \in 1..done'[q] :
                holder'[q] \in records'[DeletionOrder[i]] => DeletionOrder[i] \in rewritten'[q]
         /\ asked'[q] = "export" =>
              /\ found'[q] \subseteq {ExportOrder[i] : i \in 1..done'[q]}
              /\ \A i \in 1..done'[q] : LET c == ExportOrder[i] IN
                   c \notin rewritten'[q] \cup vanished'[q] =>
                     (c \in found'[q] <=> holder'[q] \in records'[c])
<1>1. done[q] \in 0..4
  BY DEF IInv, TypeOK
<1>2. asked[q] \in {"delete", "export"} => holder[q] \in Holders
  BY DEF IInv, Progress, ProgressOf
<1>3. CASE asked[q] = "delete"
  BY <1>1, <1>2, <1>3, Orders DEF IInv, DeletedSoFar
<1>4. CASE asked[q] = "export"
  BY <1>1, <1>2, <1>4, Orders DEF IInv, ExportedSoFar
<1> QED  BY <1>3, <1>4

(* Orphans stay accounted for by a write, which needs a profile or leaves one, *)
(* and by a deletion, which takes the profile when nothing else is left.      *)
LEMMA OrphansKept ==
  ASSUME IInv, NEW c \in Collections, NEW u \in Holders, Written(c, u),
         c = "users" \/ u \in records["users"], UNCHANGED <<asked, holder>>
  PROVE  OrphansAreOfRaces'
<1> SUFFICES ASSUME NEW d \in Owned, NEW v \in Holders, v \notin records'["users"], v \in records'[d]
             PROVE  \E r \in Calls : asked'[r] = "delete" /\ holder'[r] = v /\ d \in rewritten'[r]
  BY DEF OrphansAreOfRaces
<1>1. d \in Collections /\ d # "users"
  BY DEF Collections, Owned
<1>2. v \notin records["users"]
  BY WriteIsNoted
<1>3. v \in records[d]
  BY <1>1, <1>2, WriteIsNoted
<1>4. PICK r \in Calls : asked[r] = "delete" /\ holder[r] = v /\ d \in rewritten[r]
  BY <1>2, <1>3 DEF IInv, OrphansAreOfRaces
<1> QED  BY <1>4, WriteIsNoted

LEMMA OrphansLeft ==
  ASSUME IInv, NEW q \in Calls, asked[q] = "delete", done[q] \in 0..3, holder[q] \in Holders,
         Emptied(DeletionOrder[done[q] + 1], holder[q]), UNCHANGED <<asked, holder>>
  PROVE  OrphansAreOfRaces'
<1> DEFINE c == DeletionOrder[done[q] + 1]
<1> SUFFICES ASSUME NEW d \in Owned, NEW v \in Holders, v \notin records'["users"], v \in records'[d]
             PROVE  \E r \in Calls : asked'[r] = "delete" /\ holder'[r] = v /\ d \in rewritten'[r]
  BY DEF OrphansAreOfRaces
<1>1. d \in Collections /\ c \in Collections /\ "users" \in Collections
  BY Orders DEF Collections
<1>2. v \in records[d] /\ rewritten' = rewritten
  BY <1>1, DeletionIsNoted
<1>3. CASE v \notin records["users"]
  BY <1>2, <1>3 DEF IInv, OrphansAreOfRaces
<1>4. CASE v \in records["users"]
  <2>1. c = "users" /\ v = holder[q]
    BY <1>1, <1>4, DeletionIsNoted
  <2>2. done[q] = 3
    BY <2>1, Orders
  <2>3. PICK i \in 1..3 : DeletionOrder[i] = d
    BY Orders
  <2>4. d \in rewritten[q]
    BY <1>2, <2>1, <2>2, <2>3 DEF IInv, DeletedSoFar
  <2> QED  BY <1>2, <2>1, <2>4
<1> QED  BY <1>3, <1>4

-----------------------------------------------------------------------------
(* The steps *)

LEMMA InitInv == Init => IInv
  BY AccountAssumption
     DEF Init, IInv, TypeOK, Progress, ProgressOf, DeletedSoFar, ExportedSoFar, OrphansAreOfRaces, Collections, Owned

LEMMA AskStep ==
  ASSUME IInv, NEW q \in Calls, NEW what \in {"upsert", "export", "delete"}, NEW u \in Holders,
         Ask(q, what, u)
  PROVE  IInv'
<1>1. /\ asked[q] = None /\ done[q] = 0 /\ told[q] = None /\ ~late[q] /\ found[q] = {}
      /\ asked' = [asked EXCEPT ![q] = what] /\ holder' = [holder EXCEPT ![q] = u]
      /\ UNCHANGED <<records, done, found, told, late, rewritten, vanished>>
  BY DEF Ask, IInv, Progress, ProgressOf
<1>2. TypeOK'
  BY <1>1 DEF IInv, TypeOK
<1>3. Progress'
  <2> SUFFICES ASSUME NEW r \in Calls PROVE (ProgressOf(r))'
    BY DEF Progress
  <2>1. CASE r = q
    BY <2>1, <1>1, AccountAssumption DEF IInv, TypeOK, ProgressOf
  <2>2. CASE r # q
    BY <2>2, <1>1 DEF IInv, TypeOK, Progress, ProgressOf
  <2> QED  BY <2>1, <2>2
<1>4. DeletedSoFar'
  BY <1>1 DEF IInv, TypeOK, DeletedSoFar
<1>5. ExportedSoFar'
  BY <1>1 DEF IInv, TypeOK, ExportedSoFar
<1>6. OrphansAreOfRaces'
  <2> SUFFICES ASSUME NEW c \in Owned, NEW v \in Holders \ records["users"], v \in records[c]
               PROVE  \E r \in Calls : asked'[r] = "delete" /\ holder'[r] = v /\ c \in rewritten[r]
    BY <1>1 DEF OrphansAreOfRaces
  <2>1. PICK r \in Calls : asked[r] = "delete" /\ holder[r] = v /\ c \in rewritten[r]
    BY DEF IInv, OrphansAreOfRaces
  <2>2. r # q
    BY <1>1, <2>1, AccountAssumption
  <2> QED  BY <1>1, <2>1, <2>2 DEF IInv, TypeOK
<1> QED  BY <1>2, <1>3, <1>4, <1>5, <1>6 DEF IInv

(* The requests that a step does not advance need one look at OthersKeep;     *)
(* what is left is the request that moves.                                  *)
LEMMA UpsertStep ==
  ASSUME IInv, NEW q \in Calls, UpsertIdentity(q)
  PROVE  IInv'
<1>1. /\ asked[q] = "upsert" /\ told[q] = None /\ holder[q] \in Holders
      /\ told' = [told EXCEPT ![q] = "ok"]
      /\ UNCHANGED <<asked, holder, done, found, late>>
      /\ Written("users", holder[q])
  BY DEF UpsertIdentity, Waiting, IInv, Progress, ProgressOf
<1>2. TypeOK' /\ Progress'
  BY <1>1, WriteIsNoted, Orders, AccountAssumption DEF IInv, TypeOK, Progress, ProgressOf
<1>3. DeletedSoFar' /\ ExportedSoFar'
  BY <1>1, WriteIsNoted, OthersKeep, Orders DEF DeletedSoFar, ExportedSoFar
<1>4. OrphansAreOfRaces'
  BY <1>1, WriteIsNoted, Orders, OrphansKept DEF OrphansAreOfRaces
<1> QED  BY <1>2, <1>3, <1>4 DEF IInv

LEMMA ServiceStep ==
  ASSUME IInv, NEW c \in Owned, NEW u \in Holders, ServiceWrites(c, u)
  PROVE  IInv'
<1>1. /\ u \in records["users"] /\ Written(c, u) /\ c \in Collections
      /\ UNCHANGED <<asked, holder, done, found, told, late>>
  BY DEF ServiceWrites, calls, Collections
<1>2. TypeOK' /\ Progress'
  BY <1>1, WriteIsNoted DEF IInv, TypeOK, Progress, ProgressOf
<1>3. DeletedSoFar' /\ ExportedSoFar'
  BY <1>1, WriteIsNoted, OthersKeep DEF DeletedSoFar, ExportedSoFar
<1>4. OrphansAreOfRaces'
  BY <1>1, WriteIsNoted, Orders, OrphansKept DEF OrphansAreOfRaces
<1> QED  BY <1>2, <1>3, <1>4 DEF IInv

LEMMA DeleteStep ==
  ASSUME IInv, NEW q \in Calls, DeleteNext(q)
  PROVE  IInv'
<1> DEFINE c == DeletionOrder[done[q] + 1]
<1>1. /\ asked[q] = "delete" /\ told[q] = None /\ holder[q] \in Holders
      /\ Emptied(c, holder[q]) /\ Advance(q, c)
  BY DEF DeleteNext, Waiting, IInv, Progress, ProgressOf
<1>2. done[q] \in 0..3 /\ c \in Collections
  BY <1>1, Orders, AccountAssumption DEF IInv, TypeOK, Progress, ProgressOf
<1>3. /\ done' = [done EXCEPT ![q] = @ + 1]
      /\ found' = [found EXCEPT ![q] = IF holder[q] \in records[c] THEN @ \cup {c} ELSE @]
      /\ told' = [told EXCEPT ![q] = IF done[q] = 3 THEN "ok" ELSE None]
      /\ UNCHANGED <<asked, holder, late>>
  BY <1>1 DEF Advance
<1>4. TypeOK' /\ Progress'
  <2>1. TypeOK'
    BY <1>1, <1>2, <1>3, DeletionIsNoted DEF IInv, TypeOK
  <2>2. Progress'
    <3> SUFFICES ASSUME NEW r \in Calls PROVE (ProgressOf(r))'
      BY DEF Progress
    <3>1. CASE r = q
      BY <3>1, <1>1, <1>2, <1>3, AccountAssumption DEF IInv, TypeOK, Progress, ProgressOf
    <3>2. CASE r # q
      BY <3>2, <1>1, <1>2, <1>3 DEF IInv, TypeOK, Progress, ProgressOf
    <3> QED  BY <3>1, <3>2
  <2> QED  BY <2>1, <2>2
<1>5. \A r \in Calls \ {q} : done'[r] = done[r] /\ found'[r] = found[r]
  BY <1>3 DEF IInv, TypeOK
<1>6. DeletedSoFar'
  <2> SUFFICES ASSUME NEW r \in Calls, asked'[r] = "delete", NEW i \in 1..done'[r],
                      holder'[r] \in records'[DeletionOrder[i]]
               PROVE  DeletionOrder[i] \in rewritten'[r]
    BY DEF DeletedSoFar
  <2>1. CASE r # q
    BY <2>1, <1>1, <1>2, <1>3, <1>5, DeletionIsNoted, OthersKeep
  <2>2. CASE r = q /\ i = done[q] + 1
    BY <2>2, <1>1, <1>2, <1>3, DeletionIsNoted
  <2>3. CASE r = q /\ i # done[q] + 1
    <3>1. i \in 1..done[q] /\ DeletionOrder[i] \in Collections
      BY <2>3, <1>2, <1>3, Orders DEF IInv, TypeOK
    <3> QED
      BY <3>1, <2>3, <1>1, <1>2, <1>3, DeletionIsNoted DEF IInv, DeletedSoFar
  <2> QED  BY <2>1, <2>2, <2>3
<1>7. ExportedSoFar'
  BY <1>1, <1>2, <1>3, <1>5, DeletionIsNoted, OthersKeep DEF ExportedSoFar
<1>8. OrphansAreOfRaces'
  BY <1>1, <1>2, <1>3, DeletionIsNoted, Orders, OrphansLeft DEF OrphansAreOfRaces
<1> QED  BY <1>4, <1>6, <1>7, <1>8 DEF IInv

LEMMA LateStep ==
  ASSUME IInv, NEW q \in Calls, LateCommand(q)
  PROVE  IInv'
<1>1. /\ late[q] /\ late' = [late EXCEPT ![q] = FALSE] /\ done[q] \in 0..3
      /\ UNCHANGED <<asked, holder, done, found, told>>
  BY DEF LateCommand, IInv, TypeOK, Progress, ProgressOf
<1>2. CASE asked[q] = "upsert" /\ Written("users", holder[q])
  <2>1. holder[q] \in Holders
    BY <1>2 DEF IInv, Progress, ProgressOf
  <2>2. TypeOK' /\ Progress'
    BY <1>1, <1>2, <2>1, WriteIsNoted, Orders DEF IInv, TypeOK, Progress, ProgressOf
  <2>3. DeletedSoFar' /\ ExportedSoFar'
    BY <1>1, <1>2, <2>1, WriteIsNoted, OthersKeep, Orders DEF DeletedSoFar, ExportedSoFar
  <2>4. OrphansAreOfRaces'
    BY <1>1, <1>2, <2>1, WriteIsNoted, Orders, OrphansKept DEF OrphansAreOfRaces
  <2> QED  BY <2>2, <2>3, <2>4 DEF IInv
<1>3. CASE asked[q] = "delete" /\ Emptied(DeletionOrder[done[q] + 1], holder[q])
  <2> DEFINE c == DeletionOrder[done[q] + 1]
  <2>1. holder[q] \in Holders /\ c \in Collections
    BY <1>1, <1>3, Orders DEF IInv, Progress, ProgressOf
  <2>2. TypeOK' /\ Progress'
    BY <1>1, <1>3, <2>1, DeletionIsNoted DEF IInv, TypeOK, Progress, ProgressOf
  <2>3. DeletedSoFar' /\ ExportedSoFar'
    BY <1>1, <1>3, <2>1, DeletionIsNoted, OthersKeep DEF DeletedSoFar, ExportedSoFar
  <2>4. OrphansAreOfRaces'
    BY <1>1, <1>3, <2>1, DeletionIsNoted, Orders, OrphansLeft DEF OrphansAreOfRaces
  <2> QED  BY <2>2, <2>3, <2>4 DEF IInv
<1> QED  BY <1>2, <1>3 DEF LateCommand

LEMMA ExportStep ==
  ASSUME IInv, NEW q \in Calls, ExportNext(q)
  PROVE  IInv'
<1> DEFINE c == ExportOrder[done[q] + 1]
<1>1. asked[q] = "export" /\ told[q] = None /\ Advance(q, c)
  BY DEF ExportNext, Waiting
<1>2. done[q] \in 0..3 /\ c \in Collections
  BY <1>1, Orders, AccountAssumption DEF IInv, TypeOK, Progress, ProgressOf
<1>3. /\ done' = [done EXCEPT ![q] = @ + 1]
      /\ found' = [found EXCEPT ![q] = IF holder[q] \in records[c] THEN @ \cup {c} ELSE @]
      /\ told' = [told EXCEPT ![q] = IF done[q] = 3 THEN "ok" ELSE None]
      /\ UNCHANGED <<asked, holder, late, records, rewritten, vanished>>
  BY <1>1 DEF Advance, ExportNext
<1>4. TypeOK'
  BY <1>1, <1>2, <1>3 DEF IInv, TypeOK
<1>5. Progress'
  <2> SUFFICES ASSUME NEW r \in Calls PROVE (ProgressOf(r))'
    BY DEF Progress
  <2>1. CASE r = q
    BY <2>1, <1>1, <1>2, <1>3, AccountAssumption DEF IInv, TypeOK, Progress, ProgressOf
  <2>2. CASE r # q
    BY <2>2, <1>1, <1>2, <1>3 DEF IInv, TypeOK, Progress, ProgressOf
  <2> QED  BY <2>1, <2>2
<1>6. DeletedSoFar'
  BY <1>1, <1>3 DEF IInv, TypeOK, DeletedSoFar
<1>7. ExportedSoFar'
  <2> SUFFICES ASSUME NEW r \in Calls, asked'[r] = "export"
               PROVE  /\ found'[r] \subseteq {ExportOrder[i] : i \in 1..done'[r]}
                      /\ \A i \in 1..done'[r] : LET d == ExportOrder[i] IN
                           d \notin rewritten'[r] \cup vanished'[r] =>
                             (d \in found'[r] <=> holder'[r] \in records'[d])
    BY DEF ExportedSoFar
  <2>1. CASE r # q
    BY <2>1, <1>3 DEF IInv, TypeOK, ExportedSoFar
  <2>2. CASE r = q
    <3>1. done'[q] = done[q] + 1 /\ found'[q] \subseteq found[q] \cup {c} /\ found[q] \subseteq found'[q]
      BY <1>2, <1>3 DEF IInv, TypeOK
    <3>2. found[q] \subseteq {ExportOrder[i] : i \in 1..done[q]}
      BY <1>1 DEF IInv, ExportedSoFar
    <3>3. c \in found'[q] <=> holder[q] \in records[c]
      <4>1. \A i \in 1..done[q] : ExportOrder[i] # c
        BY <1>2, Orders
      <4>2. c \notin found[q]
        BY <4>1, <3>2
      <4> QED  BY <4>2, <1>3 DEF IInv, TypeOK
    <3>4. \A i \in 1..done[q] : ExportOrder[i] # c
      BY <1>2, Orders
    <3>5. found'[q] \subseteq {ExportOrder[i] : i \in 1..done[q] + 1}
      BY <3>1, <3>2, <1>2
    <3>6. ASSUME NEW i \in 1..done[q] + 1, ExportOrder[i] \notin rewritten[q] \cup vanished[q]
          PROVE  ExportOrder[i] \in found'[q] <=> holder[q] \in records[ExportOrder[i]]
      <4>1. CASE i = done[q] + 1
        BY <4>1, <3>3
      <4>2. CASE i \in 1..done[q]
        BY <4>2, <3>1, <3>4, <3>6, <1>1 DEF IInv, ExportedSoFar
      <4> QED  BY <4>1, <4>2, <1>2
    <3> QED  BY <2>2, <3>1, <3>5, <3>6, <1>3
  <2> QED  BY <2>1, <2>2
<1>8. OrphansAreOfRaces'
  BY <1>3 DEF IInv, OrphansAreOfRaces
<1> QED  BY <1>4, <1>5, <1>6, <1>7, <1>8 DEF IInv

LEMMA FailStep ==
  ASSUME IInv, NEW q \in Calls, Fails(q)
  PROVE  IInv'
<1>1. /\ asked[q] # None /\ told[q] = None
      /\ told' = [told EXCEPT ![q] = "unavailable"]
      /\ UNCHANGED <<records, asked, holder, done, found, rewritten, vanished>>
  BY DEF Fails
<1>2. PICK with \in BOOLEAN : late' = [late EXCEPT ![q] = with]
  BY DEF Fails
<1>3. TypeOK'
  BY <1>1, <1>2 DEF IInv, TypeOK
<1>4. Progress'
  <2> SUFFICES ASSUME NEW r \in Calls PROVE (ProgressOf(r))'
    BY DEF Progress
  <2>1. CASE r = q
    BY <2>1, <1>1, <1>2, AccountAssumption DEF IInv, TypeOK, Progress, ProgressOf
  <2>2. CASE r # q
    BY <2>2, <1>1, <1>2 DEF IInv, TypeOK, Progress, ProgressOf
  <2> QED  BY <2>1, <2>2
<1>5. DeletedSoFar' /\ ExportedSoFar' /\ OrphansAreOfRaces'
  BY <1>1 DEF IInv, DeletedSoFar, ExportedSoFar, OrphansAreOfRaces
<1> QED  BY <1>3, <1>4, <1>5 DEF IInv

-----------------------------------------------------------------------------
(* IInv is an invariant of every execution (PlatformStore's operations in     *)
(* any interleaving).                                                      *)
THEOREM Invariance == Spec => []IInv
<1>1. IInv /\ [Next]_vars => IInv'
  <2> SUFFICES ASSUME IInv, [Next]_vars PROVE IInv'
    OBVIOUS
  <2>1. ASSUME NEW q \in Calls, Call(q) PROVE IInv'
    BY <2>1, AskStep, UpsertStep, DeleteStep, ExportStep, FailStep, LateStep DEF Call
  <2>2. ASSUME NEW c \in Owned, NEW u \in Holders, ServiceWrites(c, u) PROVE IInv'
    BY <2>2, ServiceStep
  <2>3. CASE UNCHANGED vars
    BY <2>3 DEF vars, calls, IInv, TypeOK, Progress, ProgressOf, DeletedSoFar, ExportedSoFar, OrphansAreOfRaces
  <2> QED  BY <2>1, <2>2, <2>3 DEF Next
<1> QED  BY InitInv, <1>1, PTL DEF Spec

(* What an answered deletion leaves of its user was written after it began    *)
(* (delete_account).                                                       *)
THEOREM DeletionsAreComplete == Spec => []DeletionIsComplete
<1>1. IInv => DeletionIsComplete
  <2> SUFFICES ASSUME IInv, NEW q \in Calls, asked[q] = "delete", told[q] = "ok",
                      NEW c \in Collections, holder[q] \in records[c]
               PROVE  c \in rewritten[q]
    BY DEF DeletionIsComplete
  <2>1. done[q] = 4
    BY DEF IInv, Progress, ProgressOf
  <2> QED  BY <2>1, Orders DEF IInv, DeletedSoFar
<1> QED  BY Invariance, <1>1, PTL

(* Records without a profile come only of a service that wrote while a        *)
(* deletion had begun (the profile is the last that delete_account deletes). *)
THEOREM OrphansComeOfRaces == Spec => []OrphansAreOfRaces
<1>1. IInv => OrphansAreOfRaces
  BY DEF IInv
<1> QED  BY Invariance, <1>1, PTL

(* An export tells what it passed and nobody touched since, and that only     *)
(* (export_account).                                                       *)
THEOREM ExportsAreExact == Spec => []ExportIsExact
<1>1. IInv => ExportIsExact
  <2> SUFFICES ASSUME IInv, NEW q \in Calls, asked[q] = "export", told[q] = "ok",
                      NEW c \in Collections, c \notin rewritten[q] \cup vanished[q]
               PROVE  c \in found[q] <=> holder[q] \in records[c]
    BY DEF ExportIsExact
  <2>1. done[q] = 4
    BY DEF IInv, Progress, ProgressOf
  <2>2. PICK i \in 1..4 : ExportOrder[i] = c
    BY Orders
  <2> QED  BY <2>1, <2>2 DEF IInv, ExportedSoFar
<1> QED  BY Invariance, <1>1, PTL
=============================================================================
