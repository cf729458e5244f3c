----------------------------- MODULE FriendsProofs -----------------------------
(***************************************************************************)
(* Theorems about Friends, for every two wallets, every number of requests *)
(* in progress and every number of rows.                                   *)
(***************************************************************************)
EXTENDS Friends, FiniteSetTheorems, TLAPS

-----------------------------------------------------------------------------
(***************************************************************************)
(* The inductive invariant.                                                *)
(***************************************************************************)
HoldsLock(r) == req[r].at \in {"reopen", "accept", "decline", "remove"}

\* FOR UPDATE: no row is locked by two requests.
LocksExclude ==
  \A r, s \in Requests : HoldsLock(r) /\ HoldsLock(s) /\ req[r].row = req[s].row => r = s

\* What a request read under its lock is still so.
LockedAsRead ==
  \A r \in Requests :
    /\ At(r, "reopen") => rows[req[r].row].status = "declined"
    /\ At(r, "remove") => rows[req[r].row].status = "accepted"
    /\ At(r, "accept") \/ At(r, "decline") =>
         /\ rows[req[r].row].status = "pending"
         /\ rows[req[r].row].from = Other(req[r].actor)

\* Who has agreed to a row: the one who asked until the other accepts.
AgreedAsStored ==
  \A i \in Ids :
    /\ rows[i].status = "pending" => rows[i].agreed = {rows[i].from}
    /\ rows[i].status = "accepted" => rows[i].agreed = Pair

\* The unique index.
OneActive == \A i, j \in Active : i = j

\* Ids are handed out in order and never taken back.
IdsInOrder == \E n \in 0 .. MaxRows : \A i \in Ids : rows[i] # NoRow <=> i <= n

FriendInv ==
  FriendTypeOK /\ LocksExclude /\ LockedAsRead /\ AgreedAsStored /\ OneActive /\ IdsInOrder

-----------------------------------------------------------------------------
(***************************************************************************)
(* The operators.                                                          *)
(***************************************************************************)
\* The pair is a wallet and the other one.
LEMMA PairIs ==
  ASSUME NEW w \in Pair
  PROVE  Other(w) \in Pair /\ Other(w) # w /\ Pair = {w, Other(w)}
  <1>1. IsFiniteSet(Pair) /\ Cardinality(Pair) = 2
    BY FriendAssumption
  <1>2. IsFiniteSet(Pair \ {w}) /\ Cardinality(Pair \ {w}) = 1
    BY <1>1, FS_RemoveElement
  <1>3. PICK x : Pair \ {w} = {x}
    BY <1>2, FS_Singleton
  <1>4. \E y \in Pair : y # w
    BY <1>3
  <1>5. Other(w) \in Pair /\ Other(w) # w
    BY <1>4 DEF Other
  <1> QED
    BY <1>3, <1>5

\* The next id is the first one never used.
LEMMA NextIdIs ==
  ASSUME NEW n \in 0 .. MaxRows, \A i \in Ids : rows[i] # NoRow <=> i <= n
  PROVE  NextId = n + 1
  <1>1. MaxRows \in Nat
    BY FriendAssumption
  <1>2. { i \in Ids : rows[i] # NoRow } = 1 .. n
    BY <1>1 DEF Ids
  <1>3. Cardinality(1 .. n) = n
    BY <1>1, FS_Interval
  <1> QED
    BY <1>2, <1>3 DEF NextId

-----------------------------------------------------------------------------
(***************************************************************************)
(* Steps that read and lock: FindPair, FindAgain, FindRequest, and the     *)
(* rollback, which leave the rows alone.                                   *)
(***************************************************************************)
Locking == {"reopen", "accept", "decline", "remove"}

\* What a request may become next without a write: a holder of a free row
\* whose status it has read, or of no row at all.
Proper(next) ==
  /\ next \in Request
  /\ next.at \in Locking => ~Locked(next.row)
  /\ next.at = "reopen" => rows[next.row].status = "declined"
  /\ next.at = "remove" => rows[next.row].status = "accepted"
  /\ next.at \in {"accept", "decline"} =>
       rows[next.row].status = "pending" /\ rows[next.row].from = Other(next.actor)

MovesOn(r) == \E next : Proper(next) /\ Goto(r, next)

\* To answer holds no row.
LEMMA AnswerMovesOn ==
  ASSUME NEW r \in Requests, Answer(r)
  PROVE  MovesOn(r)
  BY DEF Answer, MovesOn, Proper, Request, Idle, Locking

\* The row found is held when its status calls for a write.
LEMMA FoundMovesOn ==
  ASSUME NEW r \in Requests, NEW op \in {"send", "remove"}, NEW w \in Pair, NEW i \in Ids,
         ~Locked(i), Found(r, op, w, i)
  PROVE  MovesOn(r)
  <1>1. CASE op = "send" /\ rows[i].status = "declined"
    <2> DEFINE next == [at |-> "reopen", actor |-> w, row |-> i]
    <2>1. Goto(r, next)
      BY <1>1 DEF Found
    <2>2. Proper(next)
      BY <1>1 DEF Proper, Request, Locking
    <2> QED
      BY <2>1, <2>2 DEF MovesOn
  <1>2. CASE op = "remove" /\ rows[i].status = "accepted"
    <2> DEFINE next == [at |-> "remove", actor |-> w, row |-> i]
    <2>1. Goto(r, next)
      BY <1>2 DEF Found
    <2>2. Proper(next)
      BY <1>2 DEF Proper, Request, Locking
    <2> QED
      BY <2>1, <2>2 DEF MovesOn
  <1>3. CASE /\ ~(op = "send" /\ rows[i].status = "declined")
             /\ ~(op = "remove" /\ rows[i].status = "accepted")
    <2>1. Answer(r)
      BY <1>3 DEF Found
    <2> QED
      BY <2>1, AnswerMovesOn
  <1> QED
    BY <1>1, <1>2, <1>3

\* Without a row there is nothing to hold.
LEMMA NotFoundMovesOn ==
  ASSUME NEW r \in Requests, NEW op \in {"send", "remove"}, NEW w \in Pair, NotFound(r, op, w)
  PROVE  MovesOn(r)
  <1> DEFINE next == [at |-> "insert", actor |-> w]
  <1>1. Proper(next)
    BY DEF Proper, Request, Locking
  <1>2. Goto(r, next) => MovesOn(r)
    BY <1>1 DEF MovesOn
  <1> QED
    BY <1>2, AnswerMovesOn DEF NotFound

\* A locked row is waited for, a free one held.
LEMMA LockRowMovesOn ==
  ASSUME NEW r \in Requests, NEW op \in {"send", "remove"}, NEW w \in Pair, NEW i \in Ids,
         NEW rest \in SUBSET Ids, LockRow(r, op, w, i, rest)
  PROVE  MovesOn(r)
  <1>1. CASE Locked(i)
    <2> DEFINE next == [at |-> "find", op |-> op, actor |-> w, row |-> i, rest |-> rest]
    <2>1. Proper(next)
      BY DEF Proper, Request, Locking
    <2>2. Goto(r, next)
      BY <1>1 DEF LockRow
    <2> QED
      BY <2>1, <2>2 DEF MovesOn
  <1>2. CASE ~Locked(i)
    BY <1>2, FoundMovesOn DEF LockRow
  <1> QED
    BY <1>1, <1>2

\* A request that waits has an actor, a row and its snapshot.
LEMMA WaiterIs ==
  ASSUME FriendTypeOK, NEW r \in Requests, At(r, "find")
  PROVE  /\ req[r].op \in {"send", "remove"}
         /\ req[r].actor \in Pair
         /\ req[r].row \in Ids
         /\ req[r].rest \in SUBSET Ids
  <1>1. req[r] \in Request /\ req[r].at = "find"
    BY DEF FriendTypeOK, At
  <1> QED
    BY <1>1 DEF Request, Idle

\* Each of the reading steps moves its request on and writes nothing.
LEMMA ReadersMoveOn ==
  ASSUME FriendTypeOK, NEW r \in Requests,
         \/ \E op \in {"send", "remove"}, w \in Pair : FindPair(r, op, w)
         \/ \E w \in Pair, i \in Ids, op \in {"accept", "decline"} : FindRequest(r, w, i, op)
         \/ FindAgain(r)
         \/ RollBack(r)
  PROVE  MovesOn(r) /\ UNCHANGED rows
  <1>1. ASSUME NEW op \in {"send", "remove"}, NEW w \in Pair, FindPair(r, op, w)
        PROVE  MovesOn(r) /\ UNCHANGED rows
    <2>1. Present \in SUBSET Ids
      BY DEF Present
    <2>2. ASSUME NEW i \in Present, LockRow(r, op, w, i, Present \ {i})
          PROVE  MovesOn(r)
      <3>1. i \in Ids /\ Present \ {i} \in SUBSET Ids
        BY <2>1
      <3> QED
        BY <2>2, <3>1, LockRowMovesOn
    <2> QED
      BY <1>1, <2>2, NotFoundMovesOn DEF FindPair
  <1>2. ASSUME NEW w \in Pair, NEW i \in Ids, NEW op \in {"accept", "decline"},
               FindRequest(r, w, i, op)
        PROVE  MovesOn(r) /\ UNCHANGED rows
    <2> DEFINE next == [at |-> op, actor |-> w, row |-> i]
    <2>1. Proper(next)
      BY <1>2 DEF FindRequest, Proper, Request, Locking
    <2> QED
      BY <1>2, <2>1 DEF FindRequest, MovesOn
  <1>3. ASSUME FindAgain(r)
        PROVE  MovesOn(r) /\ UNCHANGED rows
    <2> DEFINE op == req[r].op
               w == req[r].actor
               left == req[r].rest \cap Present
    <2>1. /\ op \in {"send", "remove"} /\ w \in Pair /\ req[r].row \in Ids
          /\ left \in SUBSET Ids /\ ~Locked(req[r].row)
      BY <1>3, WaiterIs DEF FindAgain
    <2>2. \/ Found(r, op, w, req[r].row)
          \/ NotFound(r, op, w)
          \/ \E i \in left : LockRow(r, op, w, i, left \ {i})
      BY <1>3 DEF FindAgain
    <2>3. ASSUME NEW i \in left, LockRow(r, op, w, i, left \ {i})
          PROVE  MovesOn(r)
      <3>1. i \in Ids /\ left \ {i} \in SUBSET Ids
        BY <2>1
      <3> QED
        BY <2>1, <2>3, <3>1, LockRowMovesOn
    <2> QED
      BY <1>3, <2>1, <2>2, <2>3, FoundMovesOn, NotFoundMovesOn DEF FindAgain
  <1>4. ASSUME RollBack(r)
        PROVE  MovesOn(r) /\ UNCHANGED rows
    BY <1>4, AnswerMovesOn DEF RollBack
  <1> QED
    BY <1>1, <1>2, <1>3, <1>4

\* A reading step keeps the invariant: a lock is taken on a free row only, and
\* what the request remembers of the row is what the row says.
LEMMA ReadStep ==
  ASSUME FriendInv, NEW r \in Requests, MovesOn(r), UNCHANGED rows
  PROVE  FriendInv'
  <1>1. PICK next : Proper(next) /\ Goto(r, next)
    BY DEF MovesOn
  <1>2. req' = [req EXCEPT ![r] = next] /\ req \in [Requests -> Request] /\ next \in Request
    BY <1>1 DEF Goto, Proper, FriendInv, FriendTypeOK
  <1>3. FriendTypeOK'
    BY <1>2 DEF FriendInv, FriendTypeOK
  <1>4. LocksExclude'
    <2> SUFFICES ASSUME NEW s \in Requests, NEW t \in Requests,
                        HoldsLock(s)', HoldsLock(t)', req'[s].row = req'[t].row
                 PROVE  s = t
      BY DEF LocksExclude
    <2>1. CASE s # r /\ t # r
      BY <1>2, <2>1 DEF HoldsLock, FriendInv, LocksExclude
    <2>2. CASE s = r /\ t # r
      BY <1>1, <1>2, <2>2 DEF HoldsLock, Proper, Locking, Locked
    <2>3. CASE s # r /\ t = r
      BY <1>1, <1>2, <2>3 DEF HoldsLock, Proper, Locking, Locked
    <2> QED
      BY <2>1, <2>2, <2>3
  <1>5. LockedAsRead'
    <2> SUFFICES ASSUME NEW s \in Requests
                 PROVE
                   (/\ At(s, "reopen") => rows[req[s].row].status = "declined"
                    /\ At(s, "remove") => rows[req[s].row].status = "accepted"
                    /\ At(s, "accept") \/ At(s, "decline") =>
                         /\ rows[req[s].row].status = "pending"
                         /\ rows[req[s].row].from = Other(req[s].actor))'
      BY DEF LockedAsRead
    <2>1. CASE s = r
      BY <1>1, <1>2, <2>1 DEF Proper, At
    <2>2. CASE s # r
      BY <1>2, <2>2 DEF FriendInv, LockedAsRead, At
    <2> QED
      BY <2>1, <2>2
  <1>6. (AgreedAsStored /\ OneActive /\ IdsInOrder)'
    BY DEF FriendInv, AgreedAsStored, OneActive, IdsInOrder, Active
  <1> QED
    BY <1>3, <1>4, <1>5, <1>6 DEF FriendInv

-----------------------------------------------------------------------------
(***************************************************************************)
(* Steps that write: the request answers and its row, if it wrote one, is  *)
(* a new one or the one it held.                                           *)
(***************************************************************************)
\* A request that holds a lock has an actor and a row.
LEMMA HolderIs ==
  ASSUME FriendTypeOK, NEW r \in Requests, HoldsLock(r)
  PROVE  req[r].actor \in Pair /\ req[r].row \in Ids
  <1>1. req[r] \in Request /\ req[r].at \in {"reopen", "accept", "decline", "remove"}
    BY DEF FriendTypeOK, HoldsLock
  <1> QED
    BY <1>1 DEF Request, Idle

\* A request of `w` makes a well-typed row that `w` has agreed to.
LEMMA AskedIs ==
  ASSUME NEW w \in Pair
  PROVE  /\ Asked(w) \in Row /\ Asked(w) # NoRow
         /\ Asked(w).status = "pending" /\ Asked(w).agreed = {Asked(w).from}
  BY DEF Asked, Row, NoRow

\* An answer without a write.
LEMMA AnswerStep ==
  ASSUME FriendInv, NEW r \in Requests, Answer(r), UNCHANGED rows
  PROVE  FriendInv'
  BY AnswerMovesOn, ReadStep

\* A request that answers and writes row `i`, which no other request holds,
\* keeps the invariant when the new value agrees with what is stored, is not a
\* second active row, and the ids in use are still in order.
LEMMA WriteStep ==
  ASSUME FriendInv, NEW r \in Requests, NEW i, NEW row \in Row \cup {Removed},
         Answer(r), Write(i, row),
         \A s \in Requests : HoldsLock(s) /\ req[s].row = i => s = r,
         row.status = "pending" => row.agreed = {row.from},
         row.status = "accepted" => row.agreed = Pair,
         row.status \in {"pending", "accepted"} => Active \subseteq {i},
         IdsInOrder'
  PROVE  FriendInv'
  <1>1. /\ req' = [req EXCEPT ![r] = Idle] /\ req \in [Requests -> Request]
        /\ rows' = [rows EXCEPT ![i] = row] /\ rows \in [Ids -> Row \cup {NoRow, Removed}]
    BY DEF Answer, Goto, Write, FriendInv, FriendTypeOK
  <1>2. FriendTypeOK'
    <2>1. Idle \in Request
      BY DEF Request
    <2> QED
      BY <1>1, <2>1 DEF FriendTypeOK
  <1>3. \A s \in Requests : HoldsLock(s)' => s # r /\ HoldsLock(s) /\ req'[s] = req[s]
    BY <1>1 DEF HoldsLock, Idle
  <1>4. LocksExclude'
    BY <1>3 DEF LocksExclude, FriendInv
  <1>5. LockedAsRead'
    <2> SUFFICES ASSUME NEW s \in Requests, HoldsLock(s)'
                 PROVE
                   (/\ At(s, "reopen") => rows[req[s].row].status = "declined"
                    /\ At(s, "remove") => rows[req[s].row].status = "accepted"
                    /\ At(s, "accept") \/ At(s, "decline") =>
                         /\ rows[req[s].row].status = "pending"
                         /\ rows[req[s].row].from = Other(req[s].actor))'
      BY DEF LockedAsRead, HoldsLock, At
    <2>1. s # r /\ HoldsLock(s) /\ req'[s] = req[s]
      BY <1>3
    <2>2. req[s].row # i
      BY <2>1
    <2>3. rows'[req[s].row] = rows[req[s].row]
      <3>1. req[s].row \in Ids
        BY <2>1, HolderIs DEF FriendInv
      <3> QED
        BY <1>1, <2>2, <3>1
    <2> QED
      BY <2>1, <2>3 DEF FriendInv, LockedAsRead, At
  <1>6. AgreedAsStored'
    BY <1>1 DEF FriendInv, AgreedAsStored
  <1>7. OneActive'
    <2>1. Active' \subseteq Active \cup {i}
      BY <1>1 DEF Active
    <2>2. row.status \notin {"pending", "accepted"} => Active' \subseteq Active
      BY <1>1 DEF Active
    <2> QED
      BY <2>1, <2>2 DEF FriendInv, OneActive
  <1> QED
    BY <1>2, <1>4, <1>5, <1>6, <1>7 DEF FriendInv

\* A row held is one in use, so that writing it keeps the ids in order.
LEMMA HeldKeepsOrder ==
  ASSUME FriendInv, NEW r \in Requests, HoldsLock(r), NEW row, row # NoRow, Write(req[r].row, row)
  PROVE  IdsInOrder'
  <1>1. req[r].row \in Ids
    BY HolderIs DEF FriendInv
  <1>2. rows[req[r].row] # NoRow
    BY DEF FriendInv, LockedAsRead, HoldsLock, At, NoRow
  <1>3. rows' = [rows EXCEPT ![req[r].row] = row] /\ rows \in [Ids -> Row \cup {NoRow, Removed}]
    BY DEF Write, FriendInv, FriendTypeOK
  <1>4. \A i \in Ids : rows'[i] # NoRow <=> rows[i] # NoRow
    BY <1>1, <1>2, <1>3
  <1> QED
    BY <1>4 DEF IdsInOrder, FriendInv

\* No other request holds the row a request holds.
LEMMA HeldAlone ==
  ASSUME FriendInv, NEW r \in Requests, HoldsLock(r)
  PROVE  \A s \in Requests : HoldsLock(s) /\ req[s].row = req[r].row => s = r
  BY DEF FriendInv, LocksExclude

\* A request without a row inserts one when the index sees no active row.  The
\* new id has never been used, so that nobody holds it.
LEMMA InsertStep ==
  ASSUME FriendInv, NEW r \in Requests, InsertRequest(r)
  PROVE  FriendInv'
  <1>1. CASE UNCHANGED rows
    BY <1>1, AnswerStep DEF InsertRequest
  <1>2. CASE Active = {} /\ Write(NextId, Asked(req[r].actor))
    <2>1. req[r].actor \in Pair
      <3>1. req[r] \in Request /\ req[r].at = "insert"
        BY DEF InsertRequest, At, FriendInv, FriendTypeOK
      <3> QED
        BY <3>1 DEF Request, Idle
    <2>2. PICK n \in 0 .. MaxRows : \A i \in Ids : rows[i] # NoRow <=> i <= n
      BY DEF FriendInv, IdsInOrder
    <2>3. NextId = n + 1 /\ MaxRows \in Nat /\ n \in Nat
      BY <2>2, NextIdIs, FriendAssumption
    <2>4. \A s \in Requests : ~(HoldsLock(s) /\ req[s].row = NextId)
      <3> SUFFICES ASSUME NEW s \in Requests, HoldsLock(s), req[s].row = NextId
                   PROVE  FALSE
        OBVIOUS
      <3>1. req[s].row \in Ids
        BY HolderIs DEF FriendInv
      <3>2. rows[req[s].row] # NoRow
        BY DEF FriendInv, LockedAsRead, HoldsLock, At, NoRow
      <3> QED
        BY <2>2, <2>3, <3>1, <3>2
    <2>5. IdsInOrder'
      <3>1. /\ rows' = [rows EXCEPT ![NextId] = Asked(req[r].actor)]
            /\ rows \in [Ids -> Row \cup {NoRow, Removed}]
        BY <1>2 DEF Write, FriendInv, FriendTypeOK
      <3>2. CASE NextId \in Ids
        <4>1. n + 1 \in 0 .. MaxRows
          BY <2>3, <3>2 DEF Ids
        <4>2. \A i \in Ids : rows'[i] # NoRow <=> i <= n + 1
          BY <2>1, <2>2, <2>3, <3>1, <3>2, AskedIs DEF Ids
        <4> QED
          BY <4>1, <4>2 DEF IdsInOrder
      <3>3. CASE NextId \notin Ids
        <4>1. rows' = rows
          BY <3>1, <3>3
        <4> QED
          BY <4>1 DEF IdsInOrder, FriendInv
      <3> QED
        BY <3>2, <3>3
    <2> DEFINE row == Asked(req[r].actor)
    <2>6. /\ row \in Row /\ row.status = "pending" /\ row.agreed = {row.from}
      BY <2>1, AskedIs
    <2>7. Answer(r)
      BY DEF InsertRequest
    <2> HIDE DEF row
    <2>8. Write(NextId, row) /\ Active \subseteq {NextId}
      BY <1>2 DEF row
    <2>9. row.status # "accepted" /\ row \in Row \cup {Removed}
      BY <2>6
    <2> QED
      BY <2>4, <2>5, <2>6, <2>7, <2>8, <2>9, WriteStep
  <1> QED
    BY <1>1, <1>2 DEF InsertRequest

\* A declined row becomes a request when the index sees no other active row.
LEMMA ReopenStep ==
  ASSUME FriendInv, NEW r \in Requests, Reopen(r)
  PROVE  FriendInv'
  <1>1. CASE UNCHANGED rows
    BY <1>1, AnswerStep DEF Reopen
  <1>2. CASE Active \ {req[r].row} = {} /\ Write(req[r].row, Asked(req[r].actor))
    <2> DEFINE row == Asked(req[r].actor)
               i == req[r].row
    <2>1. HoldsLock(r)
      BY DEF Reopen, At, HoldsLock
    <2>2. req[r].actor \in Pair
      BY <2>1, HolderIs DEF FriendInv
    <2>3. row \in Row /\ row # NoRow /\ row.status = "pending" /\ row.agreed = {row.from}
      BY <2>2, AskedIs
    <2>4. Answer(r)
      BY DEF Reopen
    <2> HIDE DEF row, i
    <2>5. Write(i, row) /\ Active \subseteq {i}
      BY <1>2 DEF row, i
    <2>6. IdsInOrder'
      BY <2>1, <2>3, <2>5, HeldKeepsOrder DEF i
    <2>7. \A s \in Requests : HoldsLock(s) /\ req[s].row = i => s = r
      BY <2>1, HeldAlone DEF i
    <2>8. row.status # "accepted" /\ row \in Row \cup {Removed}
      BY <2>3
    <2> QED
      BY <2>3, <2>4, <2>5, <2>6, <2>7, <2>8, WriteStep
  <1> QED
    BY <1>1, <1>2 DEF Reopen

\* The answers to a pending row: the one it is addressed to accepts it, so that
\* both have agreed, or declines it.
LEMMA AnswerRequestStep ==
  ASSUME FriendInv, NEW r \in Requests, Accept(r) \/ Decline(r)
  PROVE  FriendInv'
  <1> DEFINE i == req[r].row
             old == rows[i]
  <1>1. HoldsLock(r) /\ Answer(r)
    BY DEF Accept, Decline, At, HoldsLock
  <1>2. req[r].actor \in Pair /\ i \in Ids
    BY <1>1, HolderIs DEF FriendInv
  <1>3. old.status = "pending" /\ old.from = Other(req[r].actor)
    BY DEF Accept, Decline, FriendInv, LockedAsRead, At
  <1>4. old \in Row /\ old.agreed = {old.from}
    <2>1. old \in Row \cup {NoRow, Removed}
      BY <1>2 DEF FriendInv, FriendTypeOK
    <2> QED
      BY <1>2, <1>3, <2>1 DEF NoRow, Removed, FriendInv, AgreedAsStored
  <1>5. Active \subseteq {i}
    BY <1>2, <1>3 DEF FriendInv, OneActive, Active
  <1>6. \A s \in Requests : HoldsLock(s) /\ req[s].row = i => s = r
    BY <1>1, HeldAlone
  <1>7. CASE Accept(r)
    <2> DEFINE row == [old EXCEPT !.status = "accepted", !.agreed = @ \cup {req[r].actor}]
    <2>1. row.agreed = Pair
      <3>1. row.agreed = {Other(req[r].actor)} \cup {req[r].actor}
        BY <1>3, <1>4 DEF Row
      <3> QED
        BY <1>2, <3>1, PairIs
    <2>2. row.status = "accepted"
      BY <1>4 DEF Row
    <2>3. row \in Row
      BY <1>4, <2>1, <2>2 DEF Row
    <2>4. Write(i, row)
      BY <1>7 DEF Accept
    <2>5. row # NoRow
      BY <2>2 DEF NoRow
    <2>6. IdsInOrder'
      BY <1>1, <2>4, <2>5, HeldKeepsOrder
    <2> HIDE DEF row, i
    <2> QED
      BY <1>1, <1>5, <1>6, <2>1, <2>2, <2>3, <2>4, <2>6, WriteStep
  <1>8. CASE Decline(r)
    <2> DEFINE row == [old EXCEPT !.status = "declined"]
    <2>1. row \in Row /\ row.status = "declined"
      BY <1>4 DEF Row
    <2>2. Write(i, row)
      BY <1>8 DEF Decline
    <2>3. row # NoRow
      BY <2>1 DEF NoRow
    <2>4. IdsInOrder'
      BY <1>1, <2>2, <2>3, HeldKeepsOrder
    <2> HIDE DEF row, i
    <2> QED
      BY <1>1, <1>6, <2>1, <2>2, <2>4, WriteStep
  <1> QED
    BY <1>7, <1>8

\* An accepted row is deleted.
LEMMA RemoveStep ==
  ASSUME FriendInv, NEW r \in Requests, Remove(r)
  PROVE  FriendInv'
  <1> DEFINE i == req[r].row
  <1>1. HoldsLock(r) /\ Answer(r) /\ Write(i, Removed)
    BY DEF Remove, At, HoldsLock
  <1>2. Removed # NoRow /\ Removed.status = "removed"
    BY DEF Removed, NoRow
  <1>3. IdsInOrder'
    BY <1>1, <1>2, HeldKeepsOrder
  <1>4. \A s \in Requests : HoldsLock(s) /\ req[s].row = i => s = r
    BY <1>1, HeldAlone
  <1> HIDE DEF i
  <1> QED
    BY <1>1, <1>2, <1>3, <1>4, WriteStep

-----------------------------------------------------------------------------
(***************************************************************************)
(* The theorems.                                                           *)
(***************************************************************************)
\* At first there are no rows and no requests.
LEMMA InitStep == Init => FriendInv
  <1> SUFFICES ASSUME Init
               PROVE  FriendInv
    OBVIOUS
  <1>1. FriendTypeOK
    BY DEF Init, FriendTypeOK, Request
  <1>2. LocksExclude /\ LockedAsRead
    BY DEF Init, LocksExclude, LockedAsRead, HoldsLock, At, Idle
  <1>3. AgreedAsStored /\ OneActive
    BY DEF Init, AgreedAsStored, OneActive, Active, NoRow
  <1>4. IdsInOrder
    <2>1. 0 \in 0 .. MaxRows /\ \A i \in Ids : ~(i <= 0)
      BY FriendAssumption DEF Ids
    <2>2. \A i \in Ids : rows[i] = NoRow
      BY DEF Init
    <2> QED
      BY <2>1, <2>2 DEF IdsInOrder
  <1> QED
    BY <1>1, <1>2, <1>3, <1>4 DEF FriendInv

\* Every step keeps the invariant.
LEMMA NextStep == FriendInv /\ [Next]_vars => FriendInv'
  <1> SUFFICES ASSUME FriendInv, [Next]_vars
               PROVE  FriendInv'
    OBVIOUS
  <1>1. CASE UNCHANGED vars
    BY <1>1 DEF vars, FriendInv, FriendTypeOK, LocksExclude, LockedAsRead, AgreedAsStored,
                OneActive, IdsInOrder, HoldsLock, At, Active
  <1>2. CASE Next
    <2> FriendTypeOK
      BY DEF FriendInv
    <2>1. PICK r \in Requests :
            \/ \E op \in {"send", "remove"}, w \in Pair : FindPair(r, op, w)
            \/ \E w \in Pair, i \in Ids, op \in {"accept", "decline"} : FindRequest(r, w, i, op)
            \/ Proceed(r)
            \/ RollBack(r)
      BY <1>2 DEF Next
    <2>2. CASE \/ \E op \in {"send", "remove"}, w \in Pair : FindPair(r, op, w)
               \/ \E w \in Pair, i \in Ids, op \in {"accept", "decline"} : FindRequest(r, w, i, op)
               \/ FindAgain(r)
               \/ RollBack(r)
      BY <2>2, ReadersMoveOn, ReadStep
    <2>3. CASE InsertRequest(r)
      BY <2>3, InsertStep
    <2>4. CASE Reopen(r)
      BY <2>4, ReopenStep
    <2>5. CASE Accept(r) \/ Decline(r)
      BY <2>5, AnswerRequestStep
    <2>6. CASE Remove(r)
      BY <2>6, RemoveStep
    <2> QED
      BY <2>1, <2>2, <2>3, <2>4, <2>5, <2>6 DEF Proceed
  <1> QED
    BY <1>1, <1>2

\* Row locks, the unique index and the order of ids together are preserved by
\* every transaction of either wallet (friendship_store.go).
THEOREM FriendsCorrect == Spec => []FriendInv
  BY InitStep, NextStep, PTL DEF Spec

\* A pair of wallets has one active edge at most, and an accepted one has been
\* agreed to by both, whatever the interleaving of their requests
\* (friendships_pair_active, setPendingStatus, SendRequest).
THEOREM OneEdge == Spec => []OneMutualEdge
  <1>1. FriendInv => OneMutualEdge
    <2> SUFFICES ASSUME FriendInv
                 PROVE  OneMutualEdge
      OBVIOUS
    <2>1. Cardinality(Active) <= 1
      <3>1. CASE Active = {}
        BY <3>1, FS_EmptySet
      <3>2. CASE Active # {}
        <4>1. PICK i : Active = {i}
          BY <3>2 DEF FriendInv, OneActive
        <4>2. Cardinality({i}) = 1
          BY FS_Singleton
        <4> QED
          BY <4>1, <4>2
      <3> QED
        BY <3>1, <3>2
    <2>2. AcceptedByBoth
      BY DEF AcceptedByBoth, Present, FriendInv, AgreedAsStored
    <2> QED
      BY <2>1, <2>2 DEF OneMutualEdge
  <1> QED
    BY <1>1, FriendsCorrect, PTL

\* A step that changes an accepted row is the removal by the request that holds
\* it; a late decline, request or reopening finds another status under its lock.
LEMMA AcceptedIsHeld ==
  ASSUME FriendInv, Next, NEW i \in Ids, rows[i].status = "accepted", rows'[i] # rows[i]
  PROVE  rows'[i] = Removed /\ \E r \in Requests : At(r, "remove") /\ req[r].row = i
  <1> FriendTypeOK
    BY DEF FriendInv
  <1>1. PICK r \in Requests :
          \/ \E op \in {"send", "remove"}, w \in Pair : FindPair(r, op, w)
          \/ \E w \in Pair, k \in Ids, op \in {"accept", "decline"} : FindRequest(r, w, k, op)
          \/ Proceed(r)
          \/ RollBack(r)
    BY DEF Next
  <1>2. rows \in [Ids -> Row \cup {NoRow, Removed}] /\ i \in Active
    BY DEF FriendTypeOK, Active
  <1>3. InsertRequest(r) => UNCHANGED rows
    BY <1>2 DEF InsertRequest
  <1>4. ~Reopen(r)
    <2> SUFFICES ASSUME Reopen(r)
                 PROVE  FALSE
      OBVIOUS
    <2>1. rows[req[r].row].status = "declined"
      BY DEF Reopen, FriendInv, LockedAsRead
    <2>2. req[r].row # i
      BY <2>1
    <2>3. UNCHANGED rows
      BY <1>2, <2>2 DEF Reopen
    <2> QED
      BY <2>3
  <1>5. ~Accept(r) /\ ~Decline(r)
    <2> SUFFICES ASSUME Accept(r) \/ Decline(r)
                 PROVE  FALSE
      OBVIOUS
    <2>1. rows[req[r].row].status = "pending"
      BY DEF Accept, Decline, FriendInv, LockedAsRead
    <2>2. req[r].row # i
      BY <2>1
    <2>3. \E row : rows' = [rows EXCEPT ![req[r].row] = row]
      BY DEF Accept, Decline, Write
    <2> QED
      BY <1>2, <2>2, <2>3
  <1>6. CASE Remove(r)
    BY <1>2, <1>6 DEF Remove, Write
  <1>7. \/ FindAgain(r) \/ RollBack(r)
        \/ \E op \in {"send", "remove"}, w \in Pair : FindPair(r, op, w)
        \/ \E w \in Pair, k \in Ids, op \in {"accept", "decline"} : FindRequest(r, w, k, op)
        => UNCHANGED rows
    BY ReadersMoveOn
  <1> QED
    BY <1>1, <1>3, <1>4, <1>5, <1>6, <1>7 DEF Proceed

\* An accepted friendship ends by its removal only (setPendingStatus,
\* SendRequest, Remove).
THEOREM RemovalOnlyEnds == Spec => OnlyRemovalEnds
  <1>1. FriendInv /\ [Next]_vars =>
          [\A i \in Ids : rows[i].status = "accepted" /\ rows'[i] # rows[i] =>
             rows'[i] = Removed /\ \E r \in Requests : At(r, "remove") /\ req[r].row = i]_vars
    BY AcceptedIsHeld
  <1> QED
    BY <1>1, FriendsCorrect, PTL DEF Spec, OnlyRemovalEnds

=============================================================================
