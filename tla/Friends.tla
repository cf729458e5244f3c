--------------------------------- MODULE Friends ---------------------------------
(***************************************************************************)
(* The friendships of one pair of wallets.  Requests of both run at the    *)
(* same time as transactions under READ COMMITTED: find the pair's row and *)
(* lock it, then write and commit.  The row found is the best of a snapshot*)
(* (an active one before a declined one) and is read again once its lock is*)
(* granted.  A partial unique index admits one active row of the pair; a   *)
(* transaction that finds no row holds no lock, and only the index stands  *)
(* between it and another.                                                 *)
(***************************************************************************)
EXTENDS Naturals, FiniteSets

CONSTANTS
  Pair,     \* the two wallets
  Requests, \* HTTP requests that can be in progress at one time
  None,
  MaxRows   \* bound: rows ever inserted

ASSUME FriendAssumption ==
  IsFiniteSet(Pair) /\ Cardinality(Pair) = 2 /\ None \notin Pair /\ MaxRows \in Nat

VARIABLES
  rows, \* friendships of the pair, by order of insertion
  req   \* the requests in progress

vars == << rows, req >>

Ids == 1 .. MaxRows
Other(w) == CHOOSE x \in Pair : x # w

\* `agreed` is history: the wallets that asked or accepted since the row last
\* became pending.
Row == [from : Pair, status : {"pending", "accepted", "declined"}, agreed : SUBSET Pair]
NoRow == [from |-> None, status |-> "none", agreed |-> {}]

\* NoRow before an id is used; a deleted row is "removed".
Removed == [from |-> None, status |-> "removed", agreed |-> {}]

Present == { i \in Ids : rows[i].status \notin {"none", "removed"} }
Active == { i \in Ids : rows[i].status \in {"pending", "accepted"} }
NextId == Cardinality({ i \in Ids : rows[i] # NoRow }) + 1

Idle == [at |-> "idle"]

\* "find" waits for the lock on `row`; `rest` are the other rows of its snapshot.
Request ==
  {Idle}
    \cup [at : {"find"}, op : {"send", "remove"}, actor : Pair, row : Ids, rest : SUBSET Ids]
    \cup [at : {"insert"}, actor : Pair]
    \cup [at : {"reopen", "accept", "decline", "remove"}, actor : Pair, row : Ids]

FriendTypeOK ==
  /\ rows \in [Ids -> Row \cup {NoRow, Removed}]
  /\ req \in [Requests -> Request]

Init ==
  /\ rows = [i \in Ids |-> NoRow]
  /\ req = [r \in Requests |-> Idle]

At(r, pc) == req[r].at = pc
Goto(r, next) == req' = [req EXCEPT ![r] = next]
Answer(r) == Goto(r, Idle)
Write(i, row) == rows' = [rows EXCEPT ![i] = row]

\* The row locks taken by FOR UPDATE.
Locked(i) == \E r \in Requests : req[r].at \in {"reopen", "accept", "decline", "remove"} /\ req[r].row = i

-----------------------------------------------------------------------------
\* Mutant of Found: only a pending row is a conflict, not an accepted one.
FoundNotPending(r, op, actor, i) ==
  CASE op = "send" /\ rows[i].status # "pending" -> Goto(r, [at |-> "reopen", actor |-> actor, row |-> i])
    [] op = "remove" /\ rows[i].status = "accepted" -> Goto(r, [at |-> "remove", actor |-> actor, row |-> i])
    [] OTHER -> Answer(r)

\* What SendRequest and Remove do with the locked row, as it is now.
Found(r, op, actor, i) ==
  CASE op = "send" /\ rows[i].status = "declined" -> Goto(r, [at |-> "reopen", actor |-> actor, row |-> i])
    [] op = "remove" /\ rows[i].status = "accepted" -> Goto(r, [at |-> "remove", actor |-> actor, row |-> i])
    [] OTHER -> Answer(r)

NotFound(r, op, actor) ==
  IF op = "send" THEN Goto(r, [at |-> "insert", actor |-> actor]) ELSE Answer(r)

\* Lock one of the rows `from`, wait for its lock, or go on without a row.
LockRow(r, op, actor, i, rest) ==
  IF Locked(i) THEN Goto(r, [at |-> "find", op |-> op, actor |-> actor, row |-> i, rest |-> rest])
               ELSE Found(r, op, actor, i)

\* The bound on rows: an id is left for every request that may insert.
IdsLeft == NextId + Cardinality({ r \in Requests : At(r, "insert") \/ At(r, "find") }) \in Ids

\* findPair: an active row first.  Several declined rows are ordered by a time in
\* seconds, which may be the same.
FindPair(r, op, actor) ==
  /\ At(r, "idle")
  /\ op = "send" => IdsLeft
  /\ \/ Present = {} /\ NotFound(r, op, actor)
     \/ \E i \in Present :
          /\ Active # {} => i \in Active
          /\ LockRow(r, op, actor, i, Present \ {i})
  /\ UNCHANGED rows

\* Mutant of FindAgain: a row deleted meanwhile is waited for.
FindAgainPresent(r) ==
  /\ At(r, "find") /\ ~Locked(req[r].row)
  /\ req[r].row \in Present /\ Found(r, req[r].op, req[r].actor, req[r].row)
  /\ UNCHANGED rows

\* The holder has committed.  A row deleted meanwhile is passed over.
FindAgain(r) ==
  /\ At(r, "find") /\ ~Locked(req[r].row)
  /\ LET op == req[r].op
         actor == req[r].actor
         left == req[r].rest \cap Present
     IN  \/ req[r].row \in Present /\ Found(r, op, actor, req[r].row)
         \/ req[r].row \notin Present /\ left = {} /\ NotFound(r, op, actor)
         \/ req[r].row \notin Present /\ \E i \in left : LockRow(r, op, actor, i, left \ {i})
  /\ UNCHANGED rows

Asked(w) == [from |-> w, status |-> "pending", agreed |-> {w}]

\* Mutant of InsertRequest: without the unique index.
InsertUnindexed(r) ==
  /\ At(r, "insert")
  /\ Write(NextId, Asked(req[r].actor))
  /\ Answer(r)

\* SendRequest without a row: the index refuses a second active one.
InsertRequest(r) ==
  /\ At(r, "insert")
  /\ \/ Active # {} /\ UNCHANGED rows
     \/ Active = {} /\ Write(NextId, Asked(req[r].actor))
  /\ Answer(r)

\* SendRequest with a declined row: the same row becomes a request of this side.
Reopen(r) ==
  /\ At(r, "reopen")
  /\ \/ Active \ {req[r].row} # {} /\ UNCHANGED rows
     \/ Active \ {req[r].row} = {} /\ Write(req[r].row, Asked(req[r].actor))
  /\ Answer(r)

\* setPendingStatus: the row by its id, pending and addressed to the actor.
FindRequest(r, actor, i, op) ==
  /\ At(r, "idle") /\ ~Locked(i)
  /\ rows[i].status = "pending" /\ rows[i].from = Other(actor)
  /\ Goto(r, [at |-> op, actor |-> actor, row |-> i])
  /\ UNCHANGED rows

Accept(r) ==
  /\ At(r, "accept")
  /\ Write(req[r].row, [rows[req[r].row] EXCEPT !.status = "accepted", !.agreed = @ \cup {req[r].actor}])
  /\ Answer(r)

Decline(r) ==
  /\ At(r, "decline")
  /\ Write(req[r].row, [rows[req[r].row] EXCEPT !.status = "declined"])
  /\ Answer(r)

Remove(r) ==
  /\ At(r, "remove")
  /\ Write(req[r].row, Removed)
  /\ Answer(r)

\* A statement fails or the client's connection is gone: the transaction rolls back.
RollBack(r) == ~At(r, "idle") /\ Answer(r) /\ UNCHANGED rows

\* The steps of a request that has begun.
Proceed(r) ==
  FindAgain(r) \/ InsertRequest(r) \/ Reopen(r) \/ Accept(r) \/ Decline(r) \/ Remove(r)

Next ==
  \E r \in Requests :
    \/ \E op \in {"send", "remove"}, w \in Pair : FindPair(r, op, w)
    \/ \E w \in Pair, i \in Ids, op \in {"accept", "decline"} : FindRequest(r, w, i, op)
    \/ Proceed(r)
    \/ RollBack(r)

\* A goroutine goes on when Postgres answers, and Postgres grants a row lock to
\* its waiters in turn, so that others cannot overtake one for ever.
Fairness == \A r \in Requests : WF_vars(Proceed(r)) /\ SF_vars(FindAgain(r))

Spec == Init /\ [][Next]_vars /\ Fairness

-----------------------------------------------------------------------------
\* Friends are wallets of which one asked and the other accepted that very
\* request, though either side may decline, ask anew in the other direction or
\* remove in between (setPendingStatus, SendRequest on a declined row).
AcceptedByBoth == \A i \in Present : rows[i].status = "accepted" => rows[i].agreed = Pair

\* The pair has one active edge, whichever side asks first (friendships_pair_active;
\* "One active edge per address pair"), and nobody is a friend without having
\* agreed to it.
OneMutualEdge == Cardinality(Active) <= 1 /\ AcceptedByBoth

\* An accepted friendship is left by its removal only; neither a late decline
\* nor a late request of the other side takes it back (setPendingStatus,
\* SendRequest).
OnlyRemovalEnds ==
  [][\A i \in Ids : rows[i].status = "accepted" /\ rows'[i] # rows[i] =>
       rows'[i] = Removed /\ \E r \in Requests : At(r, "remove") /\ req[r].row = i]_vars

\* No request waits for another for ever (findPair, FOR UPDATE).
RequestsEnd == \A r \in Requests : ~At(r, "idle") ~> At(r, "idle")

=============================================================================
