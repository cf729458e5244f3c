------------------------------- MODULE InboxProofs -------------------------------
(***************************************************************************)
(* Theorems about Inbox and InboxDelivery, for every set of letters,       *)
(* mailboxes and posts, and every cap.                                     *)
(***************************************************************************)
EXTENDS InboxDelivery, FiniteSetTheorems, WellFoundedInduction, TLAPS

-----------------------------------------------------------------------------
(***************************************************************************)
(* The inductive invariant of the server.                                  *)
(***************************************************************************)
Known == { i \in Ids : stored[i] # None }
Busy == { q \in Posts : ~At(q, "idle") }
Holds(p) == post[p].at \in {"look", "count", "insert", "lookup"}

\* Ids are given out in order, and every post in progress may still have one.
IdsInOrder == \E n \in 0 .. MaxIds : \A i \in Ids : stored[i] # None <=> i <= n
RoomForPosts == IsFiniteSet(Busy) /\ NextId + Cardinality(Busy) <= MaxIds + 1

\* The mutex of a mailbox, and what the post that holds it has counted.
OneHolds ==
  \A p, q \in Posts : Holds(p) /\ Holds(q) /\ Recipient[Letter(p)] = Recipient[Letter(q)] => p = q
CountedHolds == \A p \in Posts : At(p, "insert") => ~Full(Recipient[Letter(p)], Sender[Letter(p)])

\* The message still stored is the last one of its sender and nonce.
LastIsPresent == \A i \in present, j \in Known : SameKey(stored[i], stored[j]) => j <= i
AnswersAreStored == \A l \in Letters : \A i \in answers[l] : stored[i] # None /\ SameKey(stored[i], l)

InboxInv ==
  /\ InboxTypeOK /\ IdsInOrder /\ RoomForPosts
  /\ OneHolds /\ CountedHolds /\ MailboxBounds
  /\ LastIsPresent /\ AnswersAreStored

(***************************************************************************)
(* The inductive invariant of the device.                                  *)
(***************************************************************************)
\* The device knows ids of messages only, and deletes what it has.
DeviceKnows ==
  /\ \A j \in Ids : items[j] # "none" => j \in Known
  /\ pay # Idle => items[pay.item] # "none"
  /\ import # Idle => import.todo \subseteq Known
  /\ import.at = "next" => import.todo # {}
  /\ import.at \in {"put", "delete", "remind"} => import.id \in Known
  /\ import.at = "remind" => import.item \in ItemsFor(import.id) /\ import.status # "none"
  /\ import.at = "delete" => ItemsFor(import.id) # {}

DeliveryInv == InboxInv /\ DeliveryTypeOK /\ DeviceKnows /\ NoMessageLost

-----------------------------------------------------------------------------
(***************************************************************************)
(* Counting.                                                               *)
(***************************************************************************)
\* A part of the ids has no more of them than the whole.
LEMMA FewerIds ==
  ASSUME NEW T \in SUBSET Ids, NEW S \in SUBSET T
  PROVE  /\ IsFiniteSet(S) /\ IsFiniteSet(T)
         /\ Cardinality(S) \in Nat /\ Cardinality(T) \in Nat
         /\ Cardinality(S) <= Cardinality(T)
  <1>1. MaxIds \in Int /\ 1 \in Int
    BY InboxAssumption
  <1>2. IsFiniteSet(Ids)
    BY <1>1, FS_Interval DEF Ids
  <1>3. IsFiniteSet(T)
    BY <1>2, FS_Subset
  <1>4. IsFiniteSet(S) /\ Cardinality(S) <= Cardinality(T)
    BY <1>3, FS_Subset
  <1> QED
    BY <1>3, <1>4, FS_CardinalityType

\* One more id is one more at most.
LEMMA OneMoreId ==
  ASSUME NEW T \in SUBSET Ids, NEW i \in Ids
  PROVE  /\ Cardinality(T) \in Nat
         /\ Cardinality(T \cup {i}) \in Nat
         /\ Cardinality(T \cup {i}) <= Cardinality(T) + 1
  <1>1. IsFiniteSet(T) /\ Cardinality(T) \in Nat
    BY FewerIds
  <1>2. Cardinality(T \cup {i}) = IF i \in T THEN Cardinality(T) ELSE Cardinality(T) + 1
    BY <1>1, FS_AddElement
  <1> QED
    BY <1>1, <1>2

\* The next id, and that it is free as long as a post is in progress.
LEMMA NextIdIs ==
  ASSUME InboxInv
  PROVE  /\ NextId \in Nat
         /\ \A i \in Ids : stored[i] # None <=> i < NextId
         /\ Busy # {} => NextId \in Ids /\ stored[NextId] = None /\ NextId \notin present
  <1>1. PICK n \in 0 .. MaxIds : \A i \in Ids : stored[i] # None <=> i <= n
    BY DEF InboxInv, IdsInOrder
  <1>2. MaxIds \in Nat
    BY InboxAssumption
  <1>3. Known = 1 .. n
    BY <1>1, <1>2 DEF Known, Ids
  <1>4. Cardinality(1 .. n) = IF 1 > n THEN 0 ELSE n - 1 + 1
    BY <1>1, <1>2, FS_Interval
  <1>5. NextId = n + 1
    <2>1. NextId = Cardinality(Known) + 1
      BY DEF NextId, Known
    <2>2. Cardinality(Known) = n
      BY <1>1, <1>2, <1>3, <1>4
    <2> QED
      BY <2>1, <2>2
  <1>6. Busy # {} => Cardinality(Busy) \in Nat /\ Cardinality(Busy) # 0
    BY FS_CardinalityType, FS_EmptySet DEF InboxInv, RoomForPosts
  <1>7. Busy # {} => n + 1 <= MaxIds
    <2> DEFINE k == Cardinality(Busy)
    <2>1. n + 1 + k <= MaxIds + 1
      BY <1>5 DEF InboxInv, RoomForPosts
    <2>2. Busy # {} => k \in Nat /\ k # 0
      BY <1>6
    <2> HIDE DEF k
    <2> QED
      BY <1>1, <1>2, <2>1, <2>2
  <1>8. \A i \in present : i \in Ids /\ stored[i] # None
    BY DEF InboxInv, InboxTypeOK
  <1> QED
    BY <1>1, <1>2, <1>5, <1>7, <1>8 DEF Ids

-----------------------------------------------------------------------------
(***************************************************************************)
(* Steps by what they change: a post moves, a message goes, a message      *)
(* comes.                                                                  *)
(***************************************************************************)
\* Posts, where one has moved.
Moves(p) ==
  /\ post' \in [Posts -> Post]
  /\ \A q \in Posts : q # p => post'[q] = post[q]

\* The record a post goes on with.
LEMMA GoesOn ==
  ASSUME InboxTypeOK, NEW p \in Posts
  PROVE  /\ \A next \in Post : post' = [post EXCEPT ![p] = next] => Moves(p) /\ post'[p] = next
         /\ Idle \in Post /\ Idle.at = "idle"
         /\ \A pc \in {"lock", "look", "count", "insert", "lookup"}, l \in Letters :
              [at |-> pc, letter |-> l] \in Post
         /\ ~At(p, "idle") => Letter(p) \in Letters
  <1>1. post[p] \in Post
    BY DEF InboxTypeOK
  <1>2. ~At(p, "idle") => Letter(p) \in Letters
    BY <1>1 DEF Post, Idle, At, Letter
  <1> QED
    BY <1>2 DEF InboxTypeOK, Moves, Post, Idle

\* A post that goes on keeps its letter.
LEMMA GotoMoves ==
  ASSUME InboxTypeOK, NEW p \in Posts, ~At(p, "idle"),
         NEW pc \in {"lock", "look", "count", "insert", "lookup"}, Goto(p, pc)
  PROVE  Moves(p) /\ post'[p].at = pc /\ post'[p].letter = Letter(p)
  <1>1. PICK next : next = [at |-> pc, letter |-> Letter(p)]
    OBVIOUS
  <1>2. next \in Post
    BY <1>1, GoesOn
  <1>3. post' = [post EXCEPT ![p] = next]
    BY <1>1 DEF Goto, Letter
  <1>4. Moves(p) /\ post'[p] = next
    BY <1>2, <1>3, GoesOn
  <1> QED
    BY <1>1, <1>4

\* A post that is answered is over.
LEMMA IdleMoves ==
  ASSUME InboxTypeOK, NEW p \in Posts, post' = [post EXCEPT ![p] = Idle]
  PROVE  Moves(p) /\ post'[p].at = "idle"
  BY GoesOn

\* Fewer posts in progress leave as much room.
LEMMA RoomStays ==
  ASSUME InboxInv, UNCHANGED stored, Busy' \subseteq Busy
  PROVE  RoomForPosts'
  <1>1. IsFiniteSet(Busy) /\ NextId + Cardinality(Busy) <= MaxIds + 1
    BY DEF InboxInv, RoomForPosts
  <1>2. IsFiniteSet(Busy') /\ Cardinality(Busy') <= Cardinality(Busy)
    BY <1>1, FS_Subset
  <1>3. Cardinality(Busy) \in Nat /\ Cardinality(Busy') \in Nat
    BY <1>1, <1>2, FS_CardinalityType
  <1>4. NextId' = NextId /\ NextId \in Nat
    BY NextIdIs DEF NextId, Ids
  <1>5. NextId' + Cardinality(Busy') <= MaxIds + 1
    BY <1>1, <1>2, <1>3, <1>4, InboxAssumption
  <1> QED
    BY <1>2, <1>5 DEF RoomForPosts

\* Messages that go leave every mailbox with no more.
LEMMA FewerIn ==
  ASSUME InboxTypeOK, UNCHANGED stored, present' \subseteq present, NEW m, NEW s
  PROVE  /\ Cardinality(In(m)) \in Nat /\ Cardinality(In(m))' \in Nat
         /\ Cardinality(In(m))' <= Cardinality(In(m))
         /\ Cardinality(InFrom(m, s)) \in Nat /\ Cardinality(InFrom(m, s))' \in Nat
         /\ Cardinality(InFrom(m, s))' <= Cardinality(InFrom(m, s))
         /\ ~Full(m, s) => ~Full(m, s)'
  <1>1. In(m) \subseteq Ids /\ In(m)' \subseteq In(m)
    BY DEF In, InboxTypeOK
  <1>2. InFrom(m, s) \subseteq Ids /\ InFrom(m, s)' \subseteq InFrom(m, s)
    BY <1>1 DEF InFrom
  <1>3. /\ Cardinality(In(m)) \in Nat /\ Cardinality(In(m)') \in Nat
        /\ Cardinality(In(m)') <= Cardinality(In(m))
    BY <1>1, FewerIds
  <1>4. /\ Cardinality(InFrom(m, s)) \in Nat /\ Cardinality(InFrom(m, s)') \in Nat
        /\ Cardinality(InFrom(m, s)') <= Cardinality(InFrom(m, s))
    BY <1>2, FewerIds
  <1>5. ~Full(m, s) => ~Full(m, s)'
    BY <1>3, <1>4, InboxAssumption DEF Full
  <1> QED
    BY <1>3, <1>4, <1>5

\* A post moves and at most messages go.
LEMMA PostStep ==
  ASSUME InboxInv, NEW p \in Posts, Moves(p), InboxTypeOK',
         UNCHANGED stored, present' \subseteq present,
         Busy' \subseteq Busy \/ RoomForPosts',
         Holds(p)' => \/ Holds(p) /\ post'[p].letter = Letter(p)
                      \/ ~Locked(Recipient[post'[p].letter]),
         At(p, "insert")' => ~Full(Recipient[post'[p].letter], Sender[post'[p].letter]),
         AnswersAreStored'
  PROVE  InboxInv'
  <1>1. InboxTypeOK
    BY DEF InboxInv
  <1>2. IdsInOrder'
    BY DEF InboxInv, IdsInOrder, Ids
  <1>3. RoomForPosts'
    BY RoomStays
  <1>4. \A q \in Posts : q # p => post'[q] = post[q]
    BY DEF Moves
  <1>5. OneHolds'
    <2> SUFFICES ASSUME NEW q \in Posts, NEW r \in Posts, Holds(q)', Holds(r)', q # r,
                        Recipient[post'[q].letter] = Recipient[post'[r].letter]
                 PROVE  FALSE
      BY DEF OneHolds, Letter
    <2>1. \A u, v \in Posts :
            u # v /\ Holds(u) /\ Holds(v) => Recipient[post[u].letter] # Recipient[post[v].letter]
      BY DEF InboxInv, OneHolds, Letter
    <2>2. \A u \in Posts : u # p /\ Holds(u)' => Holds(u) /\ post'[u].letter = post[u].letter
      BY <1>4 DEF Holds
    <2>3. \A u \in Posts : u # p /\ Holds(u)' /\ Holds(p)' =>
            Recipient[post'[u].letter] # Recipient[post'[p].letter]
      BY <2>1, <2>2 DEF Locked, Holds, Letter
    <2>4. CASE q = p
      BY <2>3, <2>4
    <2>5. CASE r = p
      BY <2>3, <2>5
    <2>6. CASE q # p /\ r # p
      BY <2>1, <2>2, <2>6
    <2> QED
      BY <2>4, <2>5, <2>6
  <1>6. CountedHolds'
    <2> SUFFICES ASSUME NEW q \in Posts, At(q, "insert")', NEW m, NEW s,
                        m = Recipient[post'[q].letter], s = Sender[post'[q].letter]
                 PROVE  ~Full(m, s)'
      BY DEF CountedHolds, Letter, Full, In, InFrom
    <2>1. ~Full(m, s)
      BY <1>4 DEF InboxInv, CountedHolds, Letter, At
    <2> QED
      BY <1>1, <2>1, FewerIn
  <1>7. MailboxBounds'
    <2>1. ASSUME NEW m \in Mailboxes, NEW l \in Letters
          PROVE  Cardinality(In(m))' <= MaxMailbox /\ Cardinality(InFrom(m, Sender[l]))' <= MaxPerSender
      BY <1>1, FewerIn, InboxAssumption DEF InboxInv, MailboxBounds
    <2>2. ASSUME NEW m \in Mailboxes
          PROVE  Cardinality(In(m))' <= MaxMailbox
      BY <1>1, FewerIn, InboxAssumption DEF InboxInv, MailboxBounds
    <2> QED
      BY <2>1, <2>2 DEF MailboxBounds
  <1>8. LastIsPresent'
    BY DEF InboxInv, LastIsPresent, Known, Ids
  <1> QED
    BY <1>2, <1>3, <1>5, <1>6, <1>7, <1>8 DEF InboxInv

\* A message comes: the post that holds its mailbox inserts it.
LEMMA InsertStep ==
  ASSUME InboxInv, NEW p \in Posts, At(p, "insert"), Found(Letter(p)) = {},
         stored' = [stored EXCEPT ![NextId] = Letter(p)], present' = present \cup {NextId},
         post' = [post EXCEPT ![p] = Idle],
         answers' = [answers EXCEPT ![Letter(p)] = @ \cup {NextId}] \/ UNCHANGED answers,
         UNCHANGED << old, stale >>, crashes' \in 0 .. MaxCrashes
  PROVE  InboxInv'
  <1>1. InboxTypeOK
    BY DEF InboxInv
  <1>2. Moves(p) /\ post'[p].at = "idle"
    BY <1>1, IdleMoves
  <1>3. PICK l \in Letters : l = Letter(p)
    BY <1>1, GoesOn DEF At
  <1>4. p \in Busy /\ Holds(p)
    BY DEF Busy, At, Holds
  <1>5. PICK n : n = NextId
    OBVIOUS
  <1>6. /\ n \in Ids /\ n \in Nat /\ stored[n] = None /\ n \notin present
        /\ \A i \in Ids : stored[i] # None <=> i < n
    BY <1>4, <1>5, NextIdIs
  <1>7. \A i \in Ids : stored'[i] = IF i = n THEN l ELSE stored[i]
    BY <1>1, <1>3, <1>5 DEF InboxTypeOK
  <1>8. l # None /\ present' = present \cup {n} /\ present \subseteq Known
    BY <1>1, <1>5, InboxAssumption DEF InboxTypeOK, Known
  <1>9. Known' = Known \cup {n} /\ n \notin Known
    BY <1>6, <1>7, <1>8 DEF Known, Ids
  <1>10. \A k \in Letters : \A i \in answers'[k] : i \in answers[k] \/ (i = n /\ k = l)
    BY <1>1, <1>3, <1>5 DEF InboxTypeOK
  <1>11. InboxTypeOK'
    <2>1. stored' \in [Ids -> Letters \cup {None}]
      BY <1>1, <1>3 DEF InboxTypeOK
    <2>2. answers' \in [Letters -> SUBSET Ids]
      BY <1>1, <1>3, <1>5, <1>6 DEF InboxTypeOK
    <2>3. present' \subseteq Known'
      BY <1>8, <1>9
    <2> QED
      BY <1>1, <1>2, <1>8, <2>1, <2>2, <2>3 DEF InboxTypeOK, Known, Moves, Ids
  <1>12. IdsInOrder'
    <2>1. n \in 0 .. MaxIds
      BY <1>6, InboxAssumption DEF Ids
    <2>2. \A i \in Ids : stored'[i] # None <=> i <= n
      BY <1>6, <1>7, <1>8 DEF Ids
    <2> QED
      BY <2>1, <2>2 DEF IdsInOrder, Ids
  <1>13. RoomForPosts'
    <2>1. IsFiniteSet(Busy) /\ NextId + Cardinality(Busy) <= MaxIds + 1
      BY DEF InboxInv, RoomForPosts
    <2>2. Busy' = Busy \ {p}
      BY <1>2 DEF Busy, At, Moves
    <2>3. /\ IsFiniteSet(Busy \ {p})
          /\ Cardinality(Busy \ {p}) = IF p \in Busy THEN Cardinality(Busy) - 1 ELSE Cardinality(Busy)
      BY <2>1, FS_RemoveElement
    <2>4. IsFiniteSet(Busy') /\ Cardinality(Busy') = Cardinality(Busy) - 1 /\ Cardinality(Busy) \in Nat
      BY <1>4, <2>1, <2>2, <2>3, FS_CardinalityType
    <2>5. NextId' = NextId + 1
      <3>1. Known \subseteq Ids
        BY DEF Known
      <3>2. IsFiniteSet(Known) /\ Cardinality(Known) \in Nat
        BY <3>1, FewerIds
      <3>3. Cardinality(Known \cup {n}) = IF n \in Known THEN Cardinality(Known) ELSE Cardinality(Known) + 1
        BY <3>2, FS_AddElement
      <3>4. Cardinality(Known') = Cardinality(Known) + 1
        BY <1>9, <3>3
      <3>5. NextId = Cardinality(Known) + 1 /\ NextId' = Cardinality(Known') + 1
        BY DEF NextId, Known
      <3> QED
        BY <3>2, <3>4, <3>5
    <2>6. NextId' + Cardinality(Busy') <= MaxIds + 1
      BY <1>5, <1>6, <2>1, <2>4, <2>5, InboxAssumption
    <2> QED
      BY <2>4, <2>6 DEF RoomForPosts
  <1>14. \A q \in Posts : (q # p => post'[q] = post[q]) /\ (Holds(q)' => q # p)
    BY <1>2 DEF Moves, Holds
  <1>15. OneHolds'
    BY <1>14 DEF InboxInv, OneHolds, Holds, Letter
  <1>16. \A m : In(m)' = IF m = Recipient[l] THEN In(m) \cup {n} ELSE In(m)
    BY <1>6, <1>7, <1>8 DEF In, Known
  <1>17. \A m, s : InFrom(m, s)' =
           IF m = Recipient[l] /\ s = Sender[l] THEN InFrom(m, s) \cup {n} ELSE InFrom(m, s)
    <2> SUFFICES ASSUME NEW m, NEW s
                 PROVE  InFrom(m, s)' =
                          IF m = Recipient[l] /\ s = Sender[l] THEN InFrom(m, s) \cup {n} ELSE InFrom(m, s)
      OBVIOUS
    <2>1. In(m)' = IF m = Recipient[l] THEN In(m) \cup {n} ELSE In(m)
      BY <1>16
    <2>2. In(m) \subseteq Known /\ n \notin In(m)
      BY <1>6, <1>8 DEF In
    <2>3. \A i \in In(m) : stored'[i] = stored[i]
      BY <1>7, <2>2 DEF Known
    <2>4. stored'[n] = l
      BY <1>6, <1>7
    <2> QED
      BY <2>1, <2>2, <2>3, <2>4 DEF InFrom
  <1>18. ~Full(Recipient[l], Sender[l])
    BY <1>3 DEF InboxInv, CountedHolds
  <1>19. \A m, s : In(m) \subseteq Ids /\ InFrom(m, s) \subseteq Ids
    BY <1>1 DEF InboxTypeOK, In, InFrom
  <1>20. MailboxBounds'
    <2>1. ASSUME NEW m \in Mailboxes
          PROVE  Cardinality(In(m)') <= MaxMailbox
      <3>1. Cardinality(In(m)) <= MaxMailbox
        BY DEF InboxInv, MailboxBounds
      <3>2. /\ Cardinality(In(m)) \in Nat /\ Cardinality(In(m) \cup {n}) \in Nat
            /\ Cardinality(In(m) \cup {n}) <= Cardinality(In(m)) + 1
        BY <1>6, <1>19, OneMoreId
      <3>3. m = Recipient[l] => Cardinality(In(m)) < MaxMailbox
        BY <1>18, <3>2, InboxAssumption DEF Full
      <3> QED
        BY <1>16, <3>1, <3>2, <3>3, InboxAssumption
    <2>2. ASSUME NEW m \in Mailboxes, NEW k \in Letters
          PROVE  Cardinality(InFrom(m, Sender[k])') <= MaxPerSender
      <3>1. PICK s : s = Sender[k]
        OBVIOUS
      <3>2. Cardinality(InFrom(m, s)) <= MaxPerSender
        BY <3>1 DEF InboxInv, MailboxBounds
      <3>3. /\ Cardinality(InFrom(m, s)) \in Nat /\ Cardinality(InFrom(m, s) \cup {n}) \in Nat
            /\ Cardinality(InFrom(m, s) \cup {n}) <= Cardinality(InFrom(m, s)) + 1
        BY <1>6, <1>19, OneMoreId
      <3>4. m = Recipient[l] /\ s = Sender[l] => Cardinality(InFrom(m, s)) < MaxPerSender
        BY <1>18, <3>3, InboxAssumption DEF Full
      <3>5. Cardinality(InFrom(m, s)') <= MaxPerSender
        BY <1>17, <3>2, <3>3, <3>4, InboxAssumption
      <3> QED
        BY <3>1, <3>5
    <2> QED
      BY <2>1, <2>2 DEF MailboxBounds
  <1>21. CountedHolds'
    <2> SUFFICES ASSUME NEW q \in Posts, At(q, "insert")', NEW m, NEW s,
                        m = Recipient[post'[q].letter], s = Sender[post'[q].letter]
                 PROVE  ~Full(m, s)'
      BY DEF CountedHolds, Letter, Full, In, InFrom
    <2>1. q # p /\ At(q, "insert") /\ Holds(q) /\ post'[q] = post[q]
      BY <1>14 DEF At, Holds
    <2>2. ~Full(m, s)
      BY <2>1 DEF InboxInv, CountedHolds, Letter
    <2>3. m # Recipient[l]
      BY <1>3, <1>4, <2>1 DEF InboxInv, OneHolds, Letter
    <2>4. In(m)' = In(m) /\ InFrom(m, s)' = InFrom(m, s)
      BY <1>16, <1>17, <2>3
    <2> QED
      BY <2>2, <2>4 DEF Full
  <1>22. LastIsPresent'
    <2> SUFFICES ASSUME NEW i \in present', NEW j \in Known', SameKey(stored'[i], stored'[j])
                 PROVE  j <= i
      BY DEF LastIsPresent, SameKey
    <2>1. i \in Ids /\ j \in Ids
      BY <1>6, <1>8 DEF Known
    <2>2. CASE i = n
      BY <1>6, <1>9, <2>1, <2>2 DEF Known, Ids
    <2>3. CASE i # n /\ j # n
      BY <1>7, <1>8, <1>9, <2>1, <2>3 DEF InboxInv, LastIsPresent
    <2>4. CASE i # n /\ j = n
      <3>1. i \in present /\ SameKey(stored[i], l)
        BY <1>7, <1>8, <2>1, <2>4
      <3> QED
        BY <1>3, <3>1 DEF Found
    <2> QED
      BY <2>2, <2>3, <2>4
  <1>23. AnswersAreStored'
    <2> SUFFICES ASSUME NEW k \in Letters, NEW i \in answers'[k]
                 PROVE  stored'[i] # None /\ SameKey(stored'[i], k)
      BY DEF AnswersAreStored, SameKey
    <2>1. CASE i \in answers[k]
      <3>1. i \in Ids /\ stored[i] # None /\ SameKey(stored[i], k)
        BY <1>1, <2>1 DEF InboxInv, AnswersAreStored, InboxTypeOK
      <3> QED
        BY <1>6, <1>7, <3>1
    <2>2. CASE i = n /\ k = l
      BY <1>6, <1>7, <1>8, <2>2 DEF SameKey
    <2> QED
      BY <1>10, <2>1, <2>2
  <1> QED
    BY <1>11, <1>12, <1>13, <1>15, <1>20, <1>21, <1>22, <1>23 DEF InboxInv

\* Posts are answered or given up, and messages go.
LEMMA EndStep ==
  ASSUME InboxInv, InboxTypeOK', UNCHANGED stored, present' \subseteq present,
         \A q \in Posts : post'[q] = post[q] \/ post'[q].at = "idle",
         AnswersAreStored'
  PROVE  InboxInv'
  <1>1. InboxTypeOK
    BY DEF InboxInv
  <1>2. IdsInOrder'
    BY DEF InboxInv, IdsInOrder, Ids
  <1>3. RoomForPosts'
    <2>1. Busy' \subseteq Busy
      BY DEF Busy, At
    <2> QED
      BY <2>1, RoomStays
  <1>4. OneHolds'
    BY DEF InboxInv, OneHolds, Holds, Letter
  <1>5. CountedHolds'
    <2> SUFFICES ASSUME NEW q \in Posts, At(q, "insert")', NEW m, NEW s,
                        m = Recipient[post'[q].letter], s = Sender[post'[q].letter]
                 PROVE  ~Full(m, s)'
      BY DEF CountedHolds, Letter, Full, In, InFrom
    <2>1. ~Full(m, s)
      BY DEF InboxInv, CountedHolds, Letter, At
    <2> QED
      BY <1>1, <2>1, FewerIn
  <1>6. MailboxBounds'
    <2>1. ASSUME NEW m \in Mailboxes, NEW l \in Letters
          PROVE  Cardinality(InFrom(m, Sender[l]))' <= MaxPerSender
      BY <1>1, FewerIn, InboxAssumption DEF InboxInv, MailboxBounds
    <2>2. ASSUME NEW m \in Mailboxes
          PROVE  Cardinality(In(m))' <= MaxMailbox
      BY <1>1, FewerIn, InboxAssumption DEF InboxInv, MailboxBounds
    <2> QED
      BY <2>1, <2>2 DEF MailboxBounds
  <1>7. LastIsPresent'
    BY DEF InboxInv, LastIsPresent, Known, Ids
  <1> QED
    BY <1>2, <1>3, <1>4, <1>5, <1>6, <1>7 DEF InboxInv

\* The answers stay right while the letters stored do.
LEMMA AnswersStay ==
  ASSUME InboxInv, UNCHANGED << stored, answers >>
  PROVE  AnswersAreStored'
  BY DEF InboxInv, AnswersAreStored

\* A post is refused, or a failure ends it.
LEMMA RefuseStep ==
  ASSUME InboxInv, NEW p \in Posts, Refuse(p), UNCHANGED << stored, present, old, stale >>,
         crashes' \in 0 .. MaxCrashes
  PROVE  InboxInv'
  <1>1. InboxTypeOK
    BY DEF InboxInv
  <1>2. Moves(p) /\ post'[p].at = "idle"
    BY <1>1, IdleMoves DEF Refuse
  <1>3. InboxTypeOK'
    BY <1>1, <1>2 DEF InboxTypeOK, Moves, Refuse, Ids
  <1>4. AnswersAreStored'
    BY AnswersStay DEF Refuse
  <1> QED
    BY <1>2, <1>3, <1>4, EndStep DEF Moves

\* A post is answered with a message of its sender and nonce.
LEMMA FoundStep ==
  ASSUME InboxInv, NEW p \in Posts, ~At(p, "idle"), NEW i \in Found(Letter(p)), Ok(p, i),
         UNCHANGED << stored, present, old, stale, crashes >>
  PROVE  InboxInv'
  <1>1. InboxTypeOK
    BY DEF InboxInv
  <1>2. Moves(p) /\ post'[p].at = "idle"
    BY <1>1, IdleMoves DEF Ok
  <1>3. PICK l \in Letters : l = Letter(p)
    BY <1>1, GoesOn
  <1>4. i \in Ids /\ stored[i] # None /\ SameKey(stored[i], l)
    BY <1>1, <1>3 DEF Found, InboxTypeOK
  <1>5. answers' = [answers EXCEPT ![l] = @ \cup {i}]
    BY <1>3 DEF Ok
  <1>6. InboxTypeOK'
    BY <1>1, <1>2, <1>4, <1>5 DEF InboxTypeOK, Moves, Ids
  <1>7. AnswersAreStored'
    <2>1. \A k \in Letters : answers'[k] = IF k = l THEN answers[k] \cup {i} ELSE answers[k]
      BY <1>1, <1>5 DEF InboxTypeOK
    <2>2. \A k \in Letters : \A j \in answers'[k] : stored[j] # None /\ SameKey(stored[j], k)
      BY <1>4, <2>1 DEF InboxInv, AnswersAreStored
    <2> QED
      BY <2>2 DEF AnswersAreStored
  <1> QED
    BY <1>2, <1>6, <1>7, EndStep DEF Moves

\* A post that goes on.
LEMMA GotoStep ==
  ASSUME InboxInv, NEW p \in Posts, ~At(p, "idle"),
         NEW pc \in {"look", "count", "insert", "lookup"}, Goto(p, pc),
         UNCHANGED << stored, present, old, stale, answers, crashes >>,
         Holds(p) \/ ~Locked(Recipient[Letter(p)]),
         pc = "insert" => ~Full(Recipient[Letter(p)], Sender[Letter(p)])
  PROVE  InboxInv'
  <1>1. InboxTypeOK
    BY DEF InboxInv
  <1>2. Moves(p) /\ post'[p].at = pc /\ post'[p].letter = Letter(p)
    BY <1>1, GotoMoves
  <1>3. InboxTypeOK'
    BY <1>1, <1>2 DEF InboxTypeOK, Moves, Ids
  <1>4. Busy' \subseteq Busy
    BY <1>2 DEF Busy, At, Moves
  <1>5. AnswersAreStored'
    BY AnswersStay
  <1> QED
    BY <1>2, <1>3, <1>4, <1>5, PostStep DEF At

LEMMA ArriveStep ==
  ASSUME InboxInv, NEW p \in Posts, NEW l \in Letters, Arrive(p, l)
  PROVE  InboxInv'
  <1>1. InboxTypeOK
    BY DEF InboxInv
  <1>2. PICK next : next = [at |-> "lock", letter |-> l]
    OBVIOUS
  <1>3. next \in Post /\ next.at = "lock"
    BY <1>1, <1>2, GoesOn
  <1>4. Moves(p) /\ post'[p] = next
    BY <1>1, <1>2, <1>3, GoesOn DEF Arrive
  <1>5. InboxTypeOK'
    BY <1>1, <1>4 DEF InboxTypeOK, Moves, Arrive, Ids
  <1>6. AnswersAreStored'
    BY AnswersStay DEF Arrive
  <1>7. RoomForPosts'
    <2>1. IsFiniteSet(Busy) /\ NextId + Cardinality(Busy) \in Ids
      BY DEF InboxInv, RoomForPosts, Arrive, Busy
    <2>2. Busy' = Busy \cup {p} /\ p \notin Busy
      BY <1>3, <1>4 DEF Busy, At, Moves, Arrive
    <2>3. /\ IsFiniteSet(Busy \cup {p})
          /\ Cardinality(Busy \cup {p}) = IF p \in Busy THEN Cardinality(Busy) ELSE Cardinality(Busy) + 1
      BY <2>1, FS_AddElement
    <2>4. IsFiniteSet(Busy') /\ Cardinality(Busy') = Cardinality(Busy) + 1 /\ Cardinality(Busy) \in Nat
      BY <2>1, <2>2, <2>3, FS_CardinalityType
    <2>5. NextId' = NextId /\ NextId \in Nat
      BY NextIdIs DEF NextId, Ids, Arrive
    <2>6. NextId' + Cardinality(Busy') <= MaxIds + 1
      BY <2>1, <2>4, <2>5, InboxAssumption DEF Ids
    <2> QED
      BY <2>4, <2>6 DEF RoomForPosts
  <1> QED
    BY <1>3, <1>4, <1>5, <1>6, <1>7, PostStep DEF Arrive, Holds, At

\* The steps of a post under the mutex.
LEMMA PostingStep ==
  ASSUME InboxInv, NEW p \in Posts, Posting(p)
  PROVE  InboxInv'
  <1>1. crashes \in 0 .. MaxCrashes
    BY DEF InboxInv, InboxTypeOK
  <1>2. CASE Lock(p)
    BY <1>2, GotoStep DEF Lock, At
  <1>3. CASE Look(p)
    <2>1. ~At(p, "idle") /\ Holds(p)
      BY <1>3 DEF Look, At, Holds
    <2> QED
      BY <1>3, <2>1, FoundStep, GotoStep DEF Look
  <1>4. CASE Count(p)
    <2>1. ~At(p, "idle") /\ Holds(p)
      BY <1>4 DEF Count, At, Holds
    <2>2. CASE Full(Recipient[Letter(p)], Sender[Letter(p)])
      BY <1>1, <1>4, <2>2, RefuseStep DEF Count
    <2>3. CASE ~Full(Recipient[Letter(p)], Sender[Letter(p)])
      BY <1>4, <2>1, <2>3, GotoStep DEF Count
    <2> QED
      BY <2>2, <2>3
  <1>5. CASE Insert(p)
    <2>1. ~At(p, "idle") /\ Holds(p)
      BY <1>5 DEF Insert, At, Holds
    <2>2. CASE Found(Letter(p)) = {}
      BY <1>1, <1>5, <2>2, InsertStep DEF Insert, Ok
    <2>3. CASE Found(Letter(p)) # {}
      BY <1>5, <2>1, <2>3, GotoStep DEF Insert
    <2> QED
      BY <2>2, <2>3
  <1>6. CASE Lookup(p)
    <2>1. ~At(p, "idle")
      BY <1>6 DEF Lookup, At
    <2> QED
      BY <1>1, <1>6, <2>1, FoundStep, RefuseStep DEF Lookup
  <1> QED
    BY <1>2, <1>3, <1>4, <1>5, <1>6 DEF Posting

\* Failures, lost answers, restarts and time.
LEMMA ServerStep ==
  ASSUME InboxInv, ServerNext
  PROVE  InboxInv'
  <1>1. InboxTypeOK
    BY DEF InboxInv
  <1>2. crashes < MaxCrashes /\ crashes' = crashes + 1 => crashes' \in 0 .. MaxCrashes
    BY <1>1, InboxAssumption DEF InboxTypeOK
  <1>3. ASSUME NEW p \in Posts, Fail(p)
        PROVE  InboxInv'
    BY <1>2, <1>3, RefuseStep DEF Fail
  <1>4. ASSUME NEW p \in Posts, InsertUnanswered(p)
        PROVE  InboxInv'
    BY <1>2, <1>4, InsertStep DEF InsertUnanswered, Refuse
  <1>5. CASE Restart
    <2>1. \A q \in Posts : post'[q] = Idle
      BY <1>5 DEF Restart
    <2>2. InboxTypeOK'
      <3>1. Idle \in Post
        BY DEF Post
      <3> QED
        BY <1>1, <1>2, <1>5, <3>1 DEF Restart, InboxTypeOK, Ids
    <2>3. \A q \in Posts : post'[q].at = "idle"
      BY <2>1 DEF Idle
    <2> QED
      BY <1>5, <2>2, <2>3, AnswersStay, EndStep DEF Restart
  <1>6. ASSUME NEW l \in Letters, WindowCloses(l)
        PROVE  InboxInv'
    <2>1. InboxTypeOK'
      BY <1>1, <1>6 DEF WindowCloses, InboxTypeOK, Ids
    <2> QED
      BY <1>6, <2>1, AnswersStay, EndStep DEF WindowCloses
  <1>7. ASSUME NEW i \in Ids, Ages(i)
        PROVE  InboxInv'
    <2>1. InboxTypeOK'
      BY <1>1, <1>7 DEF Ages, InboxTypeOK, Ids
    <2> QED
      BY <1>7, <2>1, AnswersStay, EndStep DEF Ages
  <1> QED
    BY <1>3, <1>4, <1>5, <1>6, <1>7, ArriveStep, PostingStep DEF ServerNext

\* The recipient's reads and deletes.
LEMMA RemoveStep ==
  ASSUME InboxInv, NEW m, List(m) \/ \E i \in Ids : Delete(m, i)
  PROVE  InboxInv'
  <1>1. InboxTypeOK
    BY DEF InboxInv
  <1>2. /\ UNCHANGED << stored, stale, post, answers, crashes >>
        /\ present' \subseteq present /\ old' \subseteq present'
    BY <1>1 DEF List, Delete, Swept, In, InboxTypeOK
  <1>3. InboxTypeOK'
    BY <1>1, <1>2 DEF InboxTypeOK, Ids
  <1> QED
    BY <1>2, <1>3, AnswersStay, EndStep

LEMMA InboxInitial ==
  ASSUME InboxInit
  PROVE  InboxInv
  <1>1. /\ \A i \in Ids : stored[i] = None
        /\ \A p \in Posts : post[p] = Idle /\ post[p].at = "idle"
        /\ present = {} /\ \A l \in Letters : answers[l] = {}
    BY DEF InboxInit, Idle
  <1>2. InboxTypeOK
    <2>1. Idle \in Post
      BY DEF Post
    <2>2. crashes \in 0 .. MaxCrashes
      BY InboxAssumption DEF InboxInit
    <2> QED
      BY <2>1, <2>2 DEF InboxInit, InboxTypeOK
  <1>3. IdsInOrder
    BY <1>1, InboxAssumption DEF IdsInOrder, Ids
  <1>4. RoomForPosts
    <2>1. Busy = {} /\ { i \in Ids : stored[i] # None } = {}
      BY <1>1 DEF Busy, At
    <2>2. Cardinality({}) = 0 /\ IsFiniteSet({})
      BY FS_EmptySet
    <2>3. NextId = 1 /\ Cardinality(Busy) = 0
      BY <2>1, <2>2 DEF NextId
    <2> QED
      BY <2>1, <2>2, <2>3, InboxAssumption DEF RoomForPosts
  <1>5. OneHolds /\ CountedHolds
    BY <1>1 DEF OneHolds, CountedHolds, Holds, At
  <1>6. MailboxBounds
    <2>1. \A m, s : In(m) = {} /\ InFrom(m, s) = {}
      BY <1>1 DEF In, InFrom
    <2>2. Cardinality({}) = 0
      BY FS_EmptySet
    <2> QED
      BY <2>1, <2>2, InboxAssumption DEF MailboxBounds
  <1>7. LastIsPresent /\ AnswersAreStored
    BY <1>1 DEF LastIsPresent, AnswersAreStored
  <1> QED
    BY <1>2, <1>3, <1>4, <1>5, <1>6, <1>7 DEF InboxInv

-----------------------------------------------------------------------------
(***************************************************************************)
(* The device.                                                             *)
(***************************************************************************)
\* A set of ids has a least one.
LEMMA FirstIs ==
  ASSUME NEW todo \in SUBSET Ids, todo # {}
  PROVE  First(todo) \in todo
  <1>1. todo \subseteq Nat
    BY InboxAssumption DEF Ids
  <1>2. PICK i \in todo : \A j \in todo : ~(<< j, i >> \in OpToRel(<, Nat))
    BY <1>1, NatLessThanWellFounded, WFMin
  <1>3. \A j \in todo : ~(j < i)
    BY <1>1, <1>2, Zenon DEF OpToRel
  <1>4. \A j \in todo : i <= j
    BY <1>1, <1>3
  <1> QED
    BY <1>4 DEF First

\* What a message is about does not change, and what the device has it keeps.
Remembers ==
  /\ \A i \in Known : i \in Known' /\ stored'[i] = stored[i]
  /\ \A j \in Ids : items[j] # "none" => items'[j] # "none"

LEMMA ItemsStay ==
  ASSUME DeviceKnows, Remembers, NEW i \in Known
  PROVE  ItemsFor(i) \subseteq ItemsFor(i)'
  <1> SUFFICES ASSUME NEW j \in ItemsFor(i)
               PROVE  j \in ItemsFor(i)'
    OBVIOUS
  <1>1. j \in Ids /\ items[j] # "none" /\ SameObject(i, j) /\ j \in Known
    BY DEF ItemsFor, DeviceKnows
  <1>2. stored'[i] = stored[i] /\ stored'[j] = stored[j] /\ items'[j] # "none"
    BY <1>1 DEF Remembers
  <1> QED
    BY <1>1, <1>2 DEF ItemsFor, SameObject, Ids

\* The same, of a message that is the device's own item.
LEMMA OwnItem ==
  ASSUME NEW i \in Ids, items[i] # "none"
  PROVE  i \in ItemsFor(i)
  BY DEF ItemsFor, SameObject

\* The server's steps: rows come, with a letter, and stay.
LEMMA ServerKeeps ==
  ASSUME InboxInv, ServerNext
  PROVE  /\ \A i \in Known : i \in Known' /\ stored'[i] = stored[i]
         /\ present \subseteq present'
         /\ \A i \in Ids : stored'[i] # None => i \in Known \/ i \in present'
  <1>1. InboxTypeOK
    BY DEF InboxInv
  <1>2. CASE UNCHANGED << stored, present >>
    BY <1>2 DEF Known, Ids
  <1>3. ASSUME NEW p \in Posts, At(p, "insert"),
               stored' = [stored EXCEPT ![NextId] = Letter(p)], present' = present \cup {NextId}
        PROVE  /\ \A i \in Known : i \in Known' /\ stored'[i] = stored[i]
               /\ present \subseteq present'
               /\ \A i \in Ids : stored'[i] # None => i \in Known \/ i \in present'
    <2>1. Busy # {}
      BY <1>3 DEF Busy, At
    <2>2. PICK n \in Ids : n = NextId /\ stored[n] = None
      BY <2>1, NextIdIs
    <2>3. \A i \in Ids : i # n => stored'[i] = stored[i]
      BY <1>1, <1>3, <2>2 DEF InboxTypeOK
    <2> QED
      BY <1>3, <2>2, <2>3 DEF Known, Ids
  <1>4. \/ UNCHANGED << stored, present >>
        \/ \E p \in Posts : /\ At(p, "insert")
                            /\ stored' = [stored EXCEPT ![NextId] = Letter(p)]
                            /\ present' = present \cup {NextId}
    BY DEF ServerNext, Arrive, Posting, Lock, Look, Count, Insert, Lookup, Fail, InsertUnanswered,
           WindowCloses, Ages, Restart
  <1> QED
    BY <1>2, <1>3, <1>4

\* What the device knows stays known while its own steps leave it alone.
LEMMA ServerDeviceStep ==
  ASSUME DeliveryInv, ServerNext, UNCHANGED deviceVars
  PROVE  DeliveryInv'
  <1>1. InboxInv' /\ InboxTypeOK'
    BY ServerStep DEF DeliveryInv, InboxInv
  <1>2. DeliveryTypeOK'
    BY <1>1 DEF DeliveryInv, DeliveryTypeOK, deviceVars, Ids, Import
  <1>3. Remembers
    BY ServerKeeps DEF DeliveryInv, Remembers, deviceVars
  <1>4. \A i \in Known : i \in Known' /\ ItemsFor(i) \subseteq ItemsFor(i)'
    BY <1>3, ItemsStay DEF DeliveryInv, Remembers
  <1>5. DeviceKnows'
    BY <1>4 DEF DeliveryInv, DeviceKnows, deviceVars, Ids
  <1>6. NoMessageLost'
    <2> SUFFICES ASSUME NEW i \in Ids, stored'[i] # None, Recipient[stored'[i]] = Me
                 PROVE  i \in present' \cup lapsed' \/ ItemsFor(i)' # {}
      BY DEF NoMessageLost, Ids
    <2>1. CASE i \in Known
      <3>1. stored'[i] = stored[i] /\ stored[i] # None
        BY <1>3, <2>1 DEF Remembers, Known
      <3> QED
        BY <1>4, <2>1, <3>1, ServerKeeps DEF DeliveryInv, NoMessageLost, deviceVars
    <2>2. CASE i \notin Known
      BY <2>2, ServerKeeps DEF DeliveryInv
    <2> QED
      BY <2>1, <2>2
  <1> QED
    BY <1>1, <1>2, <1>5, <1>6 DEF DeliveryInv

\* The server as it was.
LEMMA InboxStays ==
  ASSUME InboxInv, UNCHANGED inboxVars
  PROVE  InboxInv'
  <1>1. InboxTypeOK'
    BY DEF InboxInv, InboxTypeOK, inboxVars, Ids
  <1> QED
    BY <1>1, AnswersStay, EndStep DEF inboxVars, InboxInv, InboxTypeOK

\* A step of the device after which it still has what the server has let go.
LEMMA DeviceStep ==
  ASSUME DeliveryInv, InboxInv', UNCHANGED stored,
         import' \in Import, pay' \in {Idle} \cup [at : {"sending"}, item : Ids],
         items' \in [Ids -> Status], \A j \in Ids : items[j] # "none" => items'[j] # "none",
         lapsed \subseteq lapsed', lapsed' \subseteq Ids,
         \A i \in present : Recipient[stored[i]] = Me =>
           i \in present' \/ i \in lapsed' \/ ItemsFor(i) # {},
         DeviceKnows'
  PROVE  DeliveryInv' /\ Remembers
  <1>1. DeliveryTypeOK'
    BY DEF DeliveryTypeOK, InboxInv, Ids, Import
  <1>2. Remembers
    BY DEF Remembers, Known, Ids
  <1>3. \A i \in Known : ItemsFor(i) \subseteq ItemsFor(i)'
    BY <1>2, ItemsStay DEF DeliveryInv
  <1>4. NoMessageLost'
    BY <1>3 DEF DeliveryInv, NoMessageLost, Known, Ids
  <1> QED
    BY <1>1, <1>2, <1>4 DEF DeliveryInv

\* The stages of an import.
LEMMA ImportIs ==
  ASSUME DeliveryInv
  PROVE  /\ import # Idle => import.todo \in SUBSET Known
         /\ import.at = "next" => import # Idle /\ import.todo # {}
         /\ import.at \in {"put", "delete", "remind"} => import # Idle /\ import.id \in Known
         /\ import.at = "remind" => import.item \in Ids /\ import.status \in Status \ {"none"}
  <1>1. import \in Import
    BY DEF DeliveryInv, DeliveryTypeOK
  <1>2. import.at = "remind" => import.item \in Ids /\ import.status \in Status
    BY <1>1 DEF Import, Idle
  <1> QED
    BY <1>2 DEF DeliveryInv, DeviceKnows, Idle

\* The next message of an import.
LEMMA GoNextIs ==
  ASSUME NEW todo \in SUBSET Ids, GoNext(todo)
  PROVE  /\ import' \in Import
         /\ import'.at = IF todo = {} THEN "idle" ELSE "next"
         /\ import' # Idle => import'.todo = todo /\ todo # {}
  BY DEF GoNext, Import, Idle

LEMMA RefreshStep ==
  ASSUME DeliveryInv, Refresh
  PROVE  DeliveryInv'
  <1> DEFINE todo == Swept(Me) \cap In(Me)
  <1>1. InboxInv'
    BY RemoveStep DEF DeliveryInv, Refresh
  <1>2. present \subseteq Known /\ Known \subseteq Ids
    BY DEF DeliveryInv, InboxInv, InboxTypeOK, Known
  <1>3. todo \in SUBSET Ids /\ todo \subseteq Known
    BY <1>2 DEF In
  <1>4. GoNext(todo) /\ UNCHANGED << stored, items, pay >>
    BY DEF Refresh, List
  <1> HIDE DEF todo
  <1>5. /\ import' \in Import
        /\ import'.at = IF todo = {} THEN "idle" ELSE "next"
        /\ import' # Idle => import'.todo = todo /\ todo # {}
    BY <1>3, <1>4, GoNextIs
  <1>6. lapsed' = lapsed \cup (In(Me) \ Swept(Me)) /\ present' = Swept(Me)
    BY DEF Refresh, List
  <1>7. /\ lapsed \subseteq lapsed' /\ lapsed' \subseteq Ids
        /\ \A i \in present : Recipient[stored[i]] = Me => i \in present' \/ i \in lapsed'
    BY <1>2, <1>6 DEF In, DeliveryInv, DeliveryTypeOK
  <1>8. DeviceKnows'
    <2>1. Known' = Known
      BY <1>4 DEF Known, Ids
    <2>2. import'.at \notin {"put", "delete", "remind"}
      BY <1>5
    <2>3. pay' # Idle => items'[pay'.item] # "none"
      BY <1>4 DEF DeliveryInv, DeviceKnows
    <2>4. \A j \in Ids : items'[j] # "none" => j \in Known
      BY <1>4 DEF DeliveryInv, DeviceKnows
    <2>5. import'.at = "next" => import' # Idle
      BY DEF Idle
    <2> QED
      BY <1>3, <1>5, <2>1, <2>2, <2>3, <2>4, <2>5 DEF DeviceKnows, Ids, Idle
  <1> QED
    BY <1>1, <1>4, <1>5, <1>7, <1>8, DeviceStep DEF DeliveryInv, DeliveryTypeOK

LEMMA TakeStep ==
  ASSUME DeliveryInv, Take
  PROVE  DeliveryInv'
  <1>1. InboxInv' /\ UNCHANGED << stored, present, items, pay, lapsed >>
    BY InboxStays DEF DeliveryInv, Take, inboxVars
  <1>2. import.todo \in SUBSET Known /\ import.todo # {} /\ Known \subseteq Ids
    BY ImportIs DEF Take, Known
  <1>3. PICK i \in import.todo : i = First(import.todo)
    BY <1>2, FirstIs
  <1>4. PICK rest \in SUBSET Known : rest = import.todo \ {i}
    BY <1>2
  <1>5. CASE items[i] # "none" /\ import' = [at |-> "delete", todo |-> rest, id |-> i]
    <2>1. import' \in Import /\ import'.todo = rest /\ import'.at = "delete" /\ import'.id = i
      BY <1>2, <1>4, <1>5 DEF Import
    <2>2. i \in ItemsFor(i)
      BY <1>2, <1>5, OwnItem
    <2>3. DeviceKnows'
      BY <1>1, <1>2, <1>4, <2>1, <2>2 DEF DeliveryInv, DeviceKnows, Known, ItemsFor, SameObject, Ids
    <2> QED
      BY <1>1, <2>1, <2>3, DeviceStep DEF DeliveryInv, DeliveryTypeOK
  <1>6. CASE import' = [at |-> "put", todo |-> rest, id |-> i]
    <2>1. import' \in Import /\ import'.todo = rest /\ import'.at = "put" /\ import'.id = i
      BY <1>2, <1>4, <1>6 DEF Import
    <2>2. DeviceKnows'
      BY <1>1, <1>2, <1>4, <2>1 DEF DeliveryInv, DeviceKnows, Known, Ids
    <2> QED
      BY <1>1, <2>1, <2>2, DeviceStep DEF DeliveryInv, DeliveryTypeOK
  <1>7. ASSUME NEW j \in ItemsFor(i),
               import' = [at |-> "remind", todo |-> rest, id |-> i, item |-> j, status |-> items[j]]
        PROVE  DeliveryInv'
    <2>1. j \in Ids /\ items[j] \in Status \ {"none"}
      BY DEF ItemsFor, DeliveryInv, DeliveryTypeOK
    <2>2. /\ import' \in Import /\ import'.todo = rest /\ import'.at = "remind" /\ import'.id = i
          /\ import'.item = j /\ import'.status = items[j]
      BY <1>2, <1>4, <1>7, <2>1 DEF Import
    <2>3. DeviceKnows'
      BY <1>1, <1>2, <1>4, <1>7, <2>1, <2>2 DEF DeliveryInv, DeviceKnows, Known, ItemsFor, SameObject, Ids
    <2> QED
      BY <1>1, <2>2, <2>3, DeviceStep DEF DeliveryInv, DeliveryTypeOK
  <1> QED
    BY <1>3, <1>4, <1>5, <1>6, <1>7 DEF Take

\* An item is stored, and then the message may go.
LEMMA PutStep ==
  ASSUME DeliveryInv, import.at \in {"put", "remind"},
         NEW j \in ItemsFor(import.id) \cup {import.id}, NEW s \in Status \ {"none"},
         items' = [items EXCEPT ![j] = s], ToDelete, UNCHANGED << inboxVars, pay, lapsed >>
  PROVE  DeliveryInv'
  <1>1. PICK i \in Known : i = import.id
    BY ImportIs
  <1>2. PICK todo \in SUBSET Known : todo = import.todo
    BY ImportIs
  <1>3. import' = [at |-> "delete", todo |-> todo, id |-> i]
    BY <1>1, <1>2 DEF ToDelete
  <1>4. Known \subseteq Ids /\ j \in Known
    BY <1>1 DEF Known, ItemsFor, DeliveryInv, DeviceKnows
  <1>5. import' \in Import /\ import'.todo = todo /\ import'.at = "delete" /\ import'.id = i
    BY <1>3, <1>4 DEF Import
  <1>6. InboxInv' /\ UNCHANGED << stored, present, pay, lapsed >>
    BY InboxStays DEF DeliveryInv, inboxVars
  <1>7. \A k \in Ids : items'[k] = IF k = j THEN s ELSE items[k]
    BY <1>4 DEF DeliveryInv, DeliveryTypeOK
  <1>8. items' \in [Ids -> Status] /\ \A k \in Ids : items[k] # "none" => items'[k] # "none"
    BY <1>4, <1>7 DEF DeliveryInv, DeliveryTypeOK
  <1>9. j \in ItemsFor(i)'
    BY <1>1, <1>4, <1>6, <1>7 DEF ItemsFor, SameObject, Ids
  <1>10. DeviceKnows'
    <2>1. Known' = Known
      BY <1>6 DEF Known, Ids
    <2>2. \A k \in Ids : items'[k] # "none" => k \in Known
      BY <1>4, <1>7 DEF DeliveryInv, DeviceKnows
    <2>3. pay' # Idle => items'[pay'.item] # "none"
      <3>1. pay # Idle => pay.item \in Ids /\ items[pay.item] # "none"
        BY DEF DeliveryInv, DeliveryTypeOK, DeviceKnows
      <3> QED
        BY <1>6, <1>8, <3>1
    <2> QED
      BY <1>1, <1>2, <1>5, <1>9, <2>1, <2>2, <2>3 DEF DeviceKnows, Ids, Idle
  <1> QED
    BY <1>5, <1>6, <1>8, <1>10, DeviceStep DEF DeliveryInv, DeliveryTypeOK

LEMMA PutReminderStep ==
  ASSUME DeliveryInv, PutReminder
  PROVE  DeliveryInv'
  <1>1. import.item \in ItemsFor(import.id)
    BY DEF DeliveryInv, DeviceKnows, PutReminder
  <1>2. (IF import.status = "dismissed" THEN "actionable" ELSE import.status) \in Status \ {"none"}
    BY ImportIs DEF PutReminder, Status
  <1> QED
    BY <1>1, <1>2, PutStep DEF PutReminder

LEMMA PutNewStep ==
  ASSUME DeliveryInv, PutNew
  PROVE  DeliveryInv'
  <1>1. "actionable" \in Status \ {"none"}
    BY DEF Status
  <1> QED
    BY <1>1, PutStep DEF PutNew

\* Only what the device has is deleted.
LEMMA DeleteRemoteStep ==
  ASSUME DeliveryInv, DeleteRemote
  PROVE  DeliveryInv'
  <1>1. PICK i \in Known : i = import.id /\ ItemsFor(i) # {}
    BY ImportIs DEF DeleteRemote, DeliveryInv, DeviceKnows
  <1>2. PICK todo \in SUBSET Known : todo = import.todo
    BY ImportIs DEF DeleteRemote
  <1>3. Known \subseteq Ids
    BY DEF Known
  <1>4. InboxInv'
    BY <1>1, <1>3, RemoveStep, InboxStays DEF DeliveryInv, DeleteRemote
  <1>5. UNCHANGED << stored, items, pay, lapsed >> /\ (present' = present \/ present' = present \ {i})
    BY <1>1 DEF DeleteRemote, Delete, inboxVars
  <1>6. /\ import' \in Import
        /\ import'.at = IF todo = {} THEN "idle" ELSE "next"
        /\ import' # Idle => import'.todo = todo /\ todo # {}
    BY <1>2, <1>3, GoNextIs DEF DeleteRemote
  <1>7. DeviceKnows'
    BY <1>2, <1>5, <1>6 DEF DeliveryInv, DeviceKnows, Known, Ids, Idle
  <1> QED
    BY <1>1, <1>4, <1>5, <1>6, <1>7, DeviceStep DEF DeliveryInv, DeliveryTypeOK

\* The user acts on an item, or closes the app.
LEMMA UserStep ==
  ASSUME DeliveryInv,
         (\E i \in Ids : Pay(i) \/ Dismiss(i)) \/ Paid \/ PayFails \/ CloseApp
  PROVE  DeliveryInv'
  <1>1. InboxInv' /\ UNCHANGED << stored, present, lapsed >>
    BY InboxStays DEF DeliveryInv, inboxVars, Pay, Dismiss, Paid, PayFails, CloseApp
  <1>2. Known' = Known
    BY <1>1 DEF Known, Ids
  <1>3. pay # Idle => pay.item \in Ids /\ items[pay.item] # "none"
    BY DEF DeliveryInv, DeliveryTypeOK, DeviceKnows
  <1>4. import' \in Import /\ (import' = Idle \/ UNCHANGED import)
    BY DEF DeliveryInv, DeliveryTypeOK, Pay, Dismiss, Paid, PayFails, CloseApp, Import
  <1>5. pay' \in {Idle} \cup [at : {"sending"}, item : Ids]
    BY DEF DeliveryInv, DeliveryTypeOK, Pay, Dismiss, Paid, PayFails, CloseApp
  <1>6. /\ items' \in [Ids -> Status]
        /\ \A j \in Ids : items'[j] # "none" <=> items[j] # "none"
    <2>1. pay.at = "sending" => pay.item \in Ids /\ items[pay.item] # "none"
      BY <1>3 DEF Idle
    <2> QED
      BY <2>1 DEF DeliveryInv, DeliveryTypeOK, Pay, Dismiss, Paid, PayFails, CloseApp, Status
  <1>7. pay' # Idle => items'[pay'.item] # "none"
    <2>1. CASE \E i \in Ids : Pay(i)
      BY <1>6, <2>1 DEF Pay
    <2>2. CASE ~\E i \in Ids : Pay(i)
      <3>1. pay' = Idle \/ pay' = pay
        BY <2>2 DEF Dismiss, Paid, PayFails, CloseApp
      <3> QED
        BY <1>3, <1>6, <3>1
    <2> QED
      BY <2>1, <2>2
  <1>8. \A i : ItemsFor(i)' = ItemsFor(i)
    BY <1>1, <1>6 DEF ItemsFor, SameObject, Ids
  <1>9. DeviceKnows'
    BY <1>2, <1>4, <1>6, <1>7, <1>8 DEF DeliveryInv, DeviceKnows, Ids, Idle
  <1> QED
    BY <1>1, <1>4, <1>5, <1>6, <1>9, DeviceStep DEF DeliveryInv, DeliveryTypeOK

LEMMA DeliveryInitial == DeliveryInit => DeliveryInv
  <1> SUFFICES ASSUME DeliveryInit
               PROVE  DeliveryInv
    OBVIOUS
  <1>1. InboxInv /\ InboxTypeOK
    BY InboxInitial DEF DeliveryInit, InboxInv
  <1>2. DeliveryTypeOK
    BY <1>1 DEF DeliveryInit, DeliveryTypeOK, Import, Status
  <1>3. DeviceKnows
    BY DEF DeliveryInit, DeviceKnows, Idle
  <1>4. NoMessageLost
    BY DEF DeliveryInit, InboxInit, NoMessageLost
  <1> QED
    BY <1>1, <1>2, <1>3, <1>4 DEF DeliveryInv

LEMMA DeliveryStep == DeliveryInv /\ [Next]_vars => DeliveryInv'
  <1> SUFFICES ASSUME DeliveryInv, [Next]_vars
               PROVE  DeliveryInv'
    OBVIOUS
  <1>1. CASE UNCHANGED vars
    <2>1. InboxInv' /\ UNCHANGED << stored, present, items, import, pay, lapsed >>
      BY <1>1, InboxStays DEF vars, inboxVars, deviceVars, DeliveryInv
    <2>2. DeviceKnows'
      BY <2>1 DEF DeliveryInv, DeviceKnows, Known, ItemsFor, SameObject, Ids
    <2> QED
      BY <2>1, <2>2, DeviceStep DEF DeliveryInv, DeliveryTypeOK
  <1> QED
    BY <1>1, ServerDeviceStep, RefreshStep, TakeStep, PutReminderStep, PutNewStep, DeleteRemoteStep, UserStep
       DEF Next, Device

-----------------------------------------------------------------------------
(***************************************************************************)
(* What follows.                                                           *)
(***************************************************************************)
\* The inductive invariant holds.
THEOREM DeliveryCorrect == Spec => []DeliveryInv
  BY DeliveryInitial, DeliveryStep, PTL DEF Spec

\* Messages, posts and the device's items are of their types.
THEOREM DeliveryTypes == Spec => []DeliveryTypeOK
  <1>1. DeliveryInv => DeliveryTypeOK
    BY DEF DeliveryInv
  <1> QED
    BY <1>1, DeliveryCorrect, PTL

\* No mailbox is over its caps, whoever posts at the same time (put counts and
\* inserts under the mutex of the mailbox).
THEOREM BoundsKept == Spec => []MailboxBounds
  <1>1. DeliveryInv => MailboxBounds
    BY DEF DeliveryInv, InboxInv
  <1> QED
    BY <1>1, DeliveryCorrect, PTL

\* Posts of one sender and nonce are answered with its message, and never with two
\* of which the older is still stored (findBySenderNonce before and after the insert).
THEOREM RepeatsAgree == Spec => []SendsAgree
  <1>1. ASSUME DeliveryInv
        PROVE  SendsAgree
    <2>1. \A k \in Letters : \A i \in answers[k] : i \in Ids /\ stored[i] # None /\ SameKey(stored[i], k)
      BY <1>1 DEF DeliveryInv, InboxInv, InboxTypeOK, AnswersAreStored
    <2> SUFFICES ASSUME NEW l \in Letters,
                        NEW i \in UNION { answers[k] : k \in { k \in Letters : SameKey(k, l) } },
                        NEW j \in UNION { answers[k] : k \in { k \in Letters : SameKey(k, l) } },
                        i < j, i \in present
                 PROVE  FALSE
      BY <2>1 DEF SendsAgree
    <2>2. \A x \in UNION { answers[k] : k \in { k \in Letters : SameKey(k, l) } } :
            x \in Known /\ SameKey(stored[x], l)
      BY <2>1 DEF Known, SameKey
    <2>3. SameKey(stored[i], stored[j]) /\ j \in Known
      BY <2>2 DEF SameKey
    <2>4. j <= i
      BY <1>1, <2>3 DEF DeliveryInv, InboxInv, LastIsPresent
    <2> QED
      BY <2>2, <2>4, InboxAssumption DEF Known, Ids
  <1> QED
    BY <1>1, DeliveryCorrect, PTL

\* A message accepted for the device's wallet is in the mailbox, on the device, or
\* older than the retention (importEnvelopes stores before it deletes).
THEOREM NothingLost == Spec => []NoMessageLost
  <1>1. DeliveryInv => NoMessageLost
    BY DEF DeliveryInv
  <1> QED
    BY <1>1, DeliveryCorrect, PTL

=============================================================================
