------------------------------ MODULE HandleProofs ------------------------------
(***************************************************************************)
(* Theorems about HandleRegistry and HandleSync, for every history, every  *)
(* set of handles, wallets and swap contracts and every bound.             *)
(***************************************************************************)
EXTENDS HandleSync, FiniteSetTheorems, WellFoundedInduction, TLAPS

-----------------------------------------------------------------------------
(***************************************************************************)
(* Rebuild, prefix by prefix.                                              *)
(***************************************************************************)
\* A set of numbers that is not empty has a least one.
LEMMA LeastNumber ==
  ASSUME NEW S \in SUBSET Nat, S # {}
  PROVE  \E n \in S : \A m \in S : n <= m
  <1>1. PICK n \in S : \A m \in S : ~(<< m, n >> \in OpToRel(<, Nat))
    BY NatLessThanWellFounded, WFMin
  <1>2. \A m \in S : ~(m < n)
    BY <1>1, Zenon DEF OpToRel
  <1> QED
    BY <1>2

\* A set with 0 that is left by no step up goes as far as one likes.
LEMMA CountUp ==
  ASSUME NEW N \in Nat, NEW S, 0 \in S, \A n \in 0 .. N - 1 : n \in S => n + 1 \in S
  PROVE  \A n \in 0 .. N : n \in S
  <1> DEFINE Missing == { n \in 0 .. N : n \notin S }
  <1>1. SUFFICES ASSUME Missing # {}
                 PROVE  FALSE
    OBVIOUS
  <1>2. PICK n \in Missing : \A m \in Missing : n <= m
    <2>1. Missing \in SUBSET Nat
      OBVIOUS
    <2> HIDE DEF Missing
    <2> QED
      BY <1>1, <2>1, LeastNumber
  <1>3. n \in 0 .. N /\ n \notin S /\ n # 0
    BY <1>2
  <1>4. n - 1 \in 0 .. N - 1 /\ ~(n <= n - 1)
    BY <1>3
  <1>5. n - 1 \in S
    BY <1>2, <1>4
  <1>6. (n - 1) + 1 \in S
    BY <1>4, <1>5
  <1>7. (n - 1) + 1 = n
    BY <1>3
  <1> QED
    BY <1>3, <1>6, <1>7

\* `after` holds the registry after every prefix of `order`.
Replayed(order, creators0, found, after) ==
  after = [n \in 0 .. Len(order) |->
             IF n = 0 THEN [owners |-> Unclaimed, creators |-> creators0]
                      ELSE Apply(after[n - 1], order[n], found)]

\* The recursion in Rebuild defines a function.
LEMMA PrefixesExist ==
  ASSUME NEW order \in Seq(Tx), NEW creators0, NEW found
  PROVE  \E after : Replayed(order, creators0, found, after)
  <1> DEFINE Step(f, i) == IF i = 0 THEN [owners |-> Unclaimed, creators |-> creators0]
                           ELSE Apply(f[i - 1], order[i], found)
             Upto(n, f) == f = [i \in 0 .. n |-> Step(f, i)]
             Known == { n \in Nat : \E f : Upto(n, f) }
  <1>1. Len(order) \in Nat
    OBVIOUS
  <1>2. 0 \in Known
    <2>1. Upto(0, [i \in 0 .. 0 |-> [owners |-> Unclaimed, creators |-> creators0]])
      OBVIOUS
    <2> QED
      BY <2>1
  <1>3. ASSUME NEW n \in Nat, n \in Known
        PROVE  n + 1 \in Known
    <2>1. PICK f : Upto(n, f)
      BY <1>3
    <2> DEFINE g == [i \in 0 .. n + 1 |-> IF i = n + 1 THEN Step(f, n + 1) ELSE f[i]]
    <2>2. \A i \in 0 .. n : f[i] = Step(f, i) /\ g[i] = f[i]
      BY <2>1
    <2>3. g[n + 1] = Step(f, n + 1)
      OBVIOUS
    <2>4. g = [i \in 0 .. n + 1 |-> g[i]]
      OBVIOUS
    <2> HIDE DEF g
    <2>5. \A i \in 0 .. n + 1 : g[i] = Step(g, i)
      <3> TAKE i \in 0 .. n + 1
      <3>1. i = 0 \/ (i - 1 \in 0 .. n /\ g[i - 1] = f[i - 1])
        BY <2>2
      <3>2. Step(g, i) = Step(f, i)
        BY <3>1
      <3> QED
        BY <2>2, <2>3, <3>2
    <2>6. Upto(n + 1, g)
      BY <2>4, <2>5
    <2> HIDE DEF Upto
    <2> QED
      BY <2>6
  <1> HIDE DEF Known
  <1>4. \A n \in 0 .. Len(order) - 1 : n \in Known => n + 1 \in Known
    BY <1>1, <1>3
  <1>5. \A n \in 0 .. Len(order) : n \in Known
    BY <1>1, <1>2, <1>4, CountUp
  <1>6. Len(order) \in Known
    BY <1>1, <1>5
  <1> QED
    BY <1>6 DEF Known, Replayed

\* Rebuild is the state after the last prefix.
LEMMA RebuildIsLast ==
  ASSUME NEW order \in Seq(Tx), NEW creators0, NEW found
  PROVE  \E after : /\ Replayed(order, creators0, found, after)
                    /\ Rebuild(order, creators0, found) = after[Len(order)]
  <1>1. PICK after : Replayed(order, creators0, found, after)
    BY PrefixesExist
  <1> QED
    BY <1>1 DEF Replayed, Rebuild

-----------------------------------------------------------------------------
(***************************************************************************)
(* A history in chain order, replayed with the creators it needs.          *)
(***************************************************************************)
Ordered(order) == \A i, j \in 1 .. Len(order) : i < j => Before(order[i], order[j])

\* Every contract's creator is in the cache or found.
Attributable(order, creators0, found) ==
  \A i \in 1 .. Len(order) : order[i].sender \in Contracts \ creators0 => order[i] \in found

\* The registry maps every handle to a claim, and the cache keeps contracts, after
\* every prefix.
LEMMA PrefixTypes ==
  ASSUME NEW order \in Seq(Tx), NEW creators0 \in SUBSET Contracts, NEW found, NEW after,
         Replayed(order, creators0, found, after)
  PROVE  \A n \in 0 .. Len(order) :
           /\ after[n].owners \in [Handles -> HandleClaim]
           /\ after[n].creators \subseteq Contracts /\ creators0 \subseteq after[n].creators
  <1> DEFINE Good == { n \in 0 .. Len(order) :
                         /\ after[n].owners \in [Handles -> HandleClaim]
                         /\ after[n].creators \subseteq Contracts /\ creators0 \subseteq after[n].creators }
  <1>1. Len(order) \in Nat /\ \A n \in 1 .. Len(order) : order[n] \in Tx
    OBVIOUS
  <1>2. after[0] = [owners |-> Unclaimed, creators |-> creators0]
    BY <1>1 DEF Replayed
  <1>3. 0 \in Good
    BY <1>1, <1>2 DEF Unclaimed, HandleClaim
  <1>4. ASSUME NEW n \in 0 .. Len(order) - 1, n \in Good
        PROVE  n + 1 \in Good
    <2>1. n + 1 \in 1 .. Len(order) /\ after[n + 1] = Apply(after[n], order[n + 1], found)
      BY <1>1 DEF Replayed
    <2> DEFINE tx == order[n + 1]
               signer == SignerOf(after[n], tx, found)
    <2>2. tx \in Tx
      BY <1>1, <2>1
    <2>3. signer \in Users \cup Contracts
      BY <1>4, <2>2, CreatorAssumption DEF SignerOf, Resolved, Tx
    <2>4. ApplyRelease(after[n].owners, tx, signer) \in [Handles -> HandleClaim]
      BY <1>4, <2>2 DEF ApplyRelease, HandleClaim
    <2>5. ApplyClaim(after[n].owners, tx, signer) \in [Handles -> HandleClaim]
      <3>1. [owner |-> signer, block |-> tx.block, index |-> tx.index] \in HandleClaim
        BY <2>2, <2>3 DEF Tx, HandleClaim
      <3> QED
        BY <1>4, <2>2, <3>1 DEF ApplyClaim, Tx
    <2>6. after[n + 1].owners \in [Handles -> HandleClaim]
      BY <2>1, <2>4, <2>5 DEF Apply
    <2>7. after[n + 1].creators \subseteq Contracts /\ creators0 \subseteq after[n + 1].creators
      BY <1>4, <2>1, <2>2 DEF Apply, Resolved, Tx
    <2> QED
      BY <2>1, <2>6, <2>7
  <1> HIDE DEF Good
  <1>5. \A n \in 0 .. Len(order) : n \in Good
    BY <1>1, <1>3, <1>4, CountUp
  <1> QED
    BY <1>5 DEF Good

\* What one transaction does, said with the wallet behind it.
LEMMA PrefixStep ==
  ASSUME NEW order \in Seq(Tx), NEW creators0 \in SUBSET Contracts, NEW found, NEW after,
         Replayed(order, creators0, found, after), Attributable(order, creators0, found),
         NEW n \in 1 .. Len(order)
  PROVE  after[n].owners =
           IF order[n].release THEN ApplyRelease(after[n - 1].owners, order[n], Wallet(order[n]))
                               ELSE ApplyClaim(after[n - 1].owners, order[n], Wallet(order[n]))
  <1>1. order[n] \in Tx /\ n - 1 \in 0 .. Len(order) /\ n # 0
    OBVIOUS
  <1>2. after[n] = Apply(after[n - 1], order[n], found)
    BY <1>1 DEF Replayed
  <1>3. after[n - 1].creators \subseteq Contracts /\ creators0 \subseteq after[n - 1].creators
    <2>1. \A m \in 0 .. Len(order) : after[m].creators \subseteq Contracts /\ creators0 \subseteq after[m].creators
      BY PrefixTypes
    <2> QED
      BY <1>1, <2>1
  <1>4. SignerOf(after[n - 1], order[n], found) = Wallet(order[n])
    BY <1>1, <1>3 DEF SignerOf, Resolved, Wallet, Attributable
  <1> QED
    BY <1>2, <1>4 DEF Apply

-----------------------------------------------------------------------------
(***************************************************************************)
(* Rebuild follows the claim rules.                                        *)
(***************************************************************************)
ClaimOf(tx) == [owner |-> Wallet(tx), block |-> tx.block, index |-> tx.index]

\* The claims that found their handle free, and those of the first n that their
\* wallets have given up since.
Accepted(order, after) ==
  { k \in 1 .. Len(order) : ~order[k].release /\ after[k - 1].owners[order[k].handle] = NoClaim }

GivenUp(order, k, n) == \E j \in 1 .. n : k < j /\ GivesUp(order[j], order[k])

\* After n transactions a handle is held by its one accepted claim that is not given
\* up, if it has one.
Tallied(order, after, n) ==
  \A h \in Handles :
    /\ \A k \in Accepted(order, after) :
         k <= n /\ order[k].handle = h =>
           GivenUp(order, k, n) \/ after[n].owners[h] = ClaimOf(order[k])
    /\ after[n].owners[h] # NoClaim =>
         \E k \in Accepted(order, after) :
           /\ k <= n /\ order[k].handle = h
           /\ after[n].owners[h] = ClaimOf(order[k]) /\ ~GivenUp(order, k, n)

LEMMA WalletIs ==
  ASSUME NEW tx \in Tx
  PROVE  Wallet(tx) \in Users \cup Contracts /\ Wallet(tx) # "none"
  BY CreatorAssumption, NoneAssumption DEF Wallet, Tx

LEMMA ClaimIs ==
  ASSUME NEW tx \in Tx
  PROVE  ClaimOf(tx) # NoClaim /\ ClaimOf(tx).owner = Wallet(tx)
  <1>1. ClaimOf(tx).owner = Wallet(tx) /\ NoClaim.owner = "none"
    BY DEF ClaimOf, NoClaim
  <1> QED
    BY <1>1, WalletIs

\* No two transactions of an ordered history are at one place.
LEMMA PlacesDiffer ==
  ASSUME NEW order \in Seq(Tx), Ordered(order), NEW i \in 1 .. Len(order), NEW j \in 1 .. Len(order)
  PROVE  /\ Before(order[i], order[j]) <=> i < j
         /\ ClaimOf(order[i]) = ClaimOf(order[j]) => i = j
  <1>1. order[i] \in Tx /\ order[j] \in Tx /\ i \in Int /\ j \in Int
    OBVIOUS
  <1>2. i < j => Before(order[i], order[j])
    BY DEF Ordered
  <1>3. j < i => Before(order[j], order[i])
    BY DEF Ordered
  <1>4. /\ ~(Before(order[i], order[j]) /\ Before(order[j], order[i]))
        /\ ~Before(order[i], order[i])
        /\ order[i].block = order[j].block /\ order[i].index = order[j].index =>
             ~Before(order[i], order[j]) /\ ~Before(order[j], order[i])
    BY <1>1 DEF Before, Tx
  <1>5. ClaimOf(order[i]) = ClaimOf(order[j]) =>
          order[i].block = order[j].block /\ order[i].index = order[j].index
    BY DEF ClaimOf
  <1> QED
    BY <1>1, <1>2, <1>3, <1>4, <1>5

\* One more transaction, of a claim that was accepted before it.
LEMMA GivenUpNext ==
  ASSUME NEW order, NEW k \in Nat, NEW n \in Nat, k <= n
  PROVE  GivenUp(order, k, n + 1) <=> GivenUp(order, k, n) \/ GivesUp(order[n + 1], order[k])
  BY DEF GivenUp

LEMMA TallyStep ==
  ASSUME NEW order \in Seq(Tx), NEW creators0 \in SUBSET Contracts, NEW found, NEW after,
         Replayed(order, creators0, found, after), Attributable(order, creators0, found),
         Ordered(order), NEW n \in 0 .. Len(order) - 1, Tallied(order, after, n)
  PROVE  Tallied(order, after, n + 1)
  <1> DEFINE A == Accepted(order, after)
             tx == order[n + 1]
             before == after[n].owners
             now == after[n + 1].owners
  <1>1. /\ n \in Nat /\ n + 1 \in 1 .. Len(order) /\ (n + 1) - 1 = n /\ n \in 0 .. Len(order)
        /\ tx \in Tx
    OBVIOUS
  <1>2. now = IF tx.release THEN ApplyRelease(before, tx, Wallet(tx)) ELSE ApplyClaim(before, tx, Wallet(tx))
    <2>1. \A m \in 1 .. Len(order) :
            after[m].owners = IF order[m].release
                              THEN ApplyRelease(after[m - 1].owners, order[m], Wallet(order[m]))
                              ELSE ApplyClaim(after[m - 1].owners, order[m], Wallet(order[m]))
      BY PrefixStep
    <2> QED
      BY <1>1, <2>1
  <1>3. before \in [Handles -> HandleClaim]
    <2>1. \A m \in 0 .. Len(order) : after[m].owners \in [Handles -> HandleClaim]
      BY PrefixTypes
    <2> QED
      BY <1>1, <2>1
  <1>4. \A k \in A : k \in 1 .. Len(order) /\ order[k] \in Tx
    BY DEF Accepted
  <1>5. n + 1 \in A <=> ~tx.release /\ before[tx.handle] = NoClaim
    BY <1>1 DEF Accepted
  <1>6. \A k \in A : k <= n => (GivenUp(order, k, n + 1) <=> GivenUp(order, k, n) \/ GivesUp(tx, order[k]))
    <2>1. \A k \in A : k \in Nat
      BY <1>1, <1>4
    <2> HIDE DEF A
    <2> QED
      BY <1>1, <2>1, GivenUpNext
  <1>7. \A k \in A : k <= n + 1 => k <= n \/ k = n + 1
    BY <1>1, <1>4
  <1>8. \A k \in A : k <= n => k <= n + 1
    BY <1>1, <1>4
  <1>9. ~GivenUp(order, n + 1, n + 1)
    BY <1>1 DEF GivenUp
  <1>10. \A k \in A : k <= n => Before(order[k], tx)
    BY <1>1, <1>4 DEF Ordered
  <1> HIDE DEF A, tx, before, now
  <1> SUFFICES ASSUME NEW h \in Handles
               PROVE  /\ \A k \in A : k <= n + 1 /\ order[k].handle = h =>
                           GivenUp(order, k, n + 1) \/ now[h] = ClaimOf(order[k])
                      /\ now[h] # NoClaim =>
                           \E k \in A : /\ k <= n + 1 /\ order[k].handle = h
                                        /\ now[h] = ClaimOf(order[k]) /\ ~GivenUp(order, k, n + 1)
    BY DEF Tallied, A, now
  <1>11. /\ \A k \in A : k <= n /\ order[k].handle = h => GivenUp(order, k, n) \/ before[h] = ClaimOf(order[k])
         /\ before[h] # NoClaim =>
              \E k \in A : /\ k <= n /\ order[k].handle = h
                           /\ before[h] = ClaimOf(order[k]) /\ ~GivenUp(order, k, n)
    BY DEF Tallied, A, before
  \* The transaction leaves the handle as it is and gives nothing up that was held.
  <1>12. ASSUME now[h] = before[h],
                \A k \in A : order[k].handle = h => k # n + 1,
                \A k \in A : order[k].handle = h /\ before[h] = ClaimOf(order[k]) => ~GivesUp(tx, order[k])
         PROVE  /\ \A k \in A : k <= n + 1 /\ order[k].handle = h =>
                     GivenUp(order, k, n + 1) \/ now[h] = ClaimOf(order[k])
                /\ now[h] # NoClaim =>
                     \E k \in A : /\ k <= n + 1 /\ order[k].handle = h
                                  /\ now[h] = ClaimOf(order[k]) /\ ~GivenUp(order, k, n + 1)
    BY <1>6, <1>7, <1>8, <1>11, <1>12
  <1>13. CASE tx.handle # h
    <2>1. now[h] = before[h]
      BY <1>1, <1>2, <1>3, <1>13 DEF ApplyRelease, ApplyClaim
    <2>2. \A k \in A : order[k].handle = h => k # n + 1 /\ ~GivesUp(tx, order[k])
      BY <1>13 DEF GivesUp, tx
    <2> QED
      BY <1>12, <2>1, <2>2
  <1>14. CASE tx.handle = h /\ ~tx.release /\ before[h] = NoClaim
    <2>1. now[h] = ClaimOf(tx)
      BY <1>1, <1>2, <1>3, <1>14 DEF ApplyClaim, ClaimOf
    <2>2. \A k \in A : k <= n /\ order[k].handle = h => GivenUp(order, k, n + 1)
      BY <1>4, <1>6, <1>11, <1>14, ClaimIs
    <2>3. n + 1 \in A
      BY <1>5, <1>14
    <2> QED
      BY <1>7, <1>9, <1>14, <2>1, <2>2, <2>3, <1>1 DEF tx
  <1>15. CASE tx.handle = h /\ ~tx.release /\ before[h] # NoClaim
    <2>1. now[h] = before[h]
      BY <1>2, <1>15 DEF ApplyClaim
    <2>2. \A k \in A : k # n + 1 /\ ~GivesUp(tx, order[k])
      BY <1>5, <1>15 DEF GivesUp
    <2> QED
      BY <1>12, <2>1, <2>2
  <1>16. CASE tx.handle = h /\ tx.release /\ tx.block >= Activation /\ before[h].owner = Wallet(tx)
    <2>1. now[h] = NoClaim
      BY <1>1, <1>2, <1>3, <1>16 DEF ApplyRelease
    <2>2. \A k \in A : k # n + 1
      BY <1>5, <1>16
    <2>3. \A k \in A : order[k].handle = h /\ before[h] = ClaimOf(order[k]) /\ k <= n => GivesUp(tx, order[k])
      BY <1>4, <1>10, <1>16, ClaimIs DEF GivesUp
    <2> QED
      BY <1>6, <1>7, <1>11, <2>1, <2>2, <2>3
  <1>17. CASE tx.handle = h /\ tx.release /\ ~(tx.block >= Activation /\ before[h].owner = Wallet(tx))
    <2>1. now[h] = before[h]
      BY <1>2, <1>17 DEF ApplyRelease
    <2>2. \A k \in A : k # n + 1
      BY <1>5, <1>17
    <2>3. \A k \in A : before[h] = ClaimOf(order[k]) => ~GivesUp(tx, order[k])
      BY <1>4, <1>17, ClaimIs DEF GivesUp
    <2> QED
      BY <1>12, <2>1, <2>2, <2>3
  <1> QED
    BY <1>13, <1>14, <1>15, <1>16, <1>17

\* The history, replayed in chain order with the creators it needs.
Replays(order, creators0, found, after) ==
  /\ order \in Seq(Tx) /\ Ordered(order)
  /\ creators0 \subseteq Contracts /\ Attributable(order, creators0, found)
  /\ Replayed(order, creators0, found, after)

LEMMA Tally ==
  ASSUME NEW order, NEW creators0, NEW found, NEW after, Replays(order, creators0, found, after)
  PROVE  \A n \in 0 .. Len(order) : Tallied(order, after, n)
  <1> DEFINE Right == { n \in Nat : Tallied(order, after, n) }
  <1>1. order \in Seq(Tx) /\ Len(order) \in Nat
    BY DEF Replays
  <1>2. Tallied(order, after, 0)
    <2>1. after[0].owners = Unclaimed
      BY <1>1 DEF Replays, Replayed
    <2>2. \A k \in Accepted(order, after) : ~(k <= 0)
      BY <1>1 DEF Accepted
    <2> QED
      BY <2>1, <2>2 DEF Tallied, Unclaimed
  <1>3. \A n \in 0 .. Len(order) - 1 : Tallied(order, after, n) => Tallied(order, after, n + 1)
    BY TallyStep DEF Replays
  <1>4. 0 \in Right /\ \A n \in 0 .. Len(order) - 1 : n \in Right => n + 1 \in Right
    BY <1>2, <1>3
  <1> HIDE DEF Right
  <1>5. \A n \in 0 .. Len(order) : n \in Right
    BY <1>1, <1>4, CountUp
  <1> QED
    BY <1>5 DEF Right

\* The claims that were accepted, as transactions.
AcceptedTxs(order, after) == { order[k] : k \in Accepted(order, after) }

Claims(order) == { tx \in { order[i] : i \in 1 .. Len(order) } : ~tx.release }

\* A claim of the history is accepted if and only if it wins among the accepted ones.
LEMMA AcceptedWins ==
  ASSUME NEW order, NEW creators0, NEW found, NEW after, Replays(order, creators0, found, after),
         NEW i \in 1 .. Len(order), ~order[i].release
  PROVE  order[i] \in AcceptedTxs(order, after) <=>
           Wins(order[i], AcceptedTxs(order, after), { order[j] : j \in 1 .. Len(order) })
  <1> DEFINE A == Accepted(order, after)
             h == order[i].handle
             txs == { order[j] : j \in 1 .. Len(order) }
  <1>1. order \in Seq(Tx) /\ Ordered(order) /\ i - 1 \in 0 .. Len(order) /\ order[i] \in Tx /\ h \in Handles
    <2>1. order \in Seq(Tx) /\ Ordered(order)
      BY DEF Replays
    <2>2. i - 1 \in 0 .. Len(order) /\ order[i] \in Tx
      BY <2>1
    <2> QED
      BY <2>1, <2>2 DEF Tx
  <1>2. \A j, k \in 1 .. Len(order) : /\ Before(order[j], order[k]) <=> j < k
                                      /\ order[j] = order[k] => j = k
    BY <1>1, PlacesDiffer
  <1>3. order[i] \in AcceptedTxs(order, after) <=> i \in A
    BY <1>2 DEF AcceptedTxs, Accepted
  <1>4. i \in A <=> after[i - 1].owners[h] = NoClaim
    BY DEF Accepted
  <1>5. \A k \in A : k \in 1 .. Len(order) /\ order[k] \in Tx
    BY <1>1 DEF Accepted
  \* What was given up before claim i was given up by a transaction before it.
  <1>6. \A k \in A : k < i =>
          (GivenUp(order, k, i - 1) <=> \E r \in txs : GivesUp(r, order[k]) /\ Before(r, order[i]))
    <2> TAKE k \in A
    <2>1. \A j \in 1 .. Len(order) : GivesUp(order[j], order[k]) => k < j
      BY <1>2, <1>5 DEF GivesUp
    <2>2. \A j \in 1 .. Len(order) : Before(order[j], order[i]) <=> j \in 1 .. i - 1
      BY <1>2
    <2>3. GivenUp(order, k, i - 1) <=> \E j \in 1 .. i - 1 : GivesUp(order[j], order[k])
      BY <2>1 DEF GivenUp
    <2> QED
      BY <2>2, <2>3
  <1>7. Tallied(order, after, i - 1)
    BY <1>1, Tally
  <1>8. \A k \in A : k <= i - 1 <=> k < i
    BY <1>5
  <1>9. Wins(order[i], AcceptedTxs(order, after), txs) <=>
          \A k \in A : order[k].handle = h /\ k < i => GivenUp(order, k, i - 1)
    <2>1. \A k \in A : Before(order[k], order[i]) <=> k < i
      BY <1>2, <1>5
    <2> QED
      BY <1>6, <2>1 DEF Wins, AcceptedTxs
  <1>10. ASSUME after[i - 1].owners[h] = NoClaim, NEW k \in A, order[k].handle = h, k < i
         PROVE  GivenUp(order, k, i - 1)
    BY <1>1, <1>5, <1>7, <1>8, <1>10, ClaimIs DEF Tallied
  <1>11. ASSUME after[i - 1].owners[h] # NoClaim
         PROVE  \E k \in A : order[k].handle = h /\ k < i /\ ~GivenUp(order, k, i - 1)
    BY <1>1, <1>7, <1>8, <1>11 DEF Tallied
  <1> QED
    BY <1>3, <1>4, <1>9, <1>10, <1>11

\* The rules have one solution, since a claim depends on those before it only.
LEMMA WinnersAre ==
  ASSUME NEW order, NEW creators0, NEW found, NEW after, Replays(order, creators0, found, after)
  PROVE  Winners({ order[j] : j \in 1 .. Len(order) }) = AcceptedTxs(order, after)
  <1> DEFINE txs == { order[j] : j \in 1 .. Len(order) }
             claims == { c \in txs : ~c.release }
             A == AcceptedTxs(order, after)
             Solves(W) == \A c \in claims : c \in W <=> Wins(c, W, txs)
  <1>1. order \in Seq(Tx) /\ Ordered(order) /\ Len(order) \in Nat
    BY DEF Replays
  <1>2. A \in SUBSET claims
    BY DEF AcceptedTxs, Accepted
  <1>3. Solves(A)
    BY AcceptedWins
  <1>4. ASSUME NEW W \in SUBSET claims, Solves(W), W # A
        PROVE  FALSE
    <2> DEFINE D == { i \in 1 .. Len(order) : order[i] \in claims /\ (order[i] \in W) # (order[i] \in A) }
    <2>1. D # {}
      <3>1. PICK c \in claims : (c \in W) # (c \in A)
        BY <1>2, <1>4
      <3>2. PICK i \in 1 .. Len(order) : c = order[i]
        OBVIOUS
      <3> QED
        BY <3>1, <3>2
    <2>2. D \in SUBSET Nat
      BY <1>1
    <2>3. PICK i \in D : \A j \in D : i <= j
      <3> HIDE DEF D
      <3> QED
        BY <2>1, <2>2, LeastNumber
    <2>4. i \in 1 .. Len(order) /\ order[i] \in claims
      BY <2>3
    <2>5. \A j \in 1 .. Len(order) : Before(order[j], order[i]) <=> j < i
      BY <1>1, <2>4, PlacesDiffer
    <2>6. \A j \in 1 .. Len(order) : order[j] \in claims /\ j < i => (order[j] \in W) = (order[j] \in A)
      BY <1>1, <2>3
    <2>7. \A w \in claims : Before(w, order[i]) => (w \in W <=> w \in A)
      BY <2>5, <2>6
    <2>8. Wins(order[i], W, txs) <=> Wins(order[i], A, txs)
      <3> HIDE DEF claims, A, txs
      <3> QED
        BY <1>2, <1>4, <2>7 DEF Wins
    <2>9. order[i] \in W <=> order[i] \in A
      BY <1>3, <1>4, <2>4, <2>8
    <2> QED
      BY <2>3, <2>9
  <1>5. A = CHOOSE W \in SUBSET claims : Solves(W)
    <2> HIDE DEF claims, A, Solves
    <2> QED
      BY <1>2, <1>3, <1>4
  <1> QED
    BY <1>5 DEF Winners

\* Rebuild gives every handle to its rightful owner, in whatever order that keeps to
\* the chain, with whatever creators in the cache.
LEMMA ReplayIsRightful ==
  ASSUME NEW order, NEW creators0, NEW found, NEW after, Replays(order, creators0, found, after)
  PROVE  after[Len(order)].owners = Rightful({ order[j] : j \in 1 .. Len(order) })
  <1> DEFINE N == Len(order)
             txs == { order[j] : j \in 1 .. N }
             owners == after[N].owners
             Standing(h) == { w \in Winners(txs) : w.handle = h /\ ~\E r \in txs : GivesUp(r, w) }
  <1>1. order \in Seq(Tx) /\ Ordered(order) /\ N \in Nat /\ N \in 0 .. N
    BY DEF Replays
  <1>2. Winners(txs) = AcceptedTxs(order, after)
    BY WinnersAre
  <1>3. owners \in [Handles -> HandleClaim]
    <2>1. \A n \in 0 .. N : after[n].owners \in [Handles -> HandleClaim]
      BY PrefixTypes DEF Replays
    <2> QED
      BY <1>1, <2>1
  <1>4. \A k \in Accepted(order, after) : k \in 1 .. N /\ k <= N /\ order[k] \in Tx
    BY <1>1 DEF Accepted
  <1>5. \A k \in Accepted(order, after) : GivenUp(order, k, N) <=> \E r \in txs : GivesUp(r, order[k])
    <2> TAKE k \in Accepted(order, after)
    <2>1. \A j \in 1 .. N : GivesUp(order[j], order[k]) => k < j
      BY <1>1, <1>4, PlacesDiffer DEF GivesUp
    <2> QED
      BY <2>1 DEF GivenUp
  <1>6. Tallied(order, after, N)
    BY <1>1, Tally
  <1>7. ASSUME NEW h \in Handles
        PROVE  owners[h] = RightfulClaim(h, txs)
    <2>1. /\ \A k \in Accepted(order, after) :
               order[k].handle = h => GivenUp(order, k, N) \/ owners[h] = ClaimOf(order[k])
          /\ owners[h] # NoClaim =>
               \E k \in Accepted(order, after) :
                 order[k].handle = h /\ owners[h] = ClaimOf(order[k]) /\ ~GivenUp(order, k, N)
      BY <1>4, <1>6 DEF Tallied
    <2>2. \A w \in Standing(h) : owners[h] = ClaimOf(w)
      BY <1>2, <1>5, <2>1 DEF AcceptedTxs
    <2>3. owners[h] # NoClaim => Standing(h) # {}
      BY <1>2, <1>5, <2>1 DEF AcceptedTxs
    <2>4. Standing(h) # {} => owners[h] # NoClaim
      BY <1>2, <1>4, <2>2, ClaimIs DEF AcceptedTxs
    <2>5. RightfulClaim(h, txs) = IF Standing(h) = {} THEN NoClaim ELSE ClaimOf(CHOOSE w \in Standing(h) : TRUE)
      BY DEF RightfulClaim, ClaimOf
    <2> HIDE DEF Standing
    <2> QED
      BY <2>2, <2>3, <2>4, <2>5
  <1> QED
    BY <1>3, <1>7 DEF Rightful

LEMMA RebuildGivesOwners ==
  ASSUME NEW order \in Seq(Tx), Ordered(order), NEW creators0 \in SUBSET Contracts, NEW found,
         Attributable(order, creators0, found)
  PROVE  Rebuild(order, creators0, found).owners = Rightful(Range(order))
  <1>1. PICK after : /\ Replayed(order, creators0, found, after)
                     /\ Rebuild(order, creators0, found) = after[Len(order)]
    BY RebuildIsLast
  <1>2. Replays(order, creators0, found, after)
    BY <1>1 DEF Replays
  <1>3. Range(order) = { order[j] : j \in 1 .. Len(order) }
    BY DEF Range
  <1> QED
    BY <1>1, <1>2, <1>3, ReplayIsRightful

-----------------------------------------------------------------------------
(***************************************************************************)
(* Replies of the node.                                                    *)
(***************************************************************************)
\* A place on the chain holds one transaction.
Placed(txs) == \A a, b \in txs : a.block = b.block /\ a.index = b.index => a = b

\* A reply that is not ambiguous is in chain order after the sort, and complete.
LEMMA OrdersAreOrdered ==
  ASSUME NEW txs \in SUBSET Tx, IsFiniteSet(txs), Placed(txs),
         NEW indexed \in BOOLEAN, ~Ambiguous(txs, indexed), NEW order \in Orders(txs, indexed)
  PROVE  order \in Seq(Tx) /\ Ordered(order) /\ Range(order) = txs
  <1> DEFINE D == 1 .. Cardinality(txs)
  <1>1. Cardinality(txs) \in Nat /\ IsFiniteSet(D) /\ Cardinality(D) = Cardinality(txs)
    BY FS_CardinalityType, FS_Interval
  <1>2. order \in [D -> txs] /\ \A i, j \in D : i # j => order[i] # order[j]
    BY DEF Orders, SetToSeqs
  <1>3. order \in Seq(Tx) /\ Len(order) = Cardinality(txs) /\ DOMAIN order = D
    <2>1. order \in [D -> Tx]
      BY <1>2
    <2> QED
      BY <1>1, <2>1
  <1>4. \A i, j \in D : i < j => ~KnownBefore(order[j], order[i], indexed)
    BY <1>3 DEF Orders
  <1>5. ASSUME NEW i \in D, NEW j \in D, i < j
        PROVE  Before(order[i], order[j])
    <2>1. order[i] \in txs /\ order[j] \in txs /\ order[i] # order[j]
      BY <1>1, <1>2, <1>5
    <2>2. ~KnownBefore(order[j], order[i], indexed)
      BY <1>4, <1>5
    <2>3. order[i] \in Tx /\ order[j] \in Tx
      BY <2>1
    <2>4. CASE indexed
      BY <2>1, <2>2, <2>3, <2>4 DEF KnownBefore, Before, Placed, Tx
    <2>5. CASE ~indexed
      BY <2>1, <2>2, <2>3, <2>5 DEF KnownBefore, Before, Ambiguous, Tx
    <2> QED
      BY <2>4, <2>5
  <1>6. Ordered(order)
    BY <1>3, <1>5 DEF Ordered
  <1>7. Range(order) = txs
    <2>1. order \in Injection(D, txs)
      BY <1>2 DEF Injection, IsInjective
    <2>2. order \in Surjection(D, txs)
      BY <1>1, <2>1, FS_Injection
    <2> QED
      BY <1>3, <2>2 DEF Surjection, Range
  <1> QED
    BY <1>3, <1>6, <1>7

\* Rebuild gives every handle to its rightful owner: for every history, in whatever
\* order a reply is left that is not refused as ambiguous, and whichever creators
\* are in the cache (HandleRegistry.Rebuild, resolveHandleRegistry).
THEOREM RulesFollowed ==
  ASSUME NEW txs \in SUBSET Tx, IsFiniteSet(txs), Placed(txs)
  PROVE  RebuildFollowsRules(txs)
  <1> SUFFICES ASSUME NEW indexed \in BOOLEAN, NEW creators0 \in SUBSET Contracts,
                      ~Ambiguous(txs, indexed), NEW order \in Orders(txs, indexed)
               PROVE  Rebuild(order, creators0, txs).owners = Rightful(txs)
    BY DEF RebuildFollowsRules
  <1>1. order \in Seq(Tx) /\ Ordered(order) /\ Range(order) = txs
    BY OrdersAreOrdered
  <1>2. \A i \in 1 .. Len(order) : order[i] \in Range(order)
    BY <1>1 DEF Range
  <1>3. Attributable(order, creators0, txs)
    BY <1>1, <1>2 DEF Attributable
  <1> QED
    BY <1>1, <1>3, RebuildGivesOwners

\* The histories the run replays are such: finite, one transaction at a place.
LEMMA HistoriesArePlaced ==
  ASSUME NEW blocks \in Nat, NEW perBlock \in Nat, NEW txs \in Histories(blocks, perBlock)
  PROVE  txs \in SUBSET Tx /\ IsFiniteSet(txs) /\ Placed(txs)
  <1> DEFINE places == (1 .. blocks) \X (1 .. perBlock)
             actions == [handle : Handles, release : BOOLEAN, sender : Users \cup Contracts]
             at(h, p) == [block |-> p[1], index |-> p[2], handle |-> h[p].handle,
                          release |-> h[p].release, sender |-> h[p].sender]
  <1>0. PICK P \in SUBSET places : \E h \in [P -> actions] : txs = { at(h, p) : p \in P }
    BY DEF Histories
  <1>1. PICK h \in [P -> actions] : txs = { at(h, p) : p \in P }
    BY <1>0
  <1>2. \A p \in P : p[1] \in Nat /\ p[2] \in Nat /\ p = << p[1], p[2] >>
    BY <1>1
  <1>3. txs \in SUBSET Tx
    <2>1. \A p \in P : at(h, p) \in Tx
      BY <1>1, <1>2 DEF Tx
    <2> HIDE DEF at
    <2> QED
      BY <1>1, <2>1
  <1>4. IsFiniteSet(txs)
    <2>1. IsFiniteSet(1 .. blocks) /\ IsFiniteSet(1 .. perBlock)
      BY FS_Interval
    <2>2. IsFiniteSet(P)
      BY <1>1, <2>1, FS_Product, FS_Subset
    <2> DEFINE f == [p \in P |-> at(h, p)]
    <2>3. f \in Surjection(P, txs)
      <3> HIDE DEF at
      <3> QED
        BY <1>1 DEF Surjection
    <2> HIDE DEF f, at
    <2> QED
      BY <2>2, <2>3, FS_Surjection
  <1>5. Placed(txs)
    <2>1. \A p, q \in P : p[1] = q[1] /\ p[2] = q[2] => p = q
      BY <1>2
    <2>2. \A p \in P : at(h, p).block = p[1] /\ at(h, p).index = p[2]
      OBVIOUS
    <2> HIDE DEF at
    <2> QED
      BY <1>1, <2>1, <2>2 DEF Placed
  <1> QED
    BY <1>3, <1>4, <1>5

\* What the run asks of Rebuild (HandleRegistry.Rebuild), for any handles, wallets,
\* contracts and activation height: neither an unsorted reply nor competing claims
\* and releases give a handle to a wallet the rules do not give it to.
THEOREM RebuildRightful == HandleSpec => []RebuildIsRightful
  <1>1. RebuildIsRightful
    BY HistoriesArePlaced, RulesFollowed DEF RebuildIsRightful
  <1> QED
    BY <1>1, PTL

-----------------------------------------------------------------------------
(***************************************************************************)
(* The inductive invariant of the syncer.                                  *)
(***************************************************************************)
HistoryInv == IsFiniteSet(chain) /\ Placed(chain) /\ \A tx \in chain : tx.block <= height

\* HandleSyncer.mu is held from the fetch to the write of the table.
Holds(w) == jobs[w].pc \in {"fetch", "swap", "persist"}

OneHolder == \A v, w \in Workers : Holds(v) /\ Holds(w) => v = w

\* A resync that has purged and not swept yet.
Pending(w) == jobs[w].op = "resync" /\ jobs[w].pc # "purge"

\* The map that was swapped in is the one about to be written, unless it was purged
\* in between, and it is right if every creator was found.
Unpurged(w) ==
  (\A v \in Workers \ {w} : ~Pending(v)) =>
     handles = jobs[w].next /\ (exact => handles = Rightful(swapped))

JobsInv ==
  \A w \in Workers :
    /\ jobs[w].pc = "idle" => jobs[w].op = "sync"
    /\ jobs[w].pc = "purge" => jobs[w].op = "resync"
    /\ jobs[w].pc \in {"check", "resolve"} => jobs[w].op = "pay"
    /\ jobs[w].pc = "swap" => Ordered(jobs[w].order)
    /\ jobs[w].pc = "persist" => Unpurged(w)

ServedInv ==
  complete /\ ~Resyncing =>
    /\ exact => handles = Rightful(swapped)
    /\ table = handles \/ \E w \in Workers : jobs[w].pc = "persist"

SyncInv == HandleTypeOK /\ HistoryInv /\ OneHolder /\ JobsInv /\ ServedInv

\* One goroutine goes on.
LEMMA JobChanges ==
  ASSUME SyncInv, NEW w \in Workers, NEW job \in Job, jobs' = [jobs EXCEPT ![w] = job]
  PROVE  /\ jobs' \in [Workers -> Job]
         /\ \A v \in Workers : jobs'[v] = IF v = w THEN job ELSE jobs[v]
  BY DEF SyncInv, HandleTypeOK

\* One goroutine goes on, holds the lock if it held it or nobody did, and the others
\* do as before.
LEMMA HolderChanges ==
  ASSUME SyncInv, NEW w \in Workers, NEW job \in Job, jobs' = [jobs EXCEPT ![w] = job],
         job.pc \in {"fetch", "swap", "persist"} => Holds(w) \/ ~Held
  PROVE  OneHolder'
  <1>1. \A v \in Workers : jobs'[v] = IF v = w THEN job ELSE jobs[v]
    BY JobChanges
  <1>2. \A u, v \in Workers : Holds(u) /\ Holds(v) => u = v
    BY DEF SyncInv, OneHolder
  <1>3. \A v \in Workers : Holds(v) => Held
    BY DEF Holds, Held
  <1>4. \A v \in Workers : jobs'[v].pc \in {"fetch", "swap", "persist"} /\ v # w => Holds(v)
    BY <1>1 DEF Holds
  <1>5. jobs'[w].pc \in {"fetch", "swap", "persist"} => Holds(w) \/ ~Held
    BY <1>1
  <1> QED
    BY <1>2, <1>3, <1>4, <1>5 DEF OneHolder, Holds

\* A goroutine goes on without touching map, table or flags.
LEMMA ControlStep ==
  ASSUME SyncInv, NEW w \in Workers, NEW job \in Job, jobs' = [jobs EXCEPT ![w] = job],
         UNCHANGED << chainVars, regVars, flags >>, faults' \in Nat,
         jobs[w].pc # "persist", job.pc # "persist",
         job.pc \in {"fetch", "swap"} => Holds(w) \/ ~Held,
         job.pc = "idle" => job.op = "sync",
         job.pc = "purge" => job.op = "resync",
         job.pc \in {"check", "resolve"} => job.op = "pay",
         job.pc = "swap" => Ordered(job.order),
         (job.op = "resync" /\ job.pc # "purge") <=> Pending(w)
  PROVE  SyncInv'
  <1>1. /\ jobs' \in [Workers -> Job]
        /\ \A v \in Workers : jobs'[v] = IF v = w THEN job ELSE jobs[v]
    BY JobChanges
  <1>2. HandleTypeOK'
    BY <1>1 DEF SyncInv, HandleTypeOK, chainVars, regVars, flags
  <1>3. HistoryInv'
    BY DEF SyncInv, HistoryInv, chainVars, Placed
  <1>4. OneHolder'
    BY HolderChanges
  <1>5. \A v \in Workers : Pending(v)' <=> Pending(v)
    BY <1>1 DEF Pending
  <1>6. \A v \in Workers : jobs'[v].pc = "persist" <=> jobs[v].pc = "persist"
    BY <1>1
  <1>7. UNCHANGED << handles, table, swapped, exact, complete >>
    BY DEF regVars, flags
  <1>8. JobsInv'
    <2> SUFFICES ASSUME NEW v \in Workers
                 PROVE  /\ jobs'[v].pc = "idle" => jobs'[v].op = "sync"
                        /\ jobs'[v].pc = "purge" => jobs'[v].op = "resync"
                        /\ jobs'[v].pc \in {"check", "resolve"} => jobs'[v].op = "pay"
                        /\ jobs'[v].pc = "swap" => Ordered(jobs'[v].order)
                        /\ jobs'[v].pc = "persist" => Unpurged(v)'
      BY DEF JobsInv, Ordered
    <2>1. CASE v = w
      BY <1>1, <2>1
    <2>2. CASE v # w
      <3>1. jobs'[v] = jobs[v]
        BY <1>1, <2>2
      <3>2. Unpurged(v) => Unpurged(v)'
        BY <1>5, <1>7, <3>1 DEF Unpurged
      <3> QED
        BY <3>1, <3>2 DEF SyncInv, JobsInv
    <2> QED
      BY <2>1, <2>2
  <1>9. ServedInv'
    <2>1. Resyncing' <=> Resyncing
      BY <1>5 DEF Resyncing, Pending
    <2> QED
      BY <1>6, <1>7, <2>1 DEF SyncInv, ServedInv
  <1> QED
    BY <1>2, <1>3, <1>4, <1>8, <1>9 DEF SyncInv

LEMMA IdleJobIs ==
  IdleJob \in Job /\ IdleJob.pc = "idle" /\ IdleJob.op = "sync"
  <1>1. << >> \in Seq(Tx) /\ Unclaimed \in [Handles -> HandleClaim]
    BY DEF Unclaimed, HandleClaim
  <1> QED
    BY <1>1 DEF IdleJob, Job, Ops

\* The other fields of a job whose place changes.
LEMMA PlaceChanges ==
  ASSUME NEW job \in Job,
         NEW pc \in {"idle", "purge", "lock", "fetch", "swap", "persist", "check", "resolve"}
  PROVE  /\ [job EXCEPT !.pc = pc] \in Job
         /\ [job EXCEPT !.pc = pc].pc = pc /\ [job EXCEPT !.pc = pc].op = job.op
         /\ [job EXCEPT !.pc = pc].order = job.order /\ [job EXCEPT !.pc = pc].next = job.next
  BY DEF Job

LEMMA JobIs ==
  ASSUME SyncInv, NEW w \in Workers
  PROVE  /\ jobs[w] \in Job
         /\ jobs[w].pc \in {"check", "resolve"} => jobs[w].op = "pay"
         /\ faults \in Nat
  BY DEF SyncInv, HandleTypeOK, JobsInv

\* The chain grows, loses its last block, or time passes.
LEMMA HistoryStep ==
  ASSUME SyncInv, NewBlock \/ Reorg \/ Cool
  PROVE  SyncInv'
  <1>1. UNCHANGED << regVars, complete, jobs, faults >>
    BY DEF NewBlock, Reorg, Cool, flags
  <1>2. OneHolder' /\ JobsInv' /\ ServedInv'
    BY <1>1 DEF SyncInv, OneHolder, Holds, JobsInv, Unpurged, Pending, ServedInv, Resyncing, regVars
  <1>3. chain \subseteq Tx /\ height \in Nat /\ reorgs \in Nat /\ recent \in BOOLEAN
    BY DEF SyncInv, HandleTypeOK
  <1>4. /\ IsFiniteSet(chain) /\ Placed(chain)
        /\ \A tx \in chain : tx.block \in Nat /\ tx.block <= height
    BY <1>3 DEF SyncInv, HistoryInv, Tx
  <1>5. chain' \subseteq Tx /\ height' \in Nat /\ reorgs' \in Nat /\ recent' \in BOOLEAN /\ HistoryInv'
    <2>1. CASE NewBlock
      <3>1. PICK n \in 1 .. MaxPerBlock :
              \E action \in [1 .. n -> [handle : Handles, release : BOOLEAN, sender : Users \cup Contracts]] :
              chain' = chain \cup { [ block |-> height', index |-> i, handle |-> action[i].handle,
                                      release |-> action[i].release, sender |-> action[i].sender ] : i \in 1 .. n }
        BY <2>1 DEF NewBlock
      <3>2. PICK action \in [1 .. n -> [handle : Handles, release : BOOLEAN, sender : Users \cup Contracts]] :
              chain' = chain \cup { [ block |-> height', index |-> i, handle |-> action[i].handle,
                                      release |-> action[i].release, sender |-> action[i].sender ] : i \in 1 .. n }
        BY <3>1
      <3> DEFINE Mined(i) == [ block |-> height', index |-> i, handle |-> action[i].handle,
                               release |-> action[i].release, sender |-> action[i].sender ]
                 f == [i \in 1 .. n |-> Mined(i)]
                 new == { Mined(i) : i \in 1 .. n }
      <3>3. height' = height + 1 /\ UNCHANGED << reorgs, recent >> /\ n \in Int
        BY <2>1, SyncAssumption DEF NewBlock, flags
      <3>4. \A i \in 1 .. n : Mined(i) \in Tx /\ Mined(i).block = height + 1 /\ Mined(i).index = i
        BY <1>3, <3>3 DEF Tx
      <3>5. f \in Surjection(1 .. n, new)
        BY DEF Surjection
      <3>6. IsFiniteSet(new)
        BY <3>3, <3>5, FS_Surjection, FS_Interval
      <3>7. \A a \in new : a \in Tx /\ a.block = height + 1 /\ \A b \in new : a.index = b.index => a = b
        BY <3>4
      <3> HIDE DEF new
      <3>8. chain' = chain \cup new
        BY <3>2 DEF new
      <3>9. IsFiniteSet(chain')
        BY <1>4, <3>6, <3>8, FS_Union
      <3>10. \A a \in chain, b \in new : a.block # b.block
        BY <1>3, <1>4, <3>7
      <3>11. Placed(chain')
        BY <1>4, <3>7, <3>8, <3>10 DEF Placed
      <3>12. \A tx \in chain' : tx.block <= height'
        BY <1>3, <1>4, <3>3, <3>7, <3>8
      <3> QED
        BY <1>3, <3>3, <3>7, <3>8, <3>9, <3>11, <3>12 DEF HistoryInv, Placed
    <2>2. CASE Reorg
      <3>1. /\ chain' \in SUBSET chain /\ height' = height - 1 /\ height > 0 /\ reorgs' = reorgs + 1
            /\ \A tx \in chain' : tx.block < height /\ UNCHANGED recent
        BY <2>2 DEF Reorg, flags
      <3>2. IsFiniteSet(chain')
        BY <1>4, <3>1, FS_Subset
      <3>3. \A tx \in chain' : tx.block <= height'
        BY <1>3, <1>4, <3>1
      <3>4. Placed(chain')
        BY <1>4, <3>1 DEF Placed
      <3>5. recent' = recent
        BY <2>2 DEF Reorg, flags
      <3> QED
        BY <1>3, <3>1, <3>2, <3>3, <3>4, <3>5 DEF HistoryInv, Placed
    <2>3. CASE Cool
      BY <1>3, <2>3 DEF Cool, chainVars, SyncInv, HistoryInv, Placed
    <2> QED
      BY <2>1, <2>2, <2>3
  <1>6. HandleTypeOK'
    BY <1>1, <1>5 DEF SyncInv, HandleTypeOK, regVars
  <1> QED
    BY <1>2, <1>5, <1>6 DEF SyncInv

LEMMA StartStep ==
  ASSUME SyncInv, NEW w \in Workers, NEW op \in Ops, Start(w, op)
  PROVE  SyncInv'
  <1> DEFINE job == [IdleJob EXCEPT !.op = op, !.pc = IF op = "resync" THEN "purge" ELSE "lock"]
  <1>1. /\ job \in Job /\ job.op = op
        /\ job.pc \in {"purge", "lock"} /\ (op = "resync" <=> job.pc = "purge")
    BY IdleJobIs DEF Job
  <1>2. jobs[w].pc = "idle" /\ jobs[w].op = "sync"
    BY DEF Start, SyncInv, JobsInv
  <1>3. jobs' = [jobs EXCEPT ![w] = job] /\ faults' \in Nat
    BY JobIs DEF Start
  <1> HIDE DEF job
  <1> QED
    BY <1>1, <1>2, <1>3, ControlStep DEF Start, Pending

LEMMA LockStep ==
  ASSUME SyncInv, NEW w \in Workers, Lock(w)
  PROVE  SyncInv'
  <1>1. jobs[w] \in Job /\ jobs[w].pc = "lock" /\ ~Held /\ faults' \in Nat
    BY JobIs DEF Lock
  <1>2. CASE ~(recent /\ jobs[w].op # "resync")
    <2> DEFINE job == [jobs[w] EXCEPT !.pc = "fetch"]
    <2>1. job \in Job /\ job.pc = "fetch" /\ job.op = jobs[w].op
      BY <1>1, PlaceChanges
    <2>2. jobs' = [jobs EXCEPT ![w] = job]
      BY <1>2 DEF Lock, Goto
    <2> HIDE DEF job
    <2> QED
      BY <1>1, <2>1, <2>2, ControlStep DEF Lock, Pending
  <1>3. CASE recent /\ jobs[w].op # "resync" /\ jobs[w].op = "pay"
    <2> DEFINE job == [IdleJob EXCEPT !.op = "pay", !.pc = "check"]
    <2>1. job \in Job /\ job.pc = "check" /\ job.op = "pay"
      BY IdleJobIs DEF Job, Ops
    <2>2. jobs' = [jobs EXCEPT ![w] = job]
      BY <1>3 DEF Lock, Swept
    <2> HIDE DEF job
    <2> QED
      BY <1>1, <1>3, <2>1, <2>2, ControlStep DEF Lock, Pending
  <1>4. CASE recent /\ jobs[w].op # "resync" /\ jobs[w].op # "pay"
    <2>1. jobs' = [jobs EXCEPT ![w] = IdleJob]
      BY <1>4 DEF Lock, Swept, Finish
    <2> QED
      BY <1>1, <1>4, <2>1, IdleJobIs, ControlStep DEF Lock, Pending
  <1> QED
    BY <1>2, <1>3, <1>4

\* Complete and Resolve read.
LEMMA AnswerStep ==
  ASSUME SyncInv, NEW w \in Workers, Check(w) \/ Resolve(w)
  PROVE  SyncInv'
  <1>1. /\ jobs[w] \in Job /\ jobs[w].pc \in {"check", "resolve"} /\ jobs[w].op = "pay"
        /\ faults' \in Nat /\ UNCHANGED << chainVars, regVars, flags >>
    BY JobIs DEF Check, Resolve
  <1>2. CASE jobs' = [jobs EXCEPT ![w] = IdleJob]
    BY <1>1, <1>2, IdleJobIs, ControlStep DEF Pending
  <1>3. CASE jobs' = [jobs EXCEPT ![w] = [jobs[w] EXCEPT !.pc = "resolve"]]
    <2> DEFINE job == [jobs[w] EXCEPT !.pc = "resolve"]
    <2>1. job \in Job /\ job.pc = "resolve" /\ job.op = "pay"
      BY <1>1, PlaceChanges
    <2> HIDE DEF job
    <2> QED
      BY <1>1, <1>3, <2>1, ControlStep DEF Pending, job
  <1> QED
    BY <1>2, <1>3 DEF Check, Resolve, Goto, Finish

\* What is fetched and not refused is in chain order.
LEMMA FetchStep ==
  ASSUME SyncInv, NEW w \in Workers, Fetch(w)
  PROVE  SyncInv'
  <1>1. jobs[w] \in Job /\ jobs[w].pc = "fetch" /\ Holds(w) /\ faults' \in Nat
    BY JobIs DEF Fetch, Holds
  <1>2. PICK indexed \in BOOLEAN :
          /\ ~Ambiguous(chain, indexed)
          /\ \E order \in Orders(chain, indexed) :
               jobs' = [jobs EXCEPT ![w].pc = "swap", ![w].order = order]
    BY DEF Fetch
  <1>3. PICK order \in Orders(chain, indexed) :
          jobs' = [jobs EXCEPT ![w].pc = "swap", ![w].order = order]
    BY <1>2
  <1>4. order \in Seq(Tx) /\ Ordered(order)
    BY <1>2, OrdersAreOrdered DEF SyncInv, HandleTypeOK, HistoryInv
  <1> DEFINE job == [jobs[w] EXCEPT !.pc = "swap", !.order = order]
  <1>5. job \in Job /\ job.pc = "swap" /\ job.op = jobs[w].op /\ job.order = order
    BY <1>1, <1>4 DEF Job
  <1>6. jobs' = [jobs EXCEPT ![w] = job]
    BY <1>3 DEF SyncInv, HandleTypeOK
  <1> HIDE DEF job
  <1> QED
    BY <1>1, <1>4, <1>5, <1>6, ControlStep DEF Fetch, Pending

\* A purge makes its resync pending, or changes nothing.
LEMMA PurgeStep ==
  ASSUME SyncInv, NEW w \in Workers, Purge(w)
  PROVE  SyncInv'
  <1>1. jobs[w] \in Job /\ jobs[w].pc = "purge" /\ faults \in Nat
    BY JobIs DEF Purge
  <1>2. CASE Fault /\ Finish(w) /\ UNCHANGED << handles, table >>
    <2>1. faults' \in Nat /\ jobs' = [jobs EXCEPT ![w] = IdleJob]
      BY <1>1, <1>2 DEF Fault, Finish
    <2>2. UNCHANGED << chainVars, regVars, flags >>
      BY <1>2 DEF Purge, regVars
    <2> QED
      BY <1>1, <2>1, <2>2, IdleJobIs, ControlStep DEF Pending
  <1>3. CASE handles' = Unclaimed /\ table' = Unclaimed /\ Goto(w, "lock") /\ UNCHANGED faults
    <2> DEFINE job == [jobs[w] EXCEPT !.pc = "lock"]
    <2>1. job \in Job /\ job.pc = "lock" /\ job.op = jobs[w].op
      BY <1>1, PlaceChanges
    <2>2. jobs' = [jobs EXCEPT ![w] = job]
      BY <1>3 DEF Goto
    <2> HIDE DEF job
    <2>3. jobs' \in [Workers -> Job] /\ \A v \in Workers : jobs'[v] = IF v = w THEN job ELSE jobs[v]
      BY <2>1, <2>2, JobChanges
    <2>4. UNCHANGED << chainVars, creators, swapped, exact, flags >>
      BY DEF Purge
    <2>5. HandleTypeOK'
      BY <1>3, <2>3, <2>4 DEF SyncInv, HandleTypeOK, chainVars, flags, Unclaimed, HandleClaim
    <2>6. HistoryInv'
      BY <2>4 DEF SyncInv, HistoryInv, chainVars, Placed
    <2>7. OneHolder'
      BY <2>1, <2>2, HolderChanges
    <2>8. jobs[w].op = "resync"
      BY <1>1 DEF SyncInv, JobsInv
    <2>9. Pending(w)'
      BY <2>1, <2>3, <2>8 DEF Pending
    <2>10. Resyncing'
      BY <2>9 DEF Resyncing, Pending
    <2>11. JobsInv'
      BY <2>1, <2>3, <2>9 DEF SyncInv, JobsInv, Unpurged
    <2> QED
      BY <2>5, <2>6, <2>7, <2>10, <2>11 DEF SyncInv, ServedInv
  <1> QED
    BY <1>2, <1>3 DEF Purge

\* A failed fetch ends with the history called incomplete.
LEMMA FetchFailsStep ==
  ASSUME SyncInv, NEW w \in Workers, FetchFails(w)
  PROVE  SyncInv'
  <1>1. /\ jobs' = [jobs EXCEPT ![w] = IdleJob] /\ complete' = FALSE /\ faults' \in Nat
        /\ UNCHANGED << chainVars, regVars, recent >> /\ jobs[w].pc = "fetch"
    BY JobIs DEF FetchFails, Fault, Finish
  <1>2. jobs' \in [Workers -> Job] /\ \A v \in Workers : jobs'[v] = IF v = w THEN IdleJob ELSE jobs[v]
    BY <1>1, IdleJobIs, JobChanges
  <1>3. HandleTypeOK'
    BY <1>1, <1>2 DEF SyncInv, HandleTypeOK, chainVars, regVars
  <1>4. HistoryInv'
    BY <1>1 DEF SyncInv, HistoryInv, chainVars, Placed
  <1>5. OneHolder'
    BY <1>1, IdleJobIs, HolderChanges
  <1>6. \A v \in Workers : jobs'[v].pc # "persist"
    BY <1>1, <1>2, IdleJobIs DEF SyncInv, OneHolder, Holds
  <1>7. JobsInv'
    BY <1>2, <1>6, IdleJobIs DEF SyncInv, JobsInv, Ordered
  <1>8. ServedInv'
    BY <1>1 DEF ServedInv
  <1> QED
    BY <1>3, <1>4, <1>5, <1>7, <1>8 DEF SyncInv

\* The map that is swapped in is right when every creator was found.
LEMMA SwapStep ==
  ASSUME SyncInv, NEW w \in Workers, Swap(w)
  PROVE  SyncInv'
  <1> DEFINE order == jobs[w].order
  <1>1. PICK found \in SUBSET HtlcTxs(order) :
          LET result == Rebuild(order, creators, found) IN
          /\ IF found = HtlcTxs(order) THEN UNCHANGED faults ELSE Fault
          /\ handles' = result.owners
          /\ Remembered(w, result)
          /\ exact' = (HtlcTxs(order) \subseteq found)
          /\ jobs' = [jobs EXCEPT ![w].pc = "persist", ![w].next = result.owners]
    BY DEF Swap
  <1> DEFINE result == Rebuild(order, creators, found)
             job == [jobs[w] EXCEPT !.pc = "persist", !.next = result.owners]
  <1>2. /\ jobs[w] \in Job /\ jobs[w].pc = "swap" /\ order \in Seq(Tx) /\ Ordered(order)
        /\ creators \in SUBSET Contracts
    BY JobIs DEF Swap, SyncInv, HandleTypeOK, JobsInv, Job
  <1>3. result.owners \in [Handles -> HandleClaim] /\ result.creators \subseteq Contracts
    <2>1. PICK after : Replayed(order, creators, found, after) /\ result = after[Len(order)]
      BY <1>2, RebuildIsLast
    <2>2. Len(order) \in 0 .. Len(order)
      BY <1>2
    <2>3. \A n \in 0 .. Len(order) : after[n].owners \in [Handles -> HandleClaim] /\ after[n].creators \subseteq Contracts
      <3> HIDE DEF order
      <3> QED
        BY <1>2, <2>1, PrefixTypes
    <2> QED
      BY <2>1, <2>2, <2>3
  <1>4. Range(order) \subseteq Tx
    BY <1>2 DEF Range
  <1>5. ASSUME HtlcTxs(order) \subseteq found
        PROVE  result.owners = Rightful(Range(order))
    <2>1. Attributable(order, creators, found)
      BY <1>2, <1>5 DEF Attributable, HtlcTxs, Range
    <2> HIDE DEF order
    <2> QED
      BY <1>2, <2>1, RebuildGivesOwners
  <1> HIDE DEF result
  <1>6. job \in Job /\ job.pc = "persist" /\ job.next = result.owners /\ job.op = jobs[w].op
    BY <1>2, <1>3 DEF Job
  <1>7. /\ jobs' = [jobs EXCEPT ![w] = job]
        /\ handles' = result.owners /\ creators' = result.creators
        /\ exact' = (HtlcTxs(order) \subseteq found) /\ swapped' = Range(order)
        /\ faults' \in Nat
        /\ UNCHANGED << chainVars, table, flags >>
    <2>1. jobs' = [jobs EXCEPT ![w] = job]
      BY <1>1 DEF result, SyncInv, HandleTypeOK
    <2>2. faults' \in Nat
      BY <1>1, JobIs DEF Fault
    <2> QED
      BY <1>1, <2>1, <2>2 DEF Swap, Remembered, result
  <1> HIDE DEF job, order
  <1>8. jobs' \in [Workers -> Job] /\ \A v \in Workers : jobs'[v] = IF v = w THEN job ELSE jobs[v]
    BY <1>6, <1>7, JobChanges
  <1>9. HandleTypeOK'
    BY <1>3, <1>4, <1>7, <1>8 DEF SyncInv, HandleTypeOK, chainVars, flags
  <1>10. HistoryInv'
    BY <1>7 DEF SyncInv, HistoryInv, chainVars, Placed
  <1>11. OneHolder'
    BY <1>2, <1>6, <1>7, HolderChanges DEF Holds
  <1>12. handles' = job.next /\ (exact' => handles' = Rightful(swapped'))
    BY <1>5, <1>6, <1>7
  <1>13. \A v \in Workers : v # w => jobs'[v].pc # "persist" /\ jobs'[v].pc # "swap"
    BY <1>2, <1>8 DEF SyncInv, OneHolder, Holds
  <1>14. Unpurged(w)'
    BY <1>8, <1>12 DEF Unpurged, Rightful, RightfulClaim
  <1>15. JobsInv'
    BY <1>6, <1>8, <1>13, <1>14 DEF SyncInv, JobsInv
  <1>16. jobs'[w].pc = "persist"
    BY <1>6, <1>8
  <1>17. ServedInv'
    BY <1>12, <1>16 DEF ServedInv
  <1> QED
    BY <1>9, <1>10, <1>11, <1>15, <1>17 DEF SyncInv

\* The table becomes the map that is being served.
LEMMA PersistStep ==
  ASSUME SyncInv, NEW w \in Workers, Persist(w)
  PROVE  SyncInv'
  <1>1. jobs[w] \in Job /\ jobs[w].pc = "persist" /\ faults' \in Nat
    BY JobIs DEF Persist, Fault
  <1>2. PICK job \in Job : /\ jobs' = [jobs EXCEPT ![w] = job]
                           /\ \/ job.pc = "idle" /\ job.op = "sync"
                              \/ job.pc = "check" /\ job.op = "pay"
    <2>1. [IdleJob EXCEPT !.op = "pay", !.pc = "check"] \in Job
      BY IdleJobIs DEF Job, Ops
    <2>2. /\ [IdleJob EXCEPT !.op = "pay", !.pc = "check"].pc = "check"
          /\ [IdleJob EXCEPT !.op = "pay", !.pc = "check"].op = "pay"
      BY IdleJobIs DEF Job
    <2> QED
      BY <2>1, <2>2, IdleJobIs DEF Persist, Swept, Finish
  <1>3. UNCHANGED << chainVars, handles, creators, swapped, exact >>
    BY DEF Persist
  <1>4. \/ table' = jobs[w].next /\ complete' = TRUE /\ recent' = TRUE
        \/ complete' = FALSE /\ UNCHANGED << table, recent >>
    BY DEF Persist
  <1>5. jobs' \in [Workers -> Job] /\ \A v \in Workers : jobs'[v] = IF v = w THEN job ELSE jobs[v]
    BY <1>2, JobChanges
  <1>6. HandleTypeOK'
    BY <1>1, <1>3, <1>4, <1>5 DEF SyncInv, HandleTypeOK, chainVars, Job
  <1>7. HistoryInv'
    BY <1>3 DEF SyncInv, HistoryInv, chainVars, Placed
  <1>8. OneHolder'
    BY <1>2, HolderChanges
  <1>9. \A v \in Workers : jobs'[v].pc # "persist"
    BY <1>1, <1>2, <1>5 DEF SyncInv, OneHolder, Holds
  <1>10. JobsInv'
    BY <1>2, <1>5, <1>9 DEF SyncInv, JobsInv, Ordered
  <1>11. ServedInv'
    <2> SUFFICES ASSUME complete', ~Resyncing'
                 PROVE  (exact' => handles' = Rightful(swapped')) /\ table' = handles'
      BY DEF ServedInv, Rightful, RightfulClaim
    <2>1. table' = jobs[w].next
      BY <1>4
    <2>2. \A v \in Workers \ {w} : ~Pending(v)
      BY <1>5 DEF Resyncing, Pending
    <2>3. handles = jobs[w].next /\ (exact => handles = Rightful(swapped))
      BY <1>1, <2>2 DEF SyncInv, JobsInv, Unpurged
    <2> QED
      BY <1>3, <2>1, <2>3
  <1> QED
    BY <1>6, <1>7, <1>8, <1>10, <1>11 DEF SyncInv

LEMMA CrashStep ==
  ASSUME SyncInv, Crash
  PROVE  SyncInv'
  <1>1. \A v \in Workers : jobs'[v] = IdleJob
    BY DEF Crash
  <1>2. faults' \in Nat
    BY DEF Crash, Fault, SyncInv, HandleTypeOK
  <1>3. HandleTypeOK'
    BY <1>2, IdleJobIs DEF Crash, SyncInv, HandleTypeOK, chainVars
  <1>4. HistoryInv'
    BY DEF Crash, SyncInv, HistoryInv, chainVars, Placed
  <1>5. OneHolder' /\ JobsInv'
    BY <1>1, IdleJobIs DEF OneHolder, Holds, JobsInv
  <1>6. ServedInv'
    BY DEF Crash, ServedInv
  <1> QED
    BY <1>3, <1>4, <1>5, <1>6 DEF SyncInv

LEMMA SyncInitial == HandleInit => SyncInv
  <1> SUFFICES ASSUME HandleInit
               PROVE  SyncInv
    OBVIOUS
  <1>1. jobs \in [Workers -> Job] /\ \A v \in Workers : jobs[v] = IdleJob
    BY IdleJobIs DEF HandleInit
  <1>2. HandleTypeOK
    BY <1>1 DEF HandleInit, HandleTypeOK, Unclaimed, HandleClaim
  <1>3. HistoryInv
    BY FS_EmptySet DEF HandleInit, HistoryInv, Placed
  <1>4. OneHolder /\ JobsInv
    BY <1>1, IdleJobIs DEF OneHolder, Holds, JobsInv
  <1>5. ServedInv
    BY DEF HandleInit, ServedInv
  <1> QED
    BY <1>2, <1>3, <1>4, <1>5 DEF SyncInv

LEMMA SyncStep == SyncInv /\ [HandleNext]_syncVars => SyncInv'
  <1> SUFFICES ASSUME SyncInv, [HandleNext]_syncVars
               PROVE  SyncInv'
    OBVIOUS
  <1>1. CASE UNCHANGED syncVars
    BY <1>1 DEF syncVars, chainVars, regVars, flags, SyncInv, HandleTypeOK, HistoryInv, Placed, OneHolder, Holds,
                JobsInv, Unpurged, Pending, ServedInv, Resyncing
  <1>2. CASE NewBlock \/ Reorg \/ Cool
    BY <1>2, HistoryStep
  <1>3. CASE Crash
    BY <1>3, CrashStep
  <1>4. ASSUME NEW w \in Workers, Work(w) \/ FetchFails(w)
        PROVE  SyncInv'
    BY <1>4, PurgeStep, LockStep, FetchStep, SwapStep, PersistStep, AnswerStep, FetchFailsStep DEF Work
  <1>5. ASSUME NEW w \in Workers, NEW op \in Ops, Start(w, op)
        PROVE  SyncInv'
    BY <1>5, StartStep
  <1> QED
    BY <1>1, <1>2, <1>3, <1>4, <1>5 DEF HandleNext

-----------------------------------------------------------------------------
(***************************************************************************)
(* What follows.                                                           *)
(***************************************************************************)
\* The inductive invariant holds.
THEOREM SyncCorrect == HandleSpec => []SyncInv
  BY SyncInitial, SyncStep, PTL DEF HandleSpec

\* Map, table, cache and jobs are of their types.
THEOREM HandleTypes == HandleSpec => []HandleTypeOK
  <1>1. SyncInv => HandleTypeOK
    BY DEF SyncInv
  <1> QED
    BY <1>1, SyncCorrect, PTL

\* While the syncer calls its history complete the map gives every handle to its
\* rightful owner (sweep holds the mutex from the fetch to the end of persist, and
\* every failure on the way resets the flag).
THEOREM MapFollowsRules == HandleSpec => []MapIsRightful
  <1>1. SyncInv => MapIsRightful
    BY DEF SyncInv, ServedInv, MapIsRightful
  <1> QED
    BY <1>1, SyncCorrect, PTL

\* A restart would load the map that is being served, although Rebuild swaps the map
\* before it writes the table and a purge may come between.
THEOREM TableKept == HandleSpec => []TableFollowsMap
  <1>1. SyncInv => TableFollowsMap
    BY DEF SyncInv, ServedInv, TableFollowsMap, Held
  <1> QED
    BY <1>1, SyncCorrect, PTL

=============================================================================
