---------------------------- MODULE HandleRegistry ----------------------------
(***************************************************************************)
(* Who owns a handle, computed from the registry address's transactions    *)
(* (backend/handles_registry.go Rebuild, and its TypeScript counterpart    *)
(* resolveHandleRegistry), and the rules it stands for.  Pure definitions. *)
(*                                                                         *)
(* A transaction is reduced to what Rebuild reads after parseClaimData:    *)
(* its place on the chain, the handle, claim or release, and its sender,   *)
(* which for Nimiq Pay is an HTLC contract instead of the wallet.          *)
(***************************************************************************)
EXTENDS Naturals, SequencesExt

CONSTANTS
  Handles,
  Users,     \* wallet addresses
  Contracts, \* HTLC contract addresses
  Creator,   \* the wallet behind each contract
  Activation \* releaseActivationHeight

ASSUME CreatorAssumption == Creator \in [Contracts -> Users] /\ Users \cap Contracts = {}
ASSUME NoneAssumption == "none" \notin Users \cup Contracts
ASSUME ActivationAssumption == Activation \in Nat

Tx == [block : Nat, index : Nat, handle : Handles, release : BOOLEAN, sender : Users \cup Contracts]

NoClaim == [owner |-> "none", block |-> 0, index |-> 0]
HandleClaim == [owner : Users \cup Contracts, block : Nat, index : Nat] \cup {NoClaim}

Unclaimed == [h \in Handles |-> NoClaim]

\* Chain order.  An RPC reply without transactionIndex knows only the block.
Before(a, b) == a.block < b.block \/ (a.block = b.block /\ a.index < b.index)
KnownBefore(a, b, indexed) == IF indexed THEN Before(a, b) ELSE a.block < b.block

\* The orders sort.Slice, which is not stable, may leave a reply in.
Orders(txs, indexed) ==
  { s \in SetToSeqs(txs) : \A i, j \in DOMAIN s : i < j => ~KnownBefore(s[j], s[i], indexed) }

\* Mutant of Ambiguous: any reply is taken to be in chain order.
AmbiguousNever(txs, indexed) == FALSE

\* registryOrderingAmbiguous
Ambiguous(txs, indexed) ==
  ~indexed /\ \E a, b \in txs : a # b /\ a.block = b.block

-----------------------------------------------------------------------------
\* Rebuild's loop body.  acc.creators is the creator cache; `found` says for
\* which transactions an uncached creator lookup succeeds.
Resolved(acc, tx, found) == tx.sender \in acc.creators \/ (tx.sender \in Contracts /\ tx \in found)

SignerOf(acc, tx, found) == IF Resolved(acc, tx, found) THEN Creator[tx.sender] ELSE tx.sender

ApplyRelease(owners, tx, signer) ==
  IF tx.block >= Activation /\ owners[tx.handle].owner = signer
  THEN [owners EXCEPT ![tx.handle] = NoClaim] ELSE owners

ApplyClaim(owners, tx, signer) ==
  IF owners[tx.handle] = NoClaim
  THEN [owners EXCEPT ![tx.handle] = [owner |-> signer, block |-> tx.block, index |-> tx.index]]
  ELSE owners

Apply(acc, tx, found) ==
  LET signer == SignerOf(acc, tx, found) IN
  [ owners   |-> IF tx.release THEN ApplyRelease(acc.owners, tx, signer)
                               ELSE ApplyClaim(acc.owners, tx, signer),
    creators |-> IF Resolved(acc, tx, found) THEN acc.creators \cup {tx.sender} ELSE acc.creators ]

Rebuild(order, creators, found) ==
  LET after[n \in 0 .. Len(order)] ==
        IF n = 0 THEN [owners |-> Unclaimed, creators |-> creators]
                 ELSE Apply(after[n - 1], order[n], found)
  IN  after[Len(order)]

-----------------------------------------------------------------------------
(***************************************************************************)
(* The rules, stated without an order of evaluation: a claim wins unless   *)
(* an earlier winning claim of the handle has not been released, by its    *)
(* own wallet and since Activation, before it.                             *)
(***************************************************************************)
Wallet(tx) == IF tx.sender \in Contracts THEN Creator[tx.sender] ELSE tx.sender

GivesUp(r, c) ==
  /\ r.release /\ r.handle = c.handle /\ Wallet(r) = Wallet(c)
  /\ r.block >= Activation /\ Before(c, r)

Wins(c, winners, txs) ==
  \A w \in winners : w.handle = c.handle /\ Before(w, c) =>
    \E r \in txs : GivesUp(r, w) /\ Before(r, c)

Winners(txs) ==
  LET claims == { c \in txs : ~c.release }
  IN  CHOOSE W \in SUBSET claims : \A c \in claims : c \in W <=> Wins(c, W, txs)

\* The claim a handle has by the rules.
RightfulClaim(h, txs) ==
  LET held == { w \in Winners(txs) : w.handle = h /\ ~\E r \in txs : GivesUp(r, w) }
  IN  IF held = {} THEN NoClaim
      ELSE LET w == CHOOSE w \in held : TRUE
           IN  [owner |-> Wallet(w), block |-> w.block, index |-> w.index]

Rightful(txs) == [h \in Handles |-> RightfulClaim(h, txs)]

\* Whatever order a sufficiently indexed reply leaves, and whichever creators are
\* in the cache, Rebuild gives every handle to its rightful owner.
RebuildFollowsRules(txs) ==
  \A indexed \in BOOLEAN, creators \in SUBSET Contracts :
    ~Ambiguous(txs, indexed) =>
      \A order \in Orders(txs, indexed) : Rebuild(order, creators, txs).owners = Rightful(txs)

=============================================================================
