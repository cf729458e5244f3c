------------------------------ MODULE HandleSync ------------------------------
(***************************************************************************)
(* HandleSyncer and its callers (backend/handles_sync.go and               *)
(* handles_handlers.go): the periodic sweep, claim submissions, payment    *)
(* resolutions and the administrator's resync, each in its own goroutine.  *)
(* HandleSyncer.mu is held through a whole sweep; the registry's own lock  *)
(* only around the swap of the map, a purge and a lookup, so a purge or a  *)
(* lookup falls between the steps of a sweep.                              *)
(***************************************************************************)
EXTENDS HandleRegistry

CONSTANTS
  Runner,      \* HandleSyncer.Run
  Requests,    \* HTTP requests in progress at one time
  MaxBlocks,   \* bound: blocks with registry transactions
  MaxPerBlock, \* bound: registry transactions in a block
  MaxReorgs,   \* bound: reorganisations
  MaxFaults    \* bound: failed calls, unusable replies and crashes

ASSUME SyncAssumption ==
  /\ Runner \notin Requests
  /\ MaxBlocks \in Nat /\ MaxPerBlock \in Nat /\ MaxReorgs \in Nat /\ MaxFaults \in Nat

VARIABLES
  chain,    \* registry transactions on the chain
  height,   \* last block that has some
  handles,  \* HandleRegistry.handles
  table,    \* handle_claims
  creators, \* contracts in HandleSyncer.creators
  complete, \* HandleSyncer.complete
  recent,   \* lastSweep is less than the cooldown ago
  jobs,     \* what each goroutine is doing
  swapped,  \* history behind the map: the transactions of the last swap
  exact,    \* every creator lookup behind the map succeeded
  faults, reorgs

chainVars == << chain, height, reorgs >>
regVars   == << handles, table, creators, swapped, exact >>
flags     == << complete, recent >>
syncVars  == << chainVars, regVars, flags, jobs, faults >>

Workers == {Runner} \cup Requests

\* "sync" is Run's tick or a claim submission: Sweep, result ignored.
Ops == {"sync", "pay", "resync"}

IdleJob == [pc |-> "idle", op |-> "sync", order |-> << >>, next |-> Unclaimed]

Job ==
  [ pc    : {"idle", "purge", "lock", "fetch", "swap", "persist", "check", "resolve"},
    op    : Ops,
    order : Seq(Tx),
    next  : [Handles -> HandleClaim] ]

Held == \E w \in Workers : jobs[w].pc \in {"fetch", "swap", "persist"}

HandleTypeOK ==
  /\ chain \subseteq Tx /\ height \in Nat
  /\ handles \in [Handles -> HandleClaim] /\ table \in [Handles -> HandleClaim]
  /\ creators \subseteq Contracts
  /\ complete \in BOOLEAN /\ recent \in BOOLEAN /\ exact \in BOOLEAN
  /\ jobs \in [Workers -> Job]
  /\ swapped \subseteq Tx
  /\ faults \in Nat /\ reorgs \in Nat

\* A first start: nothing on the chain, an empty table.
HandleInit ==
  /\ chain = {} /\ height = 0 /\ swapped = {} /\ exact = TRUE
  /\ handles = Unclaimed /\ table = Unclaimed /\ creators = {}
  /\ complete = FALSE /\ recent = FALSE
  /\ jobs = [w \in Workers |-> IdleJob]
  /\ faults = 0 /\ reorgs = 0

Fault == faults < MaxFaults /\ faults' = faults + 1

-----------------------------------------------------------------------------
\* A block of one or more registry transactions.
NewBlock ==
  /\ height < MaxBlocks
  /\ height' = height + 1
  /\ \E n \in 1 .. MaxPerBlock :
     \E action \in [1 .. n -> [handle : Handles, release : BOOLEAN, sender : Users \cup Contracts]] :
       chain' = chain \cup { [ block |-> height', index |-> i, handle |-> action[i].handle,
                               release |-> action[i].release, sender |-> action[i].sender ] : i \in 1 .. n }
  /\ UNCHANGED << regVars, flags, jobs, faults, reorgs >>

\* The last block is replaced.
Reorg ==
  /\ reorgs < MaxReorgs /\ height > 0
  /\ reorgs' = reorgs + 1 /\ height' = height - 1
  /\ chain' = { tx \in chain : tx.block < height }
  /\ UNCHANGED << regVars, flags, jobs, faults >>

\* sweepCooldown has passed.
Cool ==
  /\ recent /\ recent' = FALSE
  /\ UNCHANGED << chainVars, regVars, complete, jobs, faults >>

-----------------------------------------------------------------------------
Goto(w, pc) == jobs' = [jobs EXCEPT ![w].pc = pc]
Finish(w) == jobs' = [jobs EXCEPT ![w] = IdleJob]

\* What follows a sweep that returned nil, or an error (503, 500, logged).
Swept(w) == IF jobs[w].op = "pay" THEN jobs' = [jobs EXCEPT ![w] = [IdleJob EXCEPT !.op = "pay", !.pc = "check"]]
            ELSE Finish(w)

Start(w, op) ==
  /\ jobs[w].pc = "idle"
  /\ w = Runner => op = "sync"
  /\ jobs' = [jobs EXCEPT ![w] = [IdleJob EXCEPT !.op = op, !.pc = IF op = "resync" THEN "purge" ELSE "lock"]]
  /\ UNCHANGED << chainVars, regVars, flags, faults >>

\* PurgeHandles; when the TRUNCATE fails the map is kept.
Purge(w) ==
  /\ jobs[w].pc = "purge"
  /\ \/ /\ handles' = Unclaimed /\ table' = Unclaimed
        /\ Goto(w, "lock") /\ UNCHANGED faults
     \/ Fault /\ Finish(w) /\ UNCHANGED << handles, table >>
  /\ UNCHANGED << chainVars, creators, swapped, exact, flags >>

\* Mutant of Lock: a complete history is not fetched again.
LockUnlessComplete(w) ==
  /\ jobs[w].pc = "lock" /\ ~Held
  /\ IF (recent \/ complete) /\ jobs[w].op # "resync" THEN Swept(w) ELSE Goto(w, "fetch")
  /\ UNCHANGED << chainVars, regVars, flags, faults >>

\* sweep: take the lock and look at the cooldown.
Lock(w) ==
  /\ jobs[w].pc = "lock" /\ ~Held
  /\ IF recent /\ jobs[w].op # "resync" THEN Swept(w) ELSE Goto(w, "fetch")
  /\ UNCHANGED << chainVars, regVars, flags, faults >>

\* GetAllTransactionsByAddress and the two checks of its result.
Fetch(w) ==
  /\ jobs[w].pc = "fetch"
  /\ \E indexed \in BOOLEAN :
       /\ ~Ambiguous(chain, indexed)
       /\ \E order \in Orders(chain, indexed) :
            jobs' = [jobs EXCEPT ![w].pc = "swap", ![w].order = order]
  /\ UNCHANGED << chainVars, regVars, flags, faults >>

\* Mutant of FetchFails: the completeness flag keeps its value.
FetchFailsQuietly(w) ==
  /\ jobs[w].pc = "fetch"
  /\ Fault
  /\ Finish(w)
  /\ UNCHANGED << chainVars, regVars, flags >>

\* The call fails, the history is incomplete or its order ambiguous.
FetchFails(w) ==
  /\ jobs[w].pc = "fetch"
  /\ Fault
  /\ complete' = FALSE /\ Finish(w)
  /\ UNCHANGED << chainVars, regVars, recent >>

HtlcTxs(order) == { tx \in Range(order) : tx.sender \in Contracts /\ tx.sender \notin creators }

\* Mutant of Remembered: wallets are cached beside the contracts.
RememberEverySender(w, result) ==
  creators' = result.creators \cup { tx.sender : tx \in Range(jobs[w].order) }

Remembered(w, result) == creators' = result.creators

\* Rebuild up to the swap of the map, with its creator lookups.
Swap(w) ==
  /\ jobs[w].pc = "swap"
  /\ \E found \in SUBSET HtlcTxs(jobs[w].order) :
       LET order == jobs[w].order
           result == Rebuild(order, creators, found) IN
       /\ IF found = HtlcTxs(order) THEN UNCHANGED faults ELSE Fault
       /\ handles' = result.owners
       /\ Remembered(w, result)
       /\ exact' = (HtlcTxs(order) \subseteq found)
       /\ jobs' = [jobs EXCEPT ![w].pc = "persist", ![w].next = result.owners]
  /\ swapped' = Range(jobs[w].order)
  /\ UNCHANGED << chainVars, table, flags >>

\* Mutant of Persist: a failure does not reset the completeness flag.
PersistStaysComplete(w) ==
  /\ jobs[w].pc = "persist"
  /\ \/ /\ table' = jobs[w].next /\ complete' = TRUE /\ recent' = TRUE
        /\ Swept(w) /\ UNCHANGED faults
     \/ /\ Fault /\ UNCHANGED << table, complete, recent >>
        /\ Finish(w)
  /\ UNCHANGED << chainVars, handles, creators, swapped, exact >>

\* persist writes the map Rebuild computed.
Persist(w) ==
  /\ jobs[w].pc = "persist"
  /\ \/ /\ table' = jobs[w].next /\ complete' = TRUE /\ recent' = TRUE
        /\ Swept(w) /\ UNCHANGED faults
     \/ /\ Fault /\ complete' = FALSE /\ UNCHANGED << table, recent >>
        /\ Finish(w)
  /\ UNCHANGED << chainVars, handles, creators, swapped, exact >>

\* Complete() waits for the lock.
Check(w) ==
  /\ jobs[w].pc = "check" /\ ~Held
  /\ IF complete THEN Goto(w, "resolve") ELSE Finish(w)
  /\ UNCHANGED << chainVars, regVars, flags, faults >>

\* Resolve: the claim, or 404 "unknown handle".
Resolve(w) ==
  /\ jobs[w].pc = "resolve"
  /\ Finish(w)
  /\ UNCHANGED << chainVars, regVars, flags, faults >>

\* The process restarts and loads the table.
Crash ==
  /\ Fault
  /\ jobs' = [w \in Workers |-> IdleJob]
  /\ handles' = table /\ creators' = {}
  /\ complete' = FALSE /\ recent' = FALSE
  /\ UNCHANGED << chainVars, table, swapped, exact >>

-----------------------------------------------------------------------------
Work(w) ==
  \/ Purge(w) \/ Lock(w) \/ Fetch(w) \/ Swap(w) \/ Persist(w) \/ Check(w) \/ Resolve(w)

HandleNext ==
  \/ NewBlock \/ Reorg \/ Cool \/ Crash
  \/ \E w \in Workers : Work(w) \/ FetchFails(w) \/ \E op \in Ops : Start(w, op)

HandleSpec == HandleInit /\ [][HandleNext]_syncVars

\* Run ticks every two minutes, the cooldown passes, a goroutine that can go on
\* does, and Go's sync.Mutex lets every waiter in eventually; of the waiters only
\* the periodic sweep needs that here.
HandleFairSpec ==
  /\ HandleSpec
  /\ WF_syncVars(Start(Runner, "sync")) /\ WF_syncVars(Cool)
  /\ \A w \in Workers : WF_syncVars(Work(w))
  /\ SF_syncVars(Lock(Runner))

-----------------------------------------------------------------------------
\* Histories of a number of blocks with up to that many registry transactions each.
Histories(blocks, perBlock) ==
  LET actions == [handle : Handles, release : BOOLEAN, sender : Users \cup Contracts]
  IN  { { [block |-> at[1], index |-> at[2], handle |-> h[at].handle, release |-> h[at].release,
           sender |-> h[at].sender] : at \in DOMAIN h } :
        h \in UNION { [places -> actions] : places \in SUBSET ((1 .. blocks) \X (1 .. perBlock)) } }

\* Rebuild's map is the one the claim rules give, for every history of two blocks
\* with two actions each: claims compete within a block and across blocks,
\* releases come before and after Activation, through wallets and contracts.  It
\* says nothing of the state, so TLC is asked in the first one only.
RebuildIsRightful == HandleInit => \A txs \in Histories(2, 2) : RebuildFollowsRules(txs)

\* A resync whose sweep has not ended.
Resyncing == \E w \in Workers : jobs[w].op = "resync" /\ jobs[w].pc # "purge"

\* While the syncer calls its history complete the map gives every handle to
\* its rightful owner in the history it was built from: whatever the order of
\* the reply, whoever tried to claim or release, through a wallet or through
\* a swap contract, and whatever a concurrent purge cleared.
MapIsRightful ==
  complete /\ exact /\ ~Resyncing => handles = Rightful(swapped)

\* A restart would load the map that is being served: the table and the map are
\* written by separate steps, and a purge may come between them.
TableFollowsMap ==
  complete /\ ~Held /\ ~Resyncing => table = handles

\* "Ordering mistakes and reorgs self-heal": map and table come back to the
\* chain's owners after any finite number of failures and reorganisations,
\* although purges and payment resolutions keep coming.
RegistryHeals ==
  []<>(complete /\ handles = Rightful(chain) /\ table = handles)

=============================================================================
