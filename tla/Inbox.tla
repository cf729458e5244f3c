--------------------------------- MODULE Inbox ---------------------------------
(***************************************************************************)
(* The server's inbox: payment requests sent to wallets' mailboxes.        *)
(*                                                                         *)
(* A sender signs a letter once and may post it again when an answer is    *)
(* lost.  A post runs under the mutex of the recipient's mailbox, which    *)
(* lives in this process; the unique index on (sender, nonce) spans all    *)
(* mailboxes.  Listing sweeps what is older than the retention.            *)
(***************************************************************************)
EXTENDS Naturals, FiniteSets

CONSTANTS
  Letters,      \* the signed bodies senders post
  Mailboxes,    \* recipients
  Sender,       \* of each letter: who signed it
  Nonce,        \*   its nonce
  Recipient,    \*   its mailbox
  Posts,        \* posts that can be in progress at one time
  None,
  MaxMailbox,   \* inboxMaxMailbox
  MaxPerSender, \* inboxMaxPerSender
  MaxIds,       \* bound: messages ever stored
  MaxCrashes    \* bound: restarts of the server and failed statements

ASSUME InboxAssumption ==
  /\ None \notin Letters
  /\ Recipient \in [Letters -> Mailboxes]
  /\ DOMAIN Sender = Letters /\ DOMAIN Nonce = Letters
  /\ {MaxMailbox, MaxPerSender, MaxIds, MaxCrashes} \subseteq Nat

VARIABLES
  stored,  \* the letter of every id given out, whether still stored or not
  present, \* inbox_messages: ids still in the table
  old,     \* messages older than the retention
  stale,   \* letters whose sent_at has left the accepted window
  post,    \* the posts in progress
  answers, \* history: ids answered to the posts of each letter
  crashes

inboxVars == << stored, present, old, stale, post, answers, crashes >>

Ids == 1 .. MaxIds
Idle == [at |-> "idle"]
Post == {Idle} \cup [at : {"lock", "look", "count", "insert", "lookup"}, letter : Letters]

InboxTypeOK ==
  /\ stored \in [Ids -> Letters \cup {None}]
  /\ present \subseteq { i \in Ids : stored[i] # None }
  /\ old \subseteq present
  /\ stale \subseteq Letters
  /\ post \in [Posts -> Post]
  /\ answers \in [Letters -> SUBSET Ids]
  /\ crashes \in 0 .. MaxCrashes

InboxInit ==
  /\ stored = [i \in Ids |-> None]
  /\ present = {} /\ old = {} /\ stale = {} /\ crashes = 0
  /\ post = [p \in Posts |-> Idle]
  /\ answers = [l \in Letters |-> {}]

NextId == Cardinality({ i \in Ids : stored[i] # None }) + 1

\* The letters the unique index takes for the same message.
SameKey(l, k) == Sender[l] = Sender[k] /\ Nonce[l] = Nonce[k]
Found(l) == { i \in present : SameKey(stored[i], l) }

In(m) == { i \in present : Recipient[stored[i]] = m }
InFrom(m, s) == { i \in In(m) : Sender[stored[i]] = s }

At(p, pc) == post[p].at = pc
Goto(p, pc) == post' = [post EXCEPT ![p] = [at |-> pc, letter |-> post[p].letter]]
Letter(p) == post[p].letter

\* Answered with an id, or with an error.
Ok(p, id) ==
  /\ answers' = [answers EXCEPT ![Letter(p)] = @ \cup {id}]
  /\ post' = [post EXCEPT ![p] = Idle]

Refuse(p) == post' = [post EXCEPT ![p] = Idle] /\ UNCHANGED answers

\* Mutant of Locked: the mailboxes have no mutex.
Unlocked(m) == FALSE

\* The mutex of a mailbox.
Locked(m) == \E p \in Posts : post[p].at \in {"look", "count", "insert", "lookup"} /\ Recipient[Letter(p)] = m

-----------------------------------------------------------------------------
\* A post arrives with a valid signature and a sent_at in the window.
Arrive(p, l) ==
  /\ At(p, "idle") /\ l \notin stale
  /\ NextId + Cardinality({ q \in Posts : ~At(q, "idle") }) \in Ids
  /\ post' = [post EXCEPT ![p] = [at |-> "lock", letter |-> l]]
  /\ UNCHANGED << stored, present, old, stale, answers, crashes >>

Lock(p) ==
  /\ At(p, "lock") /\ ~Locked(Recipient[Letter(p)])
  /\ Goto(p, "look")
  /\ UNCHANGED << stored, present, old, stale, answers, crashes >>

\* findBySenderNonce: a repeated post is answered with the message it made.
Look(p) ==
  /\ At(p, "look")
  /\ \/ \E i \in Found(Letter(p)) : Ok(p, i)
     \/ Found(Letter(p)) = {} /\ Goto(p, "count") /\ UNCHANGED answers
  /\ UNCHANGED << stored, present, old, stale, crashes >>

Full(m, s) == Cardinality(In(m)) >= MaxMailbox \/ Cardinality(InFrom(m, s)) >= MaxPerSender

\* The two counts; both are of this mailbox, whose mutex is held.
Count(p) ==
  /\ At(p, "count")
  /\ \/ Full(Recipient[Letter(p)], Sender[Letter(p)]) /\ Refuse(p)
     \/ ~Full(Recipient[Letter(p)], Sender[Letter(p)]) /\ Goto(p, "insert") /\ UNCHANGED answers
  /\ UNCHANGED << stored, present, old, stale, crashes >>

\* Mutant of Insert: a unique violation is answered with the id that was not stored.
InsertBlind(p) ==
  /\ At(p, "insert")
  /\ stored' = [stored EXCEPT ![NextId] = Letter(p)]
  /\ present' = IF Found(Letter(p)) = {} THEN present \cup {NextId} ELSE present
  /\ Ok(p, NextId)
  /\ UNCHANGED << old, stale, crashes >>

\* The same key may have been stored for another mailbox since the look.
Insert(p) ==
  /\ At(p, "insert")
  /\ \/ /\ Found(Letter(p)) = {}
        /\ stored' = [stored EXCEPT ![NextId] = Letter(p)]
        /\ present' = present \cup {NextId}
        /\ Ok(p, NextId)
     \/ /\ Found(Letter(p)) # {}
        /\ Goto(p, "lookup") /\ UNCHANGED << stored, present, answers >>
  /\ UNCHANGED << old, stale, crashes >>

\* After a unique violation; the message may be deleted again by now.
Lookup(p) ==
  /\ At(p, "lookup")
  /\ \/ \E i \in Found(Letter(p)) : Ok(p, i)
     \/ Found(Letter(p)) = {} /\ Refuse(p)
  /\ UNCHANGED << stored, present, old, stale, crashes >>

-----------------------------------------------------------------------------
\* Mutant of Swept: the sweep forgets whose mailbox is listed.
SweptEverywhere(m) == present \ old

\* List, in one step under the mailbox's mutex: sweep the old, return the rest.
Swept(m) == present \ (old \cap In(m))

List(m) ==
  /\ ~Locked(m)
  /\ present' = Swept(m) /\ old' = old \ In(m)
  /\ UNCHANGED << stored, stale, post, answers, crashes >>

\* Delete by the recipient; somebody else's id is not found.
Delete(m, i) ==
  /\ ~Locked(m) /\ i \in In(m)
  /\ present' = present \ {i} /\ old' = old \ {i}
  /\ UNCHANGED << stored, stale, post, answers, crashes >>

\* Ten minutes pass, sixty days pass.  The window closes long before the
\* retention ends.
WindowCloses(l) ==
  /\ l \notin stale /\ stale' = stale \cup {l}
  /\ UNCHANGED << stored, present, old, post, answers, crashes >>

Ages(i) ==
  /\ i \in present \ old /\ stored[i] \in stale
  /\ old' = old \cup {i}
  /\ UNCHANGED << stored, present, stale, post, answers, crashes >>

\* A statement fails and the post is answered with an error.
Fail(p) ==
  /\ ~At(p, "idle") /\ crashes < MaxCrashes /\ crashes' = crashes + 1
  /\ Refuse(p)
  /\ UNCHANGED << stored, present, old, stale >>

\* The answer to a post that has inserted its row is lost.
InsertUnanswered(p) ==
  /\ At(p, "insert") /\ crashes < MaxCrashes /\ crashes' = crashes + 1
  /\ Found(Letter(p)) = {}
  /\ stored' = [stored EXCEPT ![NextId] = Letter(p)]
  /\ present' = present \cup {NextId}
  /\ Refuse(p)
  /\ UNCHANGED << old, stale >>

\* A restart forgets the posts in progress and with them the mutexes.
Restart ==
  /\ crashes < MaxCrashes /\ crashes' = crashes + 1
  /\ post' = [p \in Posts |-> Idle]
  /\ UNCHANGED << stored, present, old, stale, answers >>

Posting(p) ==
  Lock(p) \/ Look(p) \/ Count(p) \/ Insert(p) \/ Lookup(p)

\* What goes on without the recipient.
ServerNext ==
  \/ \E p \in Posts :
       \/ \E l \in Letters : Arrive(p, l)
       \/ Posting(p) \/ Fail(p) \/ InsertUnanswered(p)
  \/ \E l \in Letters : WindowCloses(l)
  \/ \E i \in Ids : Ages(i)
  \/ Restart

-----------------------------------------------------------------------------
\* No mailbox is over its caps, whoever posts at the same time (put counts before
\* it inserts; design of the inbox, "concurrent sends cannot exceed quotas").
MailboxBounds ==
  \A m \in Mailboxes :
    /\ Cardinality(In(m)) <= MaxMailbox
    /\ \A l \in Letters : Cardinality(InFrom(m, Sender[l])) <= MaxPerSender

\* An id is answered only if it was stored for the sender and nonce of the post,
\* and posts of one sender and nonce get the same id as long as its message has
\* not been deleted: at most one of the ids ever answered is still stored
\* (findBySenderNonce before and after the insert).
SendsAgree ==
  \A l \in Letters :
    /\ \A i \in answers[l] : stored[i] # None /\ SameKey(stored[i], l)
    /\ \A i, j \in UNION { answers[k] : k \in { k \in Letters : SameKey(k, l) } } :
         i < j => i \notin present

=============================================================================
