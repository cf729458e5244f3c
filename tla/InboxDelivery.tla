------------------------------ MODULE InboxDelivery ------------------------------
(***************************************************************************)
(* The inbox from the senders' posts to the recipient's device.  The app of*)
(* the recipient polls the mailbox, writes each message to its own database*)
(* and only then deletes it on the server; a message about an object it    *)
(* already has from this sender is a reminder and goes into that item.     *)
(* Between the steps of an import, each an await, the user may pay or      *)
(* dismiss, and the app may be closed.                                     *)
(***************************************************************************)
EXTENDS Inbox

CONSTANTS
  Me,    \* the mailbox of the device's wallet
  Object \* of each letter: what the request is about

ASSUME DeliveryAssumption == Me \in Mailboxes /\ DOMAIN Object = Letters

VARIABLES
  items,  \* status of the device's item with the id of a message
  import, \* importEnvelopes in progress
  pay,    \* a payment in progress
  lapsed  \* history: ids swept by the retention

deviceVars == << items, import, pay, lapsed >>
vars == << inboxVars, deviceVars >>

Status == {"none", "actionable", "dismissed", "paid"}
Import ==
  {Idle}
    \cup [at : {"next"}, todo : SUBSET Ids]
    \cup [at : {"put", "delete"}, todo : SUBSET Ids, id : Ids]
    \cup [at : {"remind"}, todo : SUBSET Ids, id : Ids, item : Ids, status : Status]

DeliveryTypeOK ==
  /\ InboxTypeOK
  /\ items \in [Ids -> Status]
  /\ import \in Import
  /\ pay \in {Idle} \cup [at : {"sending"}, item : Ids]
  /\ lapsed \subseteq Ids

DeliveryInit ==
  /\ InboxInit
  /\ items = [i \in Ids |-> "none"]
  /\ import = Idle /\ pay = Idle /\ lapsed = {}

\* The device's item for a message: its own, or the one it is a reminder of.
SameObject(i, j) == Sender[stored[i]] = Sender[stored[j]] /\ Object[stored[i]] = Object[stored[j]]
ItemsFor(i) == { j \in Ids : items[j] # "none" /\ SameObject(i, j) }

GoNext(todo) == import' = IF todo = {} THEN Idle ELSE [at |-> "next", todo |-> todo]

-----------------------------------------------------------------------------
\* refresh: one poll at a time.
Refresh ==
  /\ import = Idle
  /\ List(Me)
  /\ GoNext(Swept(Me) \cap In(Me))
  /\ lapsed' = lapsed \cup (In(Me) \ Swept(Me))
  /\ UNCHANGED << items, pay >>

\* The oldest message next.
First(todo) == CHOOSE i \in todo : \A j \in todo : i <= j

\* Mutant of Take: the message is deleted on the server before it is stored.
TakeAndDelete ==
  /\ import.at = "next"
  /\ LET i == First(import.todo) IN
       /\ present' = present \ {i} /\ old' = old \ {i}
       /\ IF items[i] # "none" THEN GoNext(import.todo \ {i})
                               ELSE import' = [at |-> "put", todo |-> import.todo \ {i}, id |-> i]
  /\ UNCHANGED << stored, stale, post, answers, crashes, items, pay, lapsed >>

\* getById, then getByObjectId: a copy of the item is kept over the next await.
Take ==
  /\ import.at = "next"
  /\ LET i == First(import.todo)
         rest == import.todo \ {i}
     IN  \/ /\ items[i] # "none"
            /\ import' = [at |-> "delete", todo |-> rest, id |-> i]
         \/ /\ items[i] = "none" /\ ItemsFor(i) = {}
            /\ import' = [at |-> "put", todo |-> rest, id |-> i]
         \/ /\ items[i] = "none"
            /\ \E j \in ItemsFor(i) :
                 import' = [at |-> "remind", todo |-> rest, id |-> i, item |-> j, status |-> items[j]]
  /\ UNCHANGED << inboxVars, items, pay, lapsed >>

ToDelete == import' = [at |-> "delete", todo |-> import.todo, id |-> import.id]

\* A reminder re-opens a dismissed request.
PutReminder ==
  /\ import.at = "remind"
  /\ items' = [items EXCEPT ![import.item] = IF import.status = "dismissed" THEN "actionable" ELSE import.status]
  /\ ToDelete
  /\ UNCHANGED << inboxVars, pay, lapsed >>

PutNew ==
  /\ import.at = "put"
  /\ items' = [items EXCEPT ![import.id] = "actionable"]
  /\ ToDelete
  /\ UNCHANGED << inboxVars, pay, lapsed >>

\* deleteRemote; a failure, or a message that is gone, is ignored.
DeleteRemote ==
  /\ import.at = "delete"
  /\ \/ Delete(Me, import.id)
     \/ UNCHANGED inboxVars
  /\ GoNext(import.todo)
  /\ UNCHANGED << items, pay, lapsed >>

-----------------------------------------------------------------------------
\* The user pays an item: the wallet sends, then the status is stored.
Pay(i) ==
  /\ pay = Idle /\ items[i] = "actionable"
  /\ pay' = [at |-> "sending", item |-> i]
  /\ UNCHANGED << inboxVars, items, import, lapsed >>

Paid ==
  /\ pay.at = "sending"
  /\ items' = [items EXCEPT ![pay.item] = "paid"]
  /\ pay' = Idle
  /\ UNCHANGED << inboxVars, import, lapsed >>

PayFails ==
  /\ pay.at = "sending"
  /\ pay' = Idle
  /\ UNCHANGED << inboxVars, items, import, lapsed >>

Dismiss(i) ==
  /\ items[i] = "actionable"
  /\ items' = [items EXCEPT ![i] = "dismissed"]
  /\ UNCHANGED << inboxVars, import, pay, lapsed >>

CloseApp ==
  /\ import # Idle \/ pay # Idle
  /\ import' = Idle /\ pay' = Idle
  /\ UNCHANGED << inboxVars, items, lapsed >>

Device ==
  \/ Refresh \/ Take \/ PutReminder \/ PutNew \/ DeleteRemote
  \/ \E i \in Ids : Pay(i) \/ Dismiss(i)
  \/ Paid \/ PayFails \/ CloseApp

Next == (ServerNext /\ UNCHANGED deviceVars) \/ Device

Spec == DeliveryInit /\ [][Next]_vars

-----------------------------------------------------------------------------
\* A message the server accepted is in the mailbox, on the device (itself or in
\* the item it reminds of), or older than the retention: import before delete
\* loses none, however often the app is closed or a delete fails
\* (importEnvelopes).
NoMessageLost ==
  \A i \in Ids :
    stored[i] # None /\ Recipient[stored[i]] = Me => i \in present \cup lapsed \/ ItemsFor(i) # {}

\* "A reminder re-opens a dismissed request; paid stays paid."
PaidStaysPaid == [][\A i \in Ids : items[i] = "paid" => items'[i] = "paid"]_vars

=============================================================================
