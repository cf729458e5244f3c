\* A payment is stored while an import puts back the copy of the item it read before.
SPECIFICATION Spec
CONSTANTS
  request = request
  reminder = reminder
  other = other
  alice = alice
  bob = bob
  carol = carol
  Letters = {request, reminder, other}
  Mailboxes = {bob, carol}
  Sender <- MCSender
  Nonce <- MCNonce
  Recipient <- MCRecipient
  Object <- MCObject
  Me = bob
  Posts = {p1, p2}
  None = None
  MaxMailbox = 1
  MaxPerSender = 1
  MaxIds = 3
  MaxCrashes = 1
PROPERTIES
  PaidStaysPaid
CHECK_DEADLOCK FALSE
