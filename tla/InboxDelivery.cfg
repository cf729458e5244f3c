\* A request, its reminder, the nonce reused for another mailbox; one failure.
SPECIFICATION Spec
CONSTANTS
  request = request
  reminder = reminder
  other = other
  alice = alice
  bob = bob
  carol = carol
  Letters = {request, reminder, other}
  Mailboxes = {bob, carol}
  Sender <- MCSender
  Nonce <- MCNonce
  Recipient <- MCRecipient
  Object <- MCObject
  Me = bob
  Posts = {p1, p2}
  None = None
  MaxMailbox = 1
  MaxPerSender = 1
  MaxIds = 3
  MaxCrashes = 1
INVARIANTS
  DeliveryTypeOK
  MailboxBounds
  SendsAgree
  NoMessageLost
\* When the ids are used up and the device is up to date nothing is left.
CHECK_DEADLOCK FALSE
