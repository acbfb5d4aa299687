SPECIFICATION FairSpec
\* Two batches of one process contend for a row addressed to an address: one
\* attempt and one more by an operator, one death or stall anywhere.
CONSTANTS
  Note = {n1}
  Explicit = {n1}
  Task = {t1, t2}
  Worker = {w1}
  NoWorker = NoWorker
  MaxAttempts = 1
  BatchSize = 1
  MaxReleases = 1
  Activation = {a1}
  MaxFaults = 1
  NoNote = NoNote
  NoActivation = NoActivation
INVARIANTS
  TypeOK
  AttemptLedger
  OneBody
  ReceiptsMeet
PROPERTIES
  MailingSpec
  EveryNotificationSettles
