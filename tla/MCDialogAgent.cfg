SPECIFICATION FairSpec
CONSTANTS
  Kinds = {"user", "owner", "reset", "history", "recall", "echo"}
  Modes = {"dry_run", "confirm", "auto"}
  MaxEvents = 2
  MaxPending = 1
  MaxDecisions = 1
  MaxFaults = 1
INVARIANTS
  ImportedInOrder
  PassedIsProcessed
  OneReplyPerAnswer
  EchoConfirmsReply
  HistoryNeverAnswered
PROPERTIES
  EverythingProcessed
