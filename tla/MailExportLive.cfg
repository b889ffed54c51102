SPECIFICATION HFairSpec
CONSTANTS
  None = None
  Mails <- MCMails
  Contents <- MCContents
  Names = {"logo.pdf", "invoice.pdf"}
  Attachments <- MCAttachments
  Sent <- MCSent
  Name <- MCName
  Protected <- MCProtected
  Overlap = 2
  PageSize = 2
  SaveEvery = 2
  Faulty = {"list", "mail", "save", "push", "crash"}
  MaxFaults = 1
CHECK_DEADLOCK FALSE
PROPERTIES EveryFileIsFiled
