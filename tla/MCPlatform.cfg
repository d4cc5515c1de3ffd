SPECIFICATION PlatformSpec
CONSTANTS
  EventTypes = {mail, order}
  MailSent = mail
  MaxAttempts = 2
  LogLimit = 1
  MaxHooks = 2
  HistoryLimit = 2
  AuditLimit = 3
  MailLimit = 2
INVARIANTS
  PlatformTypeOK
  SameStory
  WebhooksReplayed
  MailPaired
PROPERTIES
  DeliveriesExplained
