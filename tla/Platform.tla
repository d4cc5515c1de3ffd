------------------------------ MODULE Platform ------------------------------
(***************************************************************************)
(* The platform services around the event bus, seen by one tenant: the     *)
(* history of the bus, the webhooks, the audit log and the e-mails.  The   *)
(* bus and the audit log are shared: other tenants only appear by what     *)
(* they push into them.                                                    *)
(*                                                                         *)
(* publish appends to the history and calls the subscribers in the order   *)
(* of main.ts, the webhooks before the audit log, while the request that   *)
(* published waits.  The requests of the webhooks and e-mail controllers   *)
(* leave an entry of their own in the audit log when they have succeeded.  *)
(***************************************************************************)
EXTENDS Webhooks

CONSTANTS
  MailSent,      \* the event type notification.email.sent
  HistoryLimit,  \* events the bus remembers; 100 in the code
  AuditLimit,    \* audit entries kept; 500 in the code
  MailLimit      \* e-mails kept per tenant; 100 in the code

\* NoEvent says that nothing is published and is no type of an event.
ASSUME PlatformAssumption ==
  /\ MailSent \in EventTypes /\ NoEvent \notin EventTypes
  /\ HistoryLimit \in Nat /\ HistoryLimit > 0
  /\ AuditLimit \in Nat /\ AuditLimit > 0
  /\ MailLimit \in Nat /\ MailLimit > 0

VARIABLES
  history,  \* PluginEventBusService.history, oldest first
  audit,    \* AuditLogService.entries, newest first
  mails,    \* e-mails of the tenant in deliveriesByTenant: all alike, so counted
  owed      \* the request in progress sent an e-mail and has yet to record it

platform == <<history, audit, mails, owed>>
platformVars == <<vars, platform>>

Tenants == {"us", "others"}
Event == [tenant : Tenants, type : EventTypes]
OurEvent(type) == [tenant |-> "us", type |-> type]

\* The entries of the other tenants' administrators are all alike.
Actions == {"registered", "removed", "tested", "retried", "mailed"}
NoTarget == 0
AuditEntry ==
  [source : {"plugin_event"}, tenant : Tenants, action : EventTypes,
   target : {NoTarget}]
  \cup [source : {"platform"}, tenant : {"us"}, action : Actions,
        target : 0 .. MaxHooks]
  \cup [source : {"platform"}, tenant : {"others"}, action : {"any"},
        target : {NoTarget}]

\* recordPluginEvent
OfEvent(event) ==
  [source |-> "plugin_event", tenant |-> event.tenant, action |-> event.type,
   target |-> NoTarget]
OfAdmin(action, target) ==
  [source |-> "platform", tenant |-> "us", action |-> action, target |-> target]
OfOthers ==
  [source |-> "platform", tenant |-> "others", action |-> "any", target |-> NoTarget]

PlatformInit == Init /\ history = << >> /\ audit = << >> /\ mails = 0 /\ owed = FALSE

-----------------------------------------------------------------------------
(* The bus and the audit log *)

Remember(event) ==
  LET longer == Append(history, event)
  IN  history' = IF Len(longer) > HistoryLimit THEN Tail(longer) ELSE longer

\* the log is not cut
FaultyRecord(entry) == audit' = <<entry>> \o audit

Record(entry) ==
  LET longer == <<entry>> \o audit
  IN  audit' = IF Len(longer) > AuditLimit THEN Front(longer) ELSE longer

\* No request is in progress: the next one may start.
AtRest == fanOut = Idle /\ ~owed

-----------------------------------------------------------------------------
(* Requests of this tenant *)

Registration(types, failing) ==
  /\ AtRest /\ RegisterWebhook(types, failing)
  /\ Record(OfAdmin("registered", made'))
  /\ UNCHANGED <<history, mails, owed>>

\* recorded but not carried out
FaultyRemoval(k) ==
  /\ AtRest /\ UNCHANGED vars
  /\ Record(OfAdmin("removed", hooks[k].id))
  /\ UNCHANGED <<history, mails, owed>>

Removal(k) ==
  /\ AtRest /\ RemoveWebhook(k)
  /\ Record(OfAdmin("removed", hooks[k].id))
  /\ UNCHANGED <<history, mails, owed>>

Test(k) ==
  /\ AtRest /\ SendTestDelivery(k)
  /\ Record(OfAdmin("tested", hooks[k].id))
  /\ UNCHANGED <<history, mails, owed>>

\* Recorded whether or not a delivery was due.
Retry ==
  /\ AtRest /\ RetryDueDeliveries
  /\ Record(OfAdmin("retried", NoTarget))
  /\ UNCHANGED <<history, mails, owed>>

\* emitEvent of a plugin's request
Emit(type) ==
  /\ AtRest /\ Publish(type)
  /\ Remember(OurEvent(type))
  /\ UNCHANGED <<audit, mails, owed>>

\* POST /notifications/email/test with a recipient and the mock provider, the
\* only one there is: the e-mail is stored and its event published.  Any other
\* provider is answered with 400 and leaves no trace.
SendMail ==
  /\ AtRest /\ Publish(MailSent)
  /\ Remember(OurEvent(MailSent))
  /\ mails' = IF mails < MailLimit THEN mails + 1 ELSE mails
  /\ owed' = TRUE
  /\ UNCHANGED audit

\* The webhooks are told first.
Deliver == Visit /\ UNCHANGED platform

\* only what a webhook asked for is audited
FaultyAuditEvent ==
  /\ FinishEvent
  /\ IF \E k \in 1 .. Len(hooks) : fanOut.event \in hooks[k].types
     THEN Record(OfEvent(OurEvent(fanOut.event))) ELSE UNCHANGED audit
  /\ UNCHANGED <<history, mails, owed>>

\* Then the audit log, and publish returns.
AuditEvent ==
  /\ FinishEvent
  /\ Record(OfEvent(OurEvent(fanOut.event)))
  /\ UNCHANGED <<history, mails, owed>>

\* the e-mail is recorded before its event went round
FaultyRecordMail ==
  /\ owed
  /\ Record(OfAdmin("mailed", NoTarget))
  /\ owed' = FALSE
  /\ UNCHANGED <<vars, history, mails>>

RecordMail ==
  /\ fanOut = Idle /\ owed
  /\ Record(OfAdmin("mailed", NoTarget))
  /\ owed' = FALSE
  /\ UNCHANGED <<vars, history, mails>>

\* another tenant's event reaches the webhooks of this one
FaultyOthersEmit(type) ==
  /\ AtRest
  /\ Remember([tenant |-> "others", type |-> type])
  /\ Record(OfEvent([tenant |-> "others", type |-> type]))
  /\ log' = IF hooks # << >> THEN Store(log, NewDelivery(Head(hooks), FALSE)) ELSE log
  /\ UNCHANGED <<hooks, made, fanOut, mails, owed>>

\* Requests of other tenants; their events go to their own webhooks.
OthersEmit(type) ==
  /\ AtRest
  /\ Remember([tenant |-> "others", type |-> type])
  /\ Record(OfEvent([tenant |-> "others", type |-> type]))
  /\ UNCHANGED <<vars, mails, owed>>

OthersAdminister ==
  /\ AtRest
  /\ Record(OfOthers)
  /\ UNCHANGED <<vars, history, mails, owed>>

TimePasses == AtRest /\ Tick /\ UNCHANGED platform

PlatformNext ==
  \/ \E types \in SUBSET EventTypes, failing \in BOOLEAN : Registration(types, failing)
  \/ \E k \in 1 .. Len(hooks) : Removal(k) \/ Test(k)
  \/ \E type \in EventTypes \ {MailSent} : Emit(type)
  \/ \E type \in EventTypes : OthersEmit(type)
  \/ Retry \/ SendMail \/ Deliver \/ AuditEvent \/ RecordMail
  \/ OthersAdminister \/ TimePasses

PlatformSpec == PlatformInit /\ [][PlatformNext]_platformVars

-----------------------------------------------------------------------------
(* Properties *)

PlatformTypeOK ==
  /\ history \in Seq(Event) /\ Len(history) <= HistoryLimit
  /\ audit \in Seq(AuditEntry) /\ Len(audit) <= AuditLimit
  /\ mails \in 0 .. MailLimit
  /\ owed \in BOOLEAN

\* The history of the bus and the audit log tell the same story, whichever of
\* the two shared limits cuts first: where both reach, they hold the same
\* events in the same order, and an event is in the history and not in the log
\* only while its subscribers run or when AuditLimit newer entries pushed it out.
\* Handled events are the first ones of the history, oldest first; an entry's
\* rank counts the entries of events from the newest one down to it.
Handled == Len(history) - (IF fanOut = Idle THEN 0 ELSE 1)
EventEntries(n) == {i \in 1 .. n : audit[i].source = "plugin_event"}
SameStory ==
  /\ \A i \in EventEntries(Len(audit)) :
       LET rank == Cardinality(EventEntries(i))
       IN  rank <= Handled => audit[i] = OfEvent(history[Handled + 1 - rank])
  /\ Cardinality(EventEntries(Len(audit))) < Handled => Len(audit) = AuditLimit

\* The audit log explains the webhooks: what it says last of a registration is
\* what has become of it, and it only forgets one when it is full.
LifeEntries(id) ==
  {i \in DOMAIN audit : audit[i].action \in {"registered", "removed"}
                          /\ audit[i].target = id}
WebhooksReplayed ==
  \A id \in 1 .. made :
    LET entries == LifeEntries(id)
    IN  IF entries = {} THEN Len(audit) = AuditLimit
        ELSE \E last \in entries :
               /\ \A i \in entries : last <= i
               /\ Registered(id) <=> audit[last].action = "registered"

\* An e-mail leaves two entries next to each other, its event and the record of
\* its request (sendTestEmail), with nothing of the event's subscribers or of
\* other requests in between; and each pair stands for an e-mail that is kept,
\* unless MailLimit newer ones are.
Mailed == OfAdmin("mailed", NoTarget)
MailEvent == OfEvent(OurEvent(MailSent))
MailPaired ==
  /\ \A i \in DOMAIN audit :
       /\ audit[i] = Mailed /\ i < Len(audit) => audit[i + 1] = MailEvent
       /\ audit[i] = MailEvent => IF i = 1 THEN owed ELSE audit[i - 1] = Mailed
  /\ LET paired == Cardinality({i \in DOMAIN audit : audit[i] = Mailed})
     IN  mails < MailLimit => paired + (IF owed THEN 1 ELSE 0) <= mails

\* The deliveries of this tenant change for a reason one can look up: its own
\* event is the last one in the history, or its administrator's request the
\* first entry of the log.  Otherwise they only grow older.
Aged == log' = [i \in DOMAIN log |-> Older(log[i])]
Explained ==
  \/ log' = log \/ Aged
  \/ fanOut # Idle /\ Last(history) = OurEvent(fanOut.event)
  \/ \E id \in 1 .. made :
       /\ audit'[1] = OfAdmin("tested", id)
       /\ log'[1].hook = id /\ log'[1].status = "delivered"
  \/ audit'[1] = OfAdmin("retried", NoTarget) /\ Len(log') = Len(log)
DeliveriesExplained == [][Explained]_platformVars
=============================================================================
