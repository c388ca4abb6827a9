----------------------------- MODULE MailWebhook -----------------------------
(***************************************************************************)
(* The events a mail provider reports about one message                    *)
(* (mail.webhook.service.ts).  The provider repeats an event until it is   *)
(* acknowledged, possibly while an earlier delivery is being handled; the  *)
(* EmailProviderEvent row, unique per event, makes repetitions harmless.   *)
(* The worker writes the providerMessageId, by which the effects find the  *)
(* EmailJob row, after the provider has accepted the message.  Each        *)
(* database statement is one step.                                         *)
(***************************************************************************)
EXTENDS Naturals

CONSTANTS
  Events,      \* svix-ids of events about the message
  Bounces,     \* those that report a bounce or complaint; the others report delivery
  Deliveries,  \* deliveries that may be in progress at once
  NoEvent

MailWebhookAssumption == Bounces \subseteq Events /\ NoEvent \notin Events

VARIABLES
  event,        \* the EmailProviderEvent rows
  recorded,     \* the EmailJob row has the providerMessageId
  job,          \* what the events have made of the EmailJob row
  suppressed,   \* the recipient is in EmailSuppression
  handler,      \* local state of each delivery in progress
  acked,        \* events answered with success: the provider does not repeat them
  applied,      \* history: how often an event changed the EmailJob row
  excused       \* history: events whose handler died, or found no EmailJob row

webhookVars == <<event, recorded, job, suppressed, handler, acked, applied, excused>>

Handler == [pc: {"idle", "insert", "suppress", "apply", "mark"}, event: Events \union {NoEvent}]
NoDelivery == [pc |-> "idle", event |-> NoEvent]

WebhookInit ==
  /\ event = [e \in Events |-> "none"]
  /\ recorded = FALSE
  /\ job = [dead |-> FALSE, delivered |-> FALSE]
  /\ suppressed = FALSE
  /\ handler = [c \in Deliveries |-> NoDelivery]
  /\ acked = {}
  /\ applied = [e \in Events |-> 0]
  /\ excused = {}

HandlerAt(c, here) == handler[c].pc = here
HandlerGoto(c, there) == handler' = [handler EXCEPT ![c].pc = there]
HandlerEnds(c) == handler' = [handler EXCEPT ![c] = NoDelivery]

Deliver(c, e) ==
  /\ HandlerAt(c, "idle") /\ e \notin acked
  /\ handler' = [handler EXCEPT ![c] = [pc |-> "insert", event |-> e]]
  /\ UNCHANGED <<event, recorded, job, suppressed, acked, applied, excused>>

\* The event row comes first ...
InsertEvent(c) ==
  LET e == handler[c].event
  IN /\ HandlerAt(c, "insert") /\ event[e] = "none"
     /\ event' = [event EXCEPT ![e] = "stored"]
     /\ HandlerGoto(c, IF e \in Bounces THEN "suppress" ELSE "apply")
     /\ UNCHANGED <<recorded, job, suppressed, acked, applied, excused>>

\* Mutant of FindDuplicate: an event that is not marked as processed is handled again.
FindDuplicateUnmarked(c) ==
  LET e == handler[c].event
  IN /\ HandlerAt(c, "insert") /\ event[e] # "none"
     /\ IF event[e] = "stored"
        THEN HandlerGoto(c, IF e \in Bounces THEN "suppress" ELSE "apply") /\ UNCHANGED acked
        ELSE HandlerEnds(c) /\ acked' = acked \union {e}
     /\ UNCHANGED <<event, recorded, job, suppressed, applied, excused>>

\* ... and a delivery that finds it is a duplicate, whatever became of the first.
FindDuplicate(c) ==
  LET e == handler[c].event
  IN /\ HandlerAt(c, "insert") /\ event[e] # "none"
     /\ acked' = acked \union {e}
     /\ HandlerEnds(c)
     /\ UNCHANGED <<event, recorded, job, suppressed, applied, excused>>

\* Mutant of SuppressRecipient: a bounce of a suppressed recipient is done.
SuppressRecipientOnly(c) ==
  /\ HandlerAt(c, "suppress")
  /\ suppressed' = TRUE
  /\ HandlerGoto(c, IF suppressed THEN "mark" ELSE "apply")
  /\ UNCHANGED <<event, recorded, job, acked, applied, excused>>

SuppressRecipient(c) ==
  /\ HandlerAt(c, "suppress")
  /\ suppressed' = TRUE
  /\ HandlerGoto(c, "apply")
  /\ UNCHANGED <<event, recorded, job, acked, applied, excused>>

\* The update of the rows with this providerMessageId, which may match none.
ApplyEvent(c) ==
  LET e == handler[c].event
  IN /\ HandlerAt(c, "apply")
     /\ IF recorded
        THEN /\ job' = IF e \in Bounces THEN [job EXCEPT !.dead = TRUE]
                       ELSE [job EXCEPT !.delivered = TRUE]
             /\ applied' = [applied EXCEPT ![e] = @ + 1]
             /\ UNCHANGED excused
        ELSE excused' = excused \union {e} /\ UNCHANGED <<job, applied>>
     /\ HandlerGoto(c, "mark")
     /\ UNCHANGED <<event, recorded, suppressed, acked>>

\* processedAt, and the answer.
MarkProcessed(c) ==
  LET e == handler[c].event
  IN /\ HandlerAt(c, "mark")
     /\ event' = [event EXCEPT ![e] = "processed"]
     /\ acked' = acked \union {e}
     /\ HandlerEnds(c)
     /\ UNCHANGED <<recorded, job, suppressed, applied, excused>>

\* The process dies, a statement fails, or the answer is lost.
DeliveryFails(c) ==
  /\ ~HandlerAt(c, "idle")
  /\ excused' = IF HandlerAt(c, "insert") THEN excused ELSE excused \union {handler[c].event}
  /\ HandlerEnds(c)
  /\ UNCHANGED <<event, recorded, job, suppressed, acked, applied>>

WorkerRecords ==
  /\ ~recorded
  /\ recorded' = TRUE
  /\ UNCHANGED <<event, job, suppressed, handler, acked, applied, excused>>

Handle(c) ==
  \/ InsertEvent(c) \/ FindDuplicate(c) \/ SuppressRecipient(c) \/ ApplyEvent(c)
  \/ MarkProcessed(c) \/ DeliveryFails(c)

WebhookNext ==
  \/ \E c \in Deliveries : Handle(c) \/ \E e \in Events : Deliver(c, e)
  \/ WorkerRecords

WebhookSpec == WebhookInit /\ [][WebhookNext]_webhookVars

-----------------------------------------------------------------------------
(* A handler that goes on after the insert has the event's row.              *)
WebhookTypeOK ==
  /\ event \in [Events -> {"none", "stored", "processed"}]
  /\ recorded \in BOOLEAN /\ suppressed \in BOOLEAN
  /\ job \in [dead: BOOLEAN, delivered: BOOLEAN]
  /\ handler \in [Deliveries -> Handler]
  /\ acked \subseteq Events
  /\ applied \in [Events -> Nat]
  /\ excused \subseteq Events
  /\ \A c \in Deliveries :
       ~HandlerAt(c, "idle") /\ ~HandlerAt(c, "insert") => event[handler[c].event] # "none"

(* However often the provider repeats an event, and whenever its handlers    *)
(* fail, the event changes the job at most once: a job that was retried      *)
(* after a bounce is not marked dead again by the same bounce.               *)
AppliedOnce == \A e \in Events : applied[e] <= 1

(* A repetition is answered while the first delivery may still be at work.   *)
(* Yet an acknowledged event has changed the job, or a handler is going to,  *)
(* unless its handler failed or came before the worker knew the message.     *)
TakesEffect ==
  \A e \in acked : applied[e] > 0 \/ e \in excused
                   \/ \E c \in Deliveries : handler[c].event = e /\ ~HandlerAt(c, "insert")
=============================================================================
