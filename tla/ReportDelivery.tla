--------------------------- MODULE ReportDelivery ---------------------------
(***************************************************************************)
(* One report on its way to the reader, once it is assembled: the story is *)
(* asked of the language model, the push and the mail go out, and a push   *)
(* makes up for a mail that did not (cmd/healthreport/main.go, deliver.go, *)
(* llm.go under --send).                                                   *)
(*                                                                         *)
(* A request can fail before the other side has done what it asks, or      *)
(* after: an answer that is lost looks the same to the sender.             *)
(***************************************************************************)
EXTENDS ReportText

CONSTANTS
  Reports,    \* reports
  Replies     \* what the model may reply

\* A report as Compute leaves it: its lists hold the problems and nothing else,
\* and what has worsened was open before.  What DMARC says was observed, too.
ASSUME ReportsAssumption ==
  \A r \in Reports :
    /\ r # None /\ IsFiniteSet(Observed(r))
    /\ \A i \in Observed(r) : r.severity[i] \in {"info", "warn", "crit"}
    /\ Of(r, "crit") \cup Of(r, "warn") =
         ToSet(r.new) \cup ToSet(r.reopened) \cup ToSet(r.persisting)
    /\ ToSet(r.worsened) \subseteq ToSet(r.persisting)
    /\ r.state.dmarc \subseteq Observed(r)

ASSUME RepliesAssumption ==
  \A r \in Replies : r # None => r.issues \in Seq(STRING)

VARIABLES
  stage,         \* the step this invocation is at
  config,     \* the channels that are configured
  report, story,
  llm,        \* LLMStatus
  got,        \* what the reader has received
  errors      \* DeliveryErrors, as the channels they are about

deliveryVars == <<stage, config, report, story, llm, got, errors>>

Relays == <<"relay1", "relay2">>
Channels == {"push"} \cup Range(Relays)
Outcomes == {[done |-> TRUE, answered |-> TRUE], [done |-> TRUE, answered |-> FALSE],
             [done |-> FALSE, answered |-> FALSE]}

DeliveryInit ==
  /\ stage = "assembled" /\ config = [llm |-> FALSE, channels |-> {}]
  /\ report = None /\ story = None /\ llm = "disabled"
  /\ got = {} /\ errors = {}

\* Summarize is entered with the configuration and the facts of this run.
Begin ==
  /\ stage = "assembled"
  /\ report' \in Reports
  /\ config' \in [llm : BOOLEAN, channels : SUBSET Channels]
  /\ stage' = IF config'.llm THEN "load" ELSE "push"
  /\ UNCHANGED <<story, llm, got, errors>>

-----------------------------------------------------------------------------
(* The story                                                               *)

\* llmLoad: when it fails nothing is unloaded.
Load ==
  /\ stage = "load"
  /\ \/ stage' = "chat1" /\ UNCHANGED llm
     \/ stage' = "push" /\ llm' = "unavailable"
  /\ UNCHANGED <<config, report, story, got, errors>>

\* An attempt: a request that fails ends the story (HTTP 400 is tried again
\* without "think" in the same attempt), a reply that is unusable leads to
\* the second attempt.
Chat ==
  /\ stage \in {"chat1", "chat2"}
  /\ \/ /\ stage' = "unload" /\ llm' = "unavailable" /\ UNCHANGED story
     \/ \E reply \in Replies :
          LET valid == Validated(report, reply)
          IN /\ story' = valid
             /\ stage' = IF valid = None /\ stage = "chat1" THEN "chat2" ELSE "unload"
             /\ llm' = IF valid # None THEN "ok"
                       ELSE IF stage = "chat2" THEN "degraded_invalid" ELSE llm
  /\ UNCHANGED <<config, report, got, errors>>

\* llmUnload, deferred: whatever became of the story, and of this request.
Unload ==
  /\ stage = "unload"
  /\ stage' = "push"
  /\ UNCHANGED <<config, report, story, llm, got, errors>>

-----------------------------------------------------------------------------
(* Delivery                                                                *)

\* SendNtfy, with the highlights.
Push ==
  /\ stage = "push"
  /\ stage' = IF Range(Relays) \cap config.channels # {} THEN "relay1" ELSE "done"
  /\ IF "push" \notin config.channels THEN UNCHANGED <<got, errors>>
     ELSE \E o \in Outcomes :
            /\ got' = got \cup IF ~o.done THEN {}
                               ELSE {[by |-> "push", text |-> PushBody(report)]}
            /\ errors' = errors \cup IF o.answered THEN {} ELSE {"push"}
  /\ UNCHANGED <<config, report, story, llm>>

Mail(relay) ==
  {[by |-> relay, text |-> Markdown(report, story)],
   [by |-> relay, text |-> Html(report, story)]}

\* SendEmail hands the mail to one relay after the other until one has
\* answered to the end; relays that are not configured are passed over.  A
\* relay that failed before leaves an error even then.
Relay(i) ==
  /\ stage = Relays[i]
  /\ LET after == IF i = Len(Relays) THEN "fallback" ELSE Relays[i + 1]
     IN IF Relays[i] \notin config.channels
        THEN /\ stage' = IF after = "fallback" /\ errors \cap Range(Relays) = {} THEN "done"
                      ELSE after
             /\ UNCHANGED <<got, errors>>
        ELSE \E o \in Outcomes :
               /\ got' = got \cup IF o.done THEN Mail(Relays[i]) ELSE {}
               /\ errors' = errors \cup IF o.answered THEN {} ELSE {Relays[i]}
               /\ stage' = IF ~o.answered THEN after
                        ELSE IF errors \cap Range(Relays) = {} THEN "done" ELSE "backup"
  /\ UNCHANGED <<config, report, story, llm>>

NoteOnly == {}   \* mutant: the body is taken for delivered
\* The body goes along unless a backup relay has delivered it.
BodyAfter == IF stage = "backup" THEN {} ELSE {Markdown(report, story)}

\* SendNtfyEmailFailure: one message that says what went wrong with the mail,
\* and has as much of the body as a push can carry.
FallbackPush ==
  /\ stage \in {"fallback", "backup"}
  /\ stage' = "done"
  /\ IF "push" \notin config.channels THEN UNCHANGED <<got, errors>>
     ELSE \E o \in Outcomes :
            /\ got' = got \cup IF ~o.done THEN {}
                               ELSE {[by |-> "note", text |-> [failed |-> errors,
                                                               bodies |-> BodyAfter]]}
            /\ errors' = errors \cup IF o.answered THEN {} ELSE {"note"}
  /\ UNCHANGED <<config, report, story, llm>>

DeliveryNext ==
  \/ Begin
  \/ Load
  \/ Chat
  \/ Unload
  \/ Push
  \/ \E i \in DOMAIN Relays : Relay(i)
  \/ FallbackPush

DeliverySpec == DeliveryInit /\ [][DeliveryNext]_deliveryVars

-----------------------------------------------------------------------------
Body == Markdown(report, story)

\* "A dead mail path never means a silent day": once the mail was given up,
\* the body has reached the reader in a mail or a push, or each channel that
\* was tried has an error on record.
DeadMailPathIsPushed ==
  stage = "done" /\ config.channels \cap Range(Relays) # {} =>
    \/ \E g \in got : IF g.by = "note" THEN Body \in g.text.bodies ELSE g.text = Body
    \/ /\ config.channels \cap Range(Relays) \subseteq errors
       /\ "push" \in config.channels => "note" \in errors

\* Whatever the model replies, the reader is pointed to problems that were
\* observed in this very run, and to few of them.
StoryNamesOnlyFacts ==
  story # None => /\ Range(story.issues) \subseteq Observed(report)
                  /\ Len(story.issues) <= MaxIssues

\* The two alternatives of the mail name the same problems, every one that was
\* observed and as many as they count: a reader of the HTML misses none that
\* the Markdown lists.  A failure of DMARC below the limits stays "visible
\* instead of silently vanishing".
BothBodiesNameAll ==
  report # None =>
    LET m == Markdown(report, story)
        problems == Of(report, "crit") \cup Of(report, "warn")
        h == Html(report, story)
    IN /\ problems = m.new \cup m.reopened \cup m.open
       /\ problems \cup m.worsened = h.rows
       /\ h.counts.crit + h.counts.warn = Cardinality(h.rows)
       /\ \A i \in report.state.dmarc : i \in h.rows \/ <<"dmarc", i>> \in h.notes
=============================================================================
