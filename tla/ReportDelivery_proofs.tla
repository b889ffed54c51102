----------------------- MODULE ReportDelivery_proofs -----------------------
(***************************************************************************)
(* Theorems about a report on its way to the reader (ReportDelivery,       *)
(* ReportText), for every report, every reply of the model, every set of   *)
(* configured channels and any failures; about the classification of one   *)
(* value (Severity, in the world of MCSeverity), for every rule; and about *)
(* what the collectors find and what the page about backups shows          *)
(* (ReportSources), in every world and under any set of requests that fail. *)
(***************************************************************************)
EXTENDS ReportDelivery, MCSeverity, ReportSources, FiniteSetTheorems, Loops, TLAPS

Mailers == {"relay1", "relay2"}
Tried == config.channels \cap Mailers

LEMMA RelaysAre ==
  /\ Range(Relays) = Mailers /\ DOMAIN Relays = {1, 2}
  /\ Relays[1] = "relay1" /\ Relays[2] = "relay2" /\ Len(Relays) = 2
<1>1. Relays = <<"relay1", "relay2">>
  BY DEF Relays
<1>2. DOMAIN Relays = {1, 2} /\ Relays[1] = "relay1" /\ Relays[2] = "relay2" /\ Len(Relays) = 2
  BY <1>1
<1>3. Range(Relays) = {Relays[1], Relays[2]}
  BY <1>2 DEF Range
<1>. QED
  BY <1>2, <1>3 DEF Mailers

InTheMail == \E g \in got : g.by # "note" /\ g.text = Body

\* Where the delivery is, and what has become of the relays it has tried.
DeliveryInv ==
  /\ stage \in {"assembled", "load", "chat1", "chat2", "unload", "push", "relay1"} =>
       errors \cap Mailers = {}
  /\ stage = "relay2" => /\ "relay1" \in config.channels => "relay1" \in errors
                      /\ "relay2" \notin errors
  /\ stage = "fallback" => Tried \subseteq errors
  /\ stage = "backup" => InTheMail
  /\ DeadMailPathIsPushed

LEMMA InitDelivery == DeliveryInit => DeliveryInv
BY DEF DeliveryInit, DeliveryInv, DeadMailPathIsPushed

\* A step before the mail is sent.
LEMMA StepStory ==
  ASSUME DeliveryInv,
         stage \in {"assembled", "load", "chat1", "chat2", "unload"}, UNCHANGED errors,
         stage' \in {"load", "chat1", "chat2", "unload", "push"}
  PROVE  DeliveryInv'
BY DEF DeliveryInv, DeadMailPathIsPushed

LEMMA StepPush == DeliveryInv /\ Push => DeliveryInv'
<1>. SUFFICES ASSUME DeliveryInv, Push PROVE DeliveryInv'
  OBVIOUS
<1>1. stage = "push" /\ UNCHANGED config
  BY DEF Push
<1>2. errors' \subseteq errors \cup {"push"}
  BY DEF Push
<1>3. errors' \cap Mailers = {}
  BY <1>1, <1>2 DEF DeliveryInv, Mailers
<1>4. stage' = IF Tried # {} THEN "relay1" ELSE "done"
  BY RelaysAre DEF Push, Tried
<1>5. stage' = "done" => config'.channels \cap Range(Relays) = {}
  BY <1>1, <1>4, RelaysAre DEF Tried
<1>. QED
  BY <1>3, <1>4, <1>5 DEF DeliveryInv, DeadMailPathIsPushed

\* A mail carries the body, and is no note.
LEMMA MailIsBody ==
  ASSUME NEW relay \in Mailers, Mail(relay) \subseteq got
  PROVE  InTheMail
<1>1. [by |-> relay, text |-> Markdown(report, story)] \in got
  BY DEF Mail
<1>. QED
  BY <1>1 DEF InTheMail, Body, Mailers

LEMMA MailedIsDelivered ==
  ASSUME InTheMail
  PROVE  DeadMailPathIsPushed
BY DEF InTheMail, DeadMailPathIsPushed

LEMMA StepRelay ==
  ASSUME DeliveryInv, NEW i \in DOMAIN Relays, Relay(i)
  PROVE  DeliveryInv'
<1>. DEFINE after == IF i = Len(Relays) THEN "fallback" ELSE Relays[i + 1]
<1>1. /\ stage = Relays[i] /\ i \in {1, 2} /\ UNCHANGED <<config, report, story>>
      /\ Relays[i] \in Mailers
  BY RelaysAre DEF Relay, Mailers
<1>2. CASE i = 1
  <2>1. /\ stage = "relay1" /\ Relays[i] = "relay1" /\ after = "relay2"
        /\ errors \cap Range(Relays) = {}
    BY <1>1, <1>2, RelaysAre DEF DeliveryInv
  <2>2. CASE "relay1" \notin config.channels
    <3>1. stage' = "relay2" /\ UNCHANGED <<errors, got>>
      BY <2>1, <2>2 DEF Relay
    <3>. QED
      BY <1>1, <2>1, <2>2, <3>1, RelaysAre DEF DeliveryInv, DeadMailPathIsPushed, Mailers
  <2>3. CASE "relay1" \in config.channels
    <3>1. PICK o \in Outcomes :
            /\ got' = got \cup IF o.done THEN Mail("relay1") ELSE {}
            /\ errors' = errors \cup IF o.answered THEN {} ELSE {"relay1"}
            /\ stage' = IF ~o.answered THEN "relay2" ELSE "done"
      BY <2>1, <2>3 DEF Relay
    <3>2. CASE o.answered
      <4>1. o.done
        BY <3>2 DEF Outcomes
      <4>2. InTheMail'
        BY <1>1, <3>1, <4>1, MailIsBody DEF Mailers, Mail, Body, InTheMail
      <4>. QED
        BY <3>1, <3>2, <4>2 DEF DeliveryInv, DeadMailPathIsPushed, InTheMail, Mailers
    <3>3. CASE ~o.answered
      BY <1>1, <2>1, <3>1, <3>3, RelaysAre DEF DeliveryInv, DeadMailPathIsPushed, Mailers
    <3>. QED
      BY <3>2, <3>3
  <2>. QED
    BY <2>2, <2>3
<1>3. CASE i = 2
  <2>1. /\ stage = "relay2" /\ Relays[i] = "relay2" /\ after = "fallback"
        /\ "relay1" \in config.channels => "relay1" \in errors
    BY <1>1, <1>3, RelaysAre DEF DeliveryInv
  <2>2. CASE "relay2" \notin config.channels
    <3>1. /\ stage' = IF errors \cap Range(Relays) = {} THEN "done" ELSE "fallback"
          /\ UNCHANGED <<errors, got>>
      BY <2>1, <2>2 DEF Relay
    <3>2. Tried \subseteq errors /\ (errors \cap Range(Relays) = {} => Tried = {})
      BY <2>1, <2>2, RelaysAre DEF Tried, Mailers
    <3>. QED
      BY <1>1, <3>1, <3>2, RelaysAre DEF DeliveryInv, DeadMailPathIsPushed, Tried
  <2>3. CASE "relay2" \in config.channels
    <3>1. PICK o \in Outcomes :
            /\ got' = got \cup IF o.done THEN Mail("relay2") ELSE {}
            /\ errors' = errors \cup IF o.answered THEN {} ELSE {"relay2"}
            /\ stage' = IF ~o.answered THEN "fallback"
                     ELSE IF errors \cap Range(Relays) = {} THEN "done" ELSE "backup"
      BY <2>1, <2>3 DEF Relay
    <3>2. CASE o.answered
      <4>1. o.done
        BY <3>2 DEF Outcomes
      <4>2. InTheMail'
        BY <1>1, <3>1, <4>1, MailIsBody DEF Mailers, Mail, Body, InTheMail
      <4>. QED
        BY <3>1, <3>2, <4>2 DEF DeliveryInv, DeadMailPathIsPushed, InTheMail
    <3>3. CASE ~o.answered
      <4>1. stage' = "fallback" /\ Tried' \subseteq errors'
        BY <1>1, <2>1, <3>1, <3>3 DEF Tried, Mailers
      <4>. QED
        BY <4>1 DEF DeliveryInv, DeadMailPathIsPushed
    <3>. QED
      BY <3>2, <3>3
  <2>. QED
    BY <2>2, <2>3
<1>. QED
  BY <1>1, <1>2, <1>3

LEMMA StepFallback == DeliveryInv /\ FallbackPush => DeliveryInv'
<1>. SUFFICES ASSUME DeliveryInv, FallbackPush PROVE DeliveryInv'
  OBVIOUS
<1>1. stage' = "done" /\ UNCHANGED <<config, report, story>>
  BY DEF FallbackPush
<1>2. got \subseteq got' /\ errors \subseteq errors'
  BY DEF FallbackPush
<1>3. CASE stage = "backup"
  <2>1. InTheMail'
    BY <1>1, <1>2, <1>3 DEF DeliveryInv, InTheMail, Body
  <2>. QED
    BY <1>1, <2>1 DEF DeliveryInv, DeadMailPathIsPushed, InTheMail
<1>4. CASE stage # "backup"
  <2>1. stage = "fallback" /\ Tried \subseteq errors /\ BodyAfter = {Body}
    BY <1>4 DEF FallbackPush, DeliveryInv, BodyAfter, Body
  <2>2. config'.channels \cap Range(Relays) \subseteq errors'
    BY <1>1, <1>2, <2>1, RelaysAre DEF Tried
  <2>3. ASSUME "push" \in config.channels
        PROVE  \/ "note" \in errors'
               \/ \E g \in got' : g.by = "note" /\ Body' \in g.text.bodies
    <3>1. PICK o \in Outcomes :
            /\ got' = got \cup IF ~o.done THEN {}
                              ELSE {[by |-> "note", text |-> [failed |-> errors,
                                                              bodies |-> BodyAfter]]}
            /\ errors' = errors \cup IF o.answered THEN {} ELSE {"note"}
      BY <2>3 DEF FallbackPush
    <3>2. o.done \/ ~o.answered
      BY DEF Outcomes
    <3>3. Body' = Body
      BY <1>1 DEF Body
    <3>4. CASE o.done
      <4>1. [by |-> "note", text |-> [failed |-> errors, bodies |-> {Body}]] \in got'
        BY <2>1, <3>1, <3>4
      <4>. QED
        BY <3>3, <4>1
    <3>5. CASE ~o.answered
      BY <3>1, <3>5
    <3>. QED
      BY <3>2, <3>4, <3>5
  <2>. QED
    BY <1>1, <2>2, <2>3 DEF DeliveryInv, DeadMailPathIsPushed
<1>. QED
  BY <1>3, <1>4

LEMMA StepDelivery == DeliveryInv /\ [DeliveryNext]_deliveryVars => DeliveryInv'
<1>. SUFFICES ASSUME DeliveryInv, [DeliveryNext]_deliveryVars PROVE DeliveryInv'
  OBVIOUS
<1>1. CASE Begin
  <2>1. /\ stage = "assembled" /\ UNCHANGED errors
        /\ stage' = "load" \/ stage' = "push"
    BY <1>1 DEF Begin
  <2>. QED
    BY <2>1, StepStory
<1>2. CASE Load
  BY <1>2, StepStory DEF Load
<1>3. CASE Chat
  <2>1. /\ stage \in {"chat1", "chat2"} /\ UNCHANGED errors
        /\ stage' = "unload" \/ stage' = "chat2"
    BY <1>3, Zenon DEF Chat
  <2>. QED
    BY <2>1, StepStory
<1>4. CASE Unload
  BY <1>4, StepStory DEF Unload
<1>5. CASE UNCHANGED deliveryVars
  BY <1>5 DEF deliveryVars, DeliveryInv, DeadMailPathIsPushed, InTheMail, Body, Tried
<1>. QED
  BY <1>1, <1>2, <1>3, <1>4, <1>5, StepPush, StepRelay, StepFallback DEF DeliveryNext

\* Whatever is configured and whatever fails: a delivery that is over has
\* brought the body to the reader, or has an error for each channel it tried.
THEOREM DeadMailPathIsAlwaysPushed ==
  DeliverySpec => []DeadMailPathIsPushed
<1>1. DeliveryInv => DeadMailPathIsPushed
  BY DEF DeliveryInv
<1>. QED
  BY <1>1, InitDelivery, StepDelivery, PTL DEF DeliverySpec
-----------------------------------------------------------------------------
(* What the reader is shown                                                *)

ReportType == report \in Reports \cup {None}

LEMMA ReportStays == ReportType /\ [DeliveryNext]_deliveryVars => ReportType'
BY DEF ReportType, DeliveryNext, Begin, Load, Chat, Unload, Push, Relay, FallbackPush,
       deliveryVars

\* The loop over the issues of a reply, whatever they are: its invariant is
\* that what is kept so far is of this run and within the limit.
LEMMA TopIssuesAreKnown ==
  ASSUME NEW r, NEW S, NEW issues \in Seq(S)
  PROVE  /\ TopIssues(r, issues) \in Seq(Observed(r))
         /\ Len(TopIssues(r, issues)) <= MaxIssues
<1>. DEFINE N == Len(issues)
            Fine == {s \in Seq(Observed(r)) : Len(s) <= MaxIssues}
            Add(x, n) == IF KnownId(r, issues[n]) /\ Len(x) < MaxIssues
                         THEN Append(x, issues[n]) ELSE x
            Round == [n \in 1..N |-> [x \in Fine |-> Add(x, n)]]
            kept == CHOOSE f : f = [n \in 0..N |->
                      IF n = 0 THEN <<>>
                      ELSE IF KnownId(r, issues[n]) /\ Len(f[n - 1]) < MaxIssues
                           THEN Append(f[n - 1], issues[n]) ELSE f[n - 1]]
<1>1. N \in Nat /\ <<>> \in Fine
  BY LimitsAssumption
<1>2. ASSUME NEW x \in Fine, NEW n \in 1..N PROVE Add(x, n) \in Fine
  BY <1>2, LimitsAssumption DEF KnownId
<1>3. Round \in [1..N -> [Fine -> Fine]]
  <2>. HIDE DEF Add, Fine, N
  <2>. QED
    BY <1>2
<1>4. PICK f \in [0..N -> Fine] : IsLoop(f, N, <<>>, Round)
  <2>. HIDE DEF Fine, Round, N
  <2>. QED
    BY <1>1, <1>3, LoopExists
<1>5. f = [n \in 0..N |-> IF n = 0 THEN <<>> ELSE Add(f[n - 1], n)]
  <2>. HIDE DEF N, Add, Fine
  <2>1. ASSUME NEW n \in 0..N
        PROVE  f[n] = IF n = 0 THEN <<>> ELSE Add(f[n - 1], n)
    <3>1. f[n] = IF n = 0 THEN <<>> ELSE Round[n][f[n - 1]]
      <4>. HIDE DEF Round
      <4>. QED
        BY <1>4 DEF IsLoop
    <3>2. n # 0 => n \in 1..N /\ n - 1 \in 0..N
      BY <1>1
    <3>. QED
      BY <3>1, <3>2
  <2>. QED
    BY <2>1
<1>6. kept = [n \in 0..N |->
                IF n = 0 THEN <<>>
                ELSE IF KnownId(r, issues[n]) /\ Len(kept[n - 1]) < MaxIssues
                     THEN Append(kept[n - 1], issues[n]) ELSE kept[n - 1]]
  BY <1>5, Zenon
<1>7. \A n \in 0..N : kept[n] \in Fine
  <2>. HIDE DEF kept
  <2>1. kept[0] \in Fine
    BY <1>1, <1>6
  <2>2. \A n \in 1..N : kept[n] = Add(kept[n - 1], n)
    <3>1. \A n \in 1..N : n \in 0..N /\ n # 0
      BY <1>1
    <3>. HIDE DEF N
    <3>. QED
      BY <1>6, <3>1
  <2>. HIDE DEF Fine, Add, N
  <2>3. \A n \in 1..N : kept[n - 1] \in Fine => kept[n] \in Fine
    BY <1>2, <2>2
  <2>. QED
    BY <1>1, <2>1, <2>3, LoopInvariant
<1>8. TopIssues(r, issues) = kept[N]
  BY Zenon DEF TopIssues
<1>9. TopIssues(r, issues) \in Fine
  <2>. HIDE DEF kept, Fine, N
  <2>. QED
    BY <1>1, <1>7, <1>8
<1>. QED
  BY <1>9

\* The story there is is about the report there is.
StoryInv ==
  /\ stage = "assembled" => story = None
  /\ StoryNamesOnlyFacts

LEMMA ValidatedNamesFacts ==
  ASSUME NEW r, NEW reply \in Replies, Validated(r, reply) # None
  PROVE  /\ Range(Validated(r, reply).issues) \subseteq Observed(r)
         /\ Len(Validated(r, reply).issues) <= MaxIssues
<1>1. reply.issues \in Seq(STRING) /\ Validated(r, reply).issues = TopIssues(r, reply.issues)
  BY RepliesAssumption DEF Validated
<1>2. /\ TopIssues(r, reply.issues) \in Seq(Observed(r))
      /\ Len(TopIssues(r, reply.issues)) <= MaxIssues
  BY <1>1, TopIssuesAreKnown
<1>. QED
  BY <1>1, <1>2 DEF Range

LEMMA StepNarrative == StoryInv /\ [DeliveryNext]_deliveryVars => StoryInv'
<1>. SUFFICES ASSUME StoryInv, [DeliveryNext]_deliveryVars PROVE StoryInv'
  OBVIOUS
<1>1. CASE Begin
  BY <1>1 DEF Begin, StoryInv, StoryNamesOnlyFacts
<1>2. CASE Chat
  <2>1. stage' # "assembled" /\ report' = report
    BY <1>2 DEF Chat
  <2>2. story' = story \/ \E reply \in Replies : story' = Validated(report, reply)
    BY <1>2 DEF Chat
  <2>. QED
    BY <2>1, <2>2, ValidatedNamesFacts DEF StoryInv, StoryNamesOnlyFacts
<1>3. CASE Load \/ Unload \/ Push \/ FallbackPush
  BY <1>3 DEF Load, Unload, Push, FallbackPush, StoryInv, StoryNamesOnlyFacts
<1>4. ASSUME NEW i \in DOMAIN Relays, Relay(i) PROVE StoryInv'
  <2>1. stage' \in {"fallback", "done", "backup", "relay1", "relay2"}
    BY <1>4, RelaysAre DEF Relay
  <2>2. story' = story /\ report' = report
    BY <1>4 DEF Relay
  <2>. QED
    BY <2>1, <2>2 DEF StoryInv, StoryNamesOnlyFacts
<1>5. CASE UNCHANGED deliveryVars
  BY <1>5 DEF deliveryVars, StoryInv, StoryNamesOnlyFacts
<1>. QED
  BY <1>1, <1>2, <1>3, <1>4, <1>5 DEF DeliveryNext

\* Whatever the model replies and however often it is asked, the story points
\* to observations of this run, and to no more of them than the limit.
THEOREM StoryAlwaysNamesFacts == DeliverySpec => []StoryNamesOnlyFacts
<1>1. DeliveryInit => StoryInv
  BY DEF DeliveryInit, StoryInv, StoryNamesOnlyFacts
<1>2. StoryInv => StoryNamesOnlyFacts
  BY DEF StoryInv
<1>. QED
  BY <1>1, <1>2, StepNarrative, PTL DEF DeliverySpec

\* The rows of a list of observed IDs are the list.
LEMMA RowsOfObserved ==
  ASSUME NEW r, NEW ids, ToSet(ids) \subseteq Observed(r)
  PROVE  Rows(r, ids) = ToSet(ids)
BY DEF Rows

LEMMA LevelsCount ==
  ASSUME NEW r \in Reports
  PROVE  Cardinality(Of(r, "crit")) + Cardinality(Of(r, "warn")) =
           Cardinality(Of(r, "crit") \cup Of(r, "warn"))
<1>1. Of(r, "crit") \subseteq Observed(r) /\ Of(r, "warn") \subseteq Observed(r)
  BY DEF Of
<1>2. IsFiniteSet(Of(r, "crit")) /\ IsFiniteSet(Of(r, "warn"))
  BY <1>1, ReportsAssumption, FS_Subset
<1>3. Of(r, "crit") \cap Of(r, "warn") = {}
  BY DEF Of
<1>4. Cardinality(Of(r, "crit") \cap Of(r, "warn")) = 0
  BY <1>3, FS_EmptySet
<1>5. /\ Cardinality(Of(r, "crit")) \in Nat /\ Cardinality(Of(r, "warn")) \in Nat
      /\ Cardinality(Of(r, "crit") \cup Of(r, "warn")) =
           Cardinality(Of(r, "crit")) + Cardinality(Of(r, "warn"))
             - Cardinality(Of(r, "crit") \cap Of(r, "warn"))
  BY <1>2, FS_Union, FS_CardinalityType
<1>. QED
  BY <1>4, <1>5

LEMMA BodiesNameAll == ReportType => BothBodiesNameAll
<1>. SUFFICES ASSUME ReportType, report # None PROVE BothBodiesNameAll
  BY DEF BothBodiesNameAll
<1>. DEFINE problems == Of(report, "crit") \cup Of(report, "warn")
            m == Markdown(report, story)
            h == Html(report, story)
<1>1. report \in Reports
  BY DEF ReportType
<1>2. /\ problems = ToSet(report.new) \cup ToSet(report.reopened)
                      \cup ToSet(report.persisting)
      /\ ToSet(report.worsened) \subseteq ToSet(report.persisting)
      /\ problems \subseteq Observed(report)
  BY <1>1, ReportsAssumption DEF Of
<1>3. /\ Rows(report, report.new) = ToSet(report.new)
      /\ Rows(report, report.reopened) = ToSet(report.reopened)
      /\ Rows(report, report.persisting) = ToSet(report.persisting)
  BY <1>2, RowsOfObserved
<1>4. /\ m.new = ToSet(report.new) /\ m.reopened = ToSet(report.reopened)
      /\ m.open = ToSet(report.persisting) /\ m.worsened = ToSet(report.worsened)
  BY <1>3 DEF Markdown
<1>5. h.rows = problems
  BY <1>2, <1>3 DEF Html, HtmlRows
<1>6. h.counts.crit + h.counts.warn = Cardinality(h.rows)
  <2>1. /\ h.counts.crit = Cardinality(Of(report, "crit"))
        /\ h.counts.warn = Cardinality(Of(report, "warn"))
    BY DEF Html, Counts
  <2>. QED
    BY <1>1, <1>5, <2>1, LevelsCount
<1>7. ASSUME NEW i \in report.state.dmarc
      PROVE  i \in h.rows \/ <<"dmarc", i>> \in h.notes
  <2>1. i \in Observed(report) /\ report.severity[i] \in {"info", "warn", "crit"}
    BY <1>1, ReportsAssumption
  <2>2. CASE report.severity[i] = "info"
    <3>1. i \in report.state.dmarc \cap Of(report, "info")
      BY <2>1, <2>2 DEF Of
    <3>2. <<"dmarc", i>> \in StateNotes(report)
      BY <3>1 DEF StateNotes
    <3>. QED
      BY <3>2 DEF Html
  <2>3. CASE report.severity[i] # "info"
    BY <1>5, <2>1, <2>3 DEF Of
  <2>. QED
    BY <2>2, <2>3
<1>. HIDE DEF problems, m, h
<1>8. /\ problems = m.new \cup m.reopened \cup m.open
      /\ problems \cup m.worsened = h.rows
  BY <1>2, <1>4, <1>5
<1>. QED
  BY <1>6, <1>7, <1>8 DEF BothBodiesNameAll, problems, m, h

\* The two alternatives of the mail name the same problems, all of them, and as
\* many as they count.
THEOREM BothBodiesAlwaysNameAll == DeliverySpec => []BothBodiesNameAll
<1>1. DeliveryInit => ReportType
  BY DEF DeliveryInit, ReportType
<1>. QED
  BY <1>1, ReportStays, BodiesNameAll, PTL DEF DeliverySpec

-----------------------------------------------------------------------------
(* Severity: the classification of one observation.                        *)

SeverityType ==
  /\ rule \in NumericRules
  /\ obs \in [subject: {""}, number: Values, previous: Limits,
              age: Ages \cup {None}]

LEMMA SeverityTypeInductive == SeverityType /\ [Worse]_severityVars => SeverityType'
BY DEF SeverityType, Worse, severityVars

\* What Classify comes down to for a numeric rule.
LEMMA NumericRank ==
  ASSUME NEW r \in NumericRules, NEW o, o.number # None
  PROVE  Rank(r, o) =
           SeverityRank(IF r.type = "threshold"
                        THEN IF OldEnough(r, o) THEN BreachedLevel(r, o.number)
                             ELSE "info"
                        ELSE IF BreachedLevel(r, o.number) = "info" /\ Spikes(r, o)
                             THEN "warn" ELSE BreachedLevel(r, o.number))
BY DEF Rank, Classify, InScope, Threshold, ThresholdOrSpike, NumericRules

LEMMA SpikeOnlyAdds == SeverityType => SpikeWidensCoverage
<1>. SUFFICES ASSUME SeverityType, rule.type = "threshold_or_spike"
              PROVE  Rank(rule, obs) >=
                       Rank([rule EXCEPT !.type = "threshold", !.minAge = None], obs)
  BY DEF SpikeWidensCoverage
<1>. DEFINE plain == [rule EXCEPT !.type = "threshold", !.minAge = None]
<1>1. /\ plain \in NumericRules /\ plain.type = "threshold" /\ plain.minAge = None
      /\ plain.warn = rule.warn /\ plain.crit = rule.crit
      /\ plain.direction = rule.direction
  BY DEF SeverityType, NumericRules
<1>2. obs.number # None
  BY ValuesAssumption DEF SeverityType
<1>3. BreachedLevel(plain, obs.number) = BreachedLevel(rule, obs.number)
  BY <1>1 DEF BreachedLevel, Breaches
<1>4. Rank(plain, obs) = SeverityRank(BreachedLevel(rule, obs.number))
  BY <1>1, <1>2, <1>3, NumericRank DEF OldEnough
<1>5. Rank(rule, obs) =
        SeverityRank(IF BreachedLevel(rule, obs.number) = "info" /\ Spikes(rule, obs)
                     THEN "warn" ELSE BreachedLevel(rule, obs.number))
  BY <1>2, NumericRank DEF SeverityType
<1>. QED
  BY <1>4, <1>5 DEF SeverityRank, BreachedLevel

\* "Widens coverage rather than trading one signal for another": a rule with a
\* spike never classifies milder than its limits alone would.
THEOREM SpikesOnlyWiden == SeveritySpec => []SpikeWidensCoverage
<1>1. SeverityInit => SeverityType
  BY DEF SeverityInit, SeverityType
<1>. QED
  BY <1>1, SeverityTypeInductive, SpikeOnlyAdds, PTL DEF SeveritySpec

LEMMA BreachStays ==
  ASSUME SeverityType, Worse, NEW limit \in Limits, Breaches(rule, obs.number, limit)
  PROVE  Breaches(rule, obs'.number, limit)
<1>1. obs.number \in Int /\ (limit # None => limit \in Int)
  BY ValuesAssumption DEF SeverityType, Limits
<1>2. /\ rule.direction = "above" => obs'.number = obs.number + 1
      /\ rule.direction # "above" => obs'.number = obs.number - 1
  BY DEF Worse, SeverityType
<1>. QED
  BY <1>1, <1>2 DEF Breaches

LEMMA SpikeStays ==
  ASSUME SeverityType, Worse, rule.direction = "above", Spikes(rule, obs)
  PROVE  Spikes(rule, obs')
<1>1. /\ obs.number \in Int /\ rule.floor \in Int /\ rule.factor \in Int
      /\ obs.previous # None => obs.previous \in Int
  BY ValuesAssumption DEF SeverityType, Limits, NumericRules
<1>2. obs'.number = obs.number + 1 /\ obs'.previous = obs.previous
  BY DEF Worse, SeverityType
<1>3. obs.previous \in Int
  BY <1>1 DEF Spikes
<1>4. obs.previous * rule.factor \in Int
  BY <1>1, <1>3
<1>5. /\ obs.number >= rule.floor => obs.number + 1 >= rule.floor
      /\ obs.number >= obs.previous * rule.factor =>
           obs.number + 1 >= obs.previous * rule.factor
  BY <1>1, <1>4
<1>. QED
  BY <1>2, <1>5 DEF Spikes

LEMMA WorseRanksNoLower ==
  ASSUME SeverityType, SeverityType', Worse,
         rule.type = "threshold" \/ rule.direction = "above"
  PROVE  Rank(rule, obs') >= Rank(rule, obs)
<1>1. /\ rule \in NumericRules /\ rule.crit \in Limits /\ rule.warn \in Limits
      /\ rule.type \in {"threshold", "threshold_or_spike"}
  BY DEF SeverityType, NumericRules
<1>2. obs.number # None /\ obs'.number # None
  BY ValuesAssumption DEF SeverityType
<1>3. SeverityRank(BreachedLevel(rule, obs'.number)) >=
        SeverityRank(BreachedLevel(rule, obs.number))
  BY <1>1, BreachStays DEF BreachedLevel, SeverityRank
<1>4. CASE rule.type = "threshold"
  <2>1. OldEnough(rule, obs') <=> OldEnough(rule, obs)
    BY DEF OldEnough, Worse, SeverityType
  <2>. QED
    BY <1>1, <1>2, <1>3, <1>4, <2>1, NumericRank DEF SeverityRank
<1>5. CASE rule.type # "threshold"
  <2>1. Spikes(rule, obs) => Spikes(rule, obs')
    BY <1>5, SpikeStays
  <2>. QED
    BY <1>1, <1>2, <1>3, <1>5, <2>1, NumericRank DEF SeverityRank, BreachedLevel
<1>. QED
  BY <1>4, <1>5

\* A value that gets worse is never classified milder.
THEOREM WorseIsNeverMilder == SeveritySpec => WorseIsNoMilder
<1>1. SeverityInit => SeverityType
  BY DEF SeverityInit, SeverityType
<1>2. SeverityType /\ SeverityType' /\ [Worse]_severityVars =>
        [rule.type = "threshold" \/ rule.direction = "above" =>
           Rank(rule, obs') >= Rank(rule, obs)]_severityVars
  BY WorseRanksNoLower
<1>. QED
  BY <1>1, <1>2, SeverityTypeInductive, PTL DEF SeveritySpec, WorseIsNoMilder

-----------------------------------------------------------------------------
(* What the collectors observe                                             *)

\* The kinds of the observations about the log of a nightly backup, and about a
\* host that could not be asked for it.
BackupKinds == {"backup_missing", "backup_incomplete", "backup_in_progress",
                "backup_failures", "backup_service_failed", "facts_unreachable"}

\* What else is observed of a host.
FactKinds ==
  {"security_updates", "reboot_required", "crowdsec_absent", "crowdsec_decisions",
   "crowdsec_bouncer", "crowdsec_agent_stale", "firewall_rules", "backup_target_usage",
   "kernel_storage_errors", "time_unsynchronised", "time_offset", "backup_age",
   "backup_verification", "backup_verification_stale", "backup_restore_verification",
   "backup_restore_verification_stale", "backup_verification_failed", "backup_history",
   "backup_history_failed", "mdraid_degraded", "lvm_usage", "array_state",
   "parity_sync_errors", "parity_check_age", "array_disk", "reallocated_sectors",
   "pending_sectors", "docker_image_usage", "unraid_notification", "backup_drift",
   "facts_section_failed"}

\* An observation of one of some kinds, about a host.
Tells(o, h, K) == \E k \in K : \E p, v : o = <<k, h, p, v>>

LEMMA TellsIs ==
  ASSUME NEW o, NEW h, NEW K, Tells(o, h, K)
  PROVE  o[1] \in K /\ o[2] = h
<1>1. PICK k \in K : \E p, v : o = <<k, h, p, v>>
  BY DEF Tells
<1>2. PICK p, v : o = <<k, h, p, v>>
  BY <1>1
<1>. QED
  BY <1>2

LEMMA RockyFacts ==
  ASSUME NEW h, NEW s
  PROVE  /\ \A o \in Hosts!BackupLog(h, s) : Tells(o, h, BackupKinds \cup {"backup_age"})
         /\ \A o \in Hosts!RockyObservations(h, s) \ Hosts!BackupLog(h, s) : Tells(o, h, FactKinds)
<1>1. ASSUME NEW o \in Hosts!SecurityUpdates(h, s) PROVE Tells(o, h, FactKinds)
  BY DEF Hosts!SecurityUpdates, Hosts!When, Tells, FactKinds
<1>2. ASSUME NEW o \in Hosts!Crowdsec(h, s) PROVE Tells(o, h, FactKinds)
  BY DEF Hosts!Crowdsec, Hosts!CrowdsecAgents, Tells, FactKinds
<1>3. ASSUME NEW o \in Hosts!Firewall(h, s) PROVE Tells(o, h, FactKinds)
  BY DEF Hosts!Firewall, Tells, FactKinds
<1>4. ASSUME NEW o \in Hosts!BackupTargets(h, s) PROVE Tells(o, h, FactKinds)
  BY DEF Hosts!BackupTargets, Tells, FactKinds
<1>5. ASSUME NEW o \in Hosts!KernelErrors(h, s) PROVE Tells(o, h, FactKinds)
  BY DEF Hosts!KernelErrors, Tells, FactKinds
<1>6. ASSUME NEW o \in Hosts!Clock(h, s) PROVE Tells(o, h, FactKinds)
  BY DEF Hosts!Clock, Hosts!When, Tells, FactKinds
<1>7. ASSUME NEW o \in Hosts!BackupLog(h, s) PROVE Tells(o, h, BackupKinds \cup {"backup_age"})
  BY DEF Hosts!BackupLog, Tells, BackupKinds
<1>8. ASSUME NEW o \in Hosts!BackupVerification(h, s) PROVE Tells(o, h, FactKinds)
  <2>1. ASSUME NEW check, NEW age,
               NEW r \in Hosts!Verification(h, "backup_verification",
                                            "backup_verification_stale", check, age)
        PROVE  Tells(r, h, FactKinds)
    BY DEF Hosts!Verification, Hosts!When, Tells, FactKinds
  <2>2. ASSUME NEW check, NEW age,
               NEW r \in Hosts!Verification(h, "backup_restore_verification",
                                            "backup_restore_verification_stale",
                                            check, age)
        PROVE  Tells(r, h, FactKinds)
    BY DEF Hosts!Verification, Hosts!When, Tells, FactKinds
  <2>3. Tells(<<"backup_restore_verification_stale", h, "", TRUE>>, h, FactKinds)
        /\ Tells(<<"backup_verification_failed", h, "", TRUE>>, h, FactKinds)
    BY DEF Tells, FactKinds
  <2>. QED
    BY <2>1, <2>2, <2>3 DEF Hosts!BackupVerification, Hosts!When
<1>. QED
  BY <1>1, <1>2, <1>3, <1>4, <1>5, <1>6, <1>7, <1>8 DEF Hosts!RockyObservations

LEMMA UgreenFacts ==
  ASSUME NEW h, NEW s
  PROVE  \A o \in Hosts!UgreenObservations(h, s) : Tells(o, h, FactKinds)
<1>. SUFFICES ASSUME NEW o \in Hosts!UgreenObservations(h, s)
              PROVE  Tells(o, h, FactKinds)
  OBVIOUS
<1>1. \/ \E d \in Hosts!Data(s, "backup_history") :
           o \in {<<"backup_history", h, "", d.state>>} \cup
             Hosts!When(d.state # "ready", {<<"backup_history_failed", h, "", d.state>>})
      \/ \E u \in Hosts!Data(s, "ugreen_storage") :
           o \in {<<"mdraid_degraded", h, a, TRUE>> : a \in u.degraded} \cup
             {<<"lvm_usage", h, v, u.lvm[v]>> :
                v \in {x \in DOMAIN u.lvm : u.lvm[x] # None}}
  BY Zenon DEF Hosts!UgreenObservations
<1>2. CASE \E d : o \in {<<"backup_history", h, "", d.state>>} \cup
             Hosts!When(d.state # "ready", {<<"backup_history_failed", h, "", d.state>>})
  BY <1>2 DEF Hosts!When, Tells, FactKinds
<1>3. CASE \E u : o \in {<<"mdraid_degraded", h, a, TRUE>> : a \in u.degraded} \cup
             {<<"lvm_usage", h, v, u.lvm[v]>> :
                v \in {x \in DOMAIN u.lvm : u.lvm[x] # None}}
  BY <1>3 DEF Tells, FactKinds
<1>. QED
  BY <1>1, <1>2, <1>3

LEMMA UnraidFacts ==
  ASSUME NEW h, NEW s
  PROVE  \A o \in Hosts!UnraidObservations(h, s) : Tells(o, h, FactKinds)
<1>1. ASSUME NEW o \in Hosts!UnraidArray(h, s) PROVE Tells(o, h, FactKinds)
  BY DEF Hosts!UnraidArray, Tells, FactKinds
<1>2. ASSUME NEW o \in Hosts!Smart(h, s) PROVE Tells(o, h, FactKinds)
  BY DEF Hosts!Smart, Hosts!SmartFields, Tells, FactKinds
<1>3. ASSUME NEW o \in Hosts!DockerImage(h, s) PROVE Tells(o, h, FactKinds)
  BY DEF Hosts!DockerImage, Tells, FactKinds
<1>4. ASSUME NEW o \in Hosts!Notifications(h, s) PROVE Tells(o, h, FactKinds)
  BY DEF Hosts!Notifications, Tells, FactKinds
<1>5. ASSUME NEW o \in Hosts!BackupDrift(h, s) PROVE Tells(o, h, FactKinds)
  BY DEF Hosts!BackupDrift, Tells, FactKinds
<1>. QED
  BY <1>1, <1>2, <1>3, <1>4, <1>5 DEF Hosts!UnraidObservations


LEMMA HostFacts ==
  ASSUME NEW h, NEW s, NEW o \in Hosts!HostObservations(h, s)
  PROVE  /\ o[2] = h
         /\ o[1] \in BackupKinds =>
              IF s = None THEN o = <<"facts_unreachable", h, "", TRUE>>
              ELSE o \in Hosts!BackupLog(h, s)
<1>1. BackupKinds \cap FactKinds = {}
  BY DEF BackupKinds, FactKinds
<1>2. CASE s = None
  <2>1. o = <<"facts_unreachable", h, "", TRUE>>
    BY <1>2 DEF Hosts!HostObservations
  <2>2. o[2] = h
    BY <2>1
  <2>. QED
    BY <1>2, <2>1, <2>2
<1>3. CASE s # None /\ o \in Hosts!BackupLog(h, s)
  BY <1>3, RockyFacts, TellsIs
<1>4. CASE s # None /\ o \notin Hosts!BackupLog(h, s)
  <2>1. ASSUME o \in Hosts!SectionsFailed(h, s) PROVE Tells(o, h, FactKinds)
    BY <2>1 DEF Hosts!SectionsFailed, Tells, FactKinds
  <2>2. Tells(o, h, FactKinds)
    BY <1>4, <2>1, RockyFacts, UgreenFacts, UnraidFacts DEF Hosts!HostObservations
  <2>. QED
    BY <1>1, <1>4, <2>2, TellsIs
<1>. QED
  BY <1>2, <1>3, <1>4

LEMMA FactsAreOfHosts ==
  ASSUME NEW a
  PROVE  /\ \A o \in Hosts!CollectSSHFacts(a).obs :
              o[2] \in DOMAIN a /\ o \in Hosts!HostObservations(o[2], a[o[2]])
         /\ \A h \in DOMAIN a :
              Hosts!HostObservations(h, a[h]) \subseteq Hosts!CollectSSHFacts(a).obs
<1>1. CASE DOMAIN a = {}
  BY <1>1 DEF Hosts!CollectSSHFacts, Hosts!Unavailable
<1>2. CASE DOMAIN a # {}
  <2>1. Hosts!CollectSSHFacts(a).obs = UNION {Hosts!HostObservations(h, a[h]) : h \in DOMAIN a}
    BY <1>2 DEF Hosts!CollectSSHFacts
  <2>2. ASSUME NEW o \in Hosts!CollectSSHFacts(a).obs
        PROVE  o[2] \in DOMAIN a /\ o \in Hosts!HostObservations(o[2], a[o[2]])
    <3>1. PICK h \in DOMAIN a : o \in Hosts!HostObservations(h, a[h])
      BY <2>1
    <3>2. o[2] = h
      BY <3>1, HostFacts
    <3>. QED
      BY <3>1, <3>2
  <2>. QED
    BY <2>1, <2>2
<1>. QED
  BY <1>1, <1>2

-----------------------------------------------------------------------------
(* Nothing is lost without a word                                          *)

\* What a collector's own result says about an observation it should have made.
Told(c, result, o) ==
  \/ result.status # "ok"
  \/ Hosts!Id(o) \in {Hosts!Id(p) : p \in result.obs}
  \/ /\ c = "ssh_facts"
     /\ \E p \in result.obs :
          p[1] \in {"facts_unreachable", "facts_section_failed"} /\ p[2] = o[2]
  \/ /\ c = "host_metrics"
     /\ \E p \in result.obs : p[1] = "metrics_missing" /\ p[2] = o[2]
  \/ c = "pki" /\ \E p \in result.obs : p[1] = "pki_fetch_failed"

LEMMA FactsAreTold ==
  ASSUME NEW F, NEW o \in Hosts!CollectSSHFacts(AnswersOf("ssh_facts", {})).obs
  PROVE  Told("ssh_facts", Hosts!CollectSSHFacts(AnswersOf("ssh_facts", F)), o)
<1>. DEFINE a == AnswersOf("ssh_facts", {})
            b == AnswersOf("ssh_facts", F)
            h == o[2]
<1>1. /\ DOMAIN a = DOMAIN World["ssh_facts"] /\ DOMAIN b = DOMAIN World["ssh_facts"]
      /\ \A q \in DOMAIN World["ssh_facts"] : a[q] = FactsOf(q, {}) /\ b[q] = FactsOf(q, F)
  BY DEF AnswersOf
<1>2. h \in DOMAIN a /\ o \in Hosts!HostObservations(h, a[h])
  BY FactsAreOfHosts
<1>3. Hosts!HostObservations(h, b[h]) \subseteq Hosts!CollectSSHFacts(b).obs
  BY <1>1, <1>2, FactsAreOfHosts
<1>4. CASE b[h] = None
  <2>1. <<"facts_unreachable", h, "", TRUE>> \in Hosts!HostObservations(h, b[h])
    BY <1>4 DEF Hosts!HostObservations
  <2>2. PICK p \in Hosts!CollectSSHFacts(b).obs : p = <<"facts_unreachable", h, "", TRUE>>
    BY <1>3, <2>1
  <2>3. p[1] = "facts_unreachable" /\ p[2] = h
    BY <2>2
  <2>. QED
    BY <2>3 DEF Told
<1>5. CASE b[h] # None /\ \E s \in DOMAIN b[h] : b[h][s] = None
  <2>1. PICK s \in DOMAIN b[h] : b[h][s] = None
    BY <1>5
  <2>2. <<"facts_section_failed", h, s, TRUE>> \in Hosts!HostObservations(h, b[h])
    BY <1>5, <2>1 DEF Hosts!HostObservations, Hosts!SectionsFailed
  <2>3. PICK p \in Hosts!CollectSSHFacts(b).obs : p = <<"facts_section_failed", h, s, TRUE>>
    BY <1>3, <2>2
  <2>4. p[1] = "facts_section_failed" /\ p[2] = h
    BY <2>3
  <2>. QED
    BY <2>4 DEF Told
<1>6. CASE b[h] # None /\ \A s \in DOMAIN b[h] : b[h][s] # None
  <2>1. <<"ssh_facts", h>> \notin F
    BY <1>1, <1>2, <1>6 DEF FactsOf
  <2>2. \A s \in DOMAIN World["ssh_facts"][h] : <<"section", h, s>> \notin F
    BY <1>1, <1>2, <1>6, <2>1 DEF FactsOf
  <2>3. b[h] = a[h]
    <3>. DEFINE all == [s \in DOMAIN World["ssh_facts"][h] |->
                          IF s = "backup" THEN night ELSE World["ssh_facts"][h][s]]
    <3>1. FactsOf(h, F) = all
      BY <2>1, <2>2, Zenon DEF FactsOf
    <3>2. FactsOf(h, {}) = all
      BY Zenon DEF FactsOf
    <3>. QED
      BY <1>1, <1>2, <3>1, <3>2
  <2>4. o \in Hosts!CollectSSHFacts(b).obs
    BY <1>2, <1>3, <2>3
  <2>. QED
    BY <2>4 DEF Told
<1>. QED
  BY <1>4, <1>5, <1>6

\* A collector whose requests are all answered as they were finds the same; so
\* it is to be shown for those of which one was not.
LEMMA SameAnswers ==
  ASSUME NEW F, NEW c \in Collectors \ {"ssh_facts", "host_metrics"},
         \A q \in DOMAIN World[c] : <<c, q>> \notin F
  PROVE  AnswersOf(c, F) = AnswersOf(c, {})
<1>1. AnswersOf(c, F) = [q \in DOMAIN World[c] |-> World[c][q]]
  BY Zenon DEF AnswersOf
<1>2. AnswersOf(c, {}) = [q \in DOMAIN World[c] |-> World[c][q]]
  BY Zenon DEF AnswersOf
<1>. QED
  BY <1>1, <1>2

\* The collectors that ask for all they need: one answer that is missing, and
\* they fail.
Strict == {"containers", "monitor_availability", "uptime_kuma", "logs", "ntfy_access",
           "csp_reports", "appsec", "updates", "github", "defectdojo", "homeassistant"}

LEMMA StrictFails ==
  ASSUME NEW c \in Strict, NEW a, NEW q \in Requests[c], a[q] = None
  PROVE  Collected(c, a).status # "ok"
<1>. USE DEF Requests
<1>1. CASE c = "containers"
  BY <1>1 DEF Collected, Metrics!CollectContainers, Metrics!AllAnswered, Metrics!Panicked
<1>2. CASE c = "monitor_availability"
  BY <1>2 DEF Collected, Metrics!CollectMonitorAvailability, Metrics!Unavailable,
              Metrics!Panicked
<1>3. CASE c = "uptime_kuma"
  BY <1>3 DEF Collected, Metrics!CollectKuma, Metrics!Unavailable, Metrics!Panicked
<1>4. CASE c = "logs"
  BY <1>4 DEF Collected, Logs!CollectLogs, Logs!AllAnswered, Logs!Panicked
<1>5. CASE c = "ntfy_access"
  BY <1>5 DEF Collected, Logs!CollectNtfyDenied, Logs!Panicked
<1>6. CASE c = "csp_reports"
  BY <1>6 DEF Collected, Logs!CollectCSPReports, Logs!Panicked
<1>7. CASE c = "appsec"
  BY <1>7 DEF Collected, Logs!CollectAppSec, Logs!AllAnswered, Logs!Panicked
<1>8. CASE c = "updates"
  BY <1>8 DEF Collected, Logs!CollectUpdates, Logs!Panicked
<1>9. CASE c = "github"
  BY <1>9 DEF Collected, Outside!CollectGithub, Outside!AllAnswered, Outside!Unavailable,
              Outside!Panicked
<1>10. CASE c = "defectdojo"
  BY <1>10 DEF Collected, Outside!CollectDefectDojo, Outside!AllAnswered,
               Outside!Unavailable, Outside!Panicked
<1>11. CASE c = "homeassistant"
  BY <1>11 DEF Collected, Outside!CollectHomeAssistant, Outside!AllAnswered,
               Outside!Unavailable, Outside!Panicked
<1>. QED
  BY <1>1, <1>2, <1>3, <1>4, <1>5, <1>6, <1>7, <1>8, <1>9, <1>10, <1>11 DEF Strict

\* A row of a host whose exporters are down is missing, and the host is named;
\* the other rows are as they were.
LEMMA RowsAreTold ==
  ASSUME NEW rows, NEW F, NEW r \in DOMAIN rows, r[1] \in AllHosts, NEW ages
  PROVE  \/ r \in DOMAIN Scraped(rows, F) /\ Scraped(rows, F)[r] = rows[r]
         \/ \E p \in Metrics!MetricsAge(Scraped(ages, F)) :
              p[1] = "metrics_missing" /\ p[2] = r[1]
<1>1. CASE <<"host_metrics", r[1]>> \notin F
  BY <1>1 DEF Scraped
<1>2. CASE <<"host_metrics", r[1]>> \in F
  <2>1. <<r[1], "">> \notin DOMAIN Scraped(ages, F)
    BY <1>2 DEF Scraped
  <2>2. <<"metrics_missing", r[1], "", None>> \in Metrics!MetricsAge(Scraped(ages, F))
    BY <2>1 DEF Metrics!MetricsAge
  <2>3. PICK p \in Metrics!MetricsAge(Scraped(ages, F)) :
          p = <<"metrics_missing", r[1], "", None>>
    BY <2>2
  <2>4. p[1] = "metrics_missing" /\ p[2] = r[1]
    BY <2>3
  <2>. QED
    BY <2>4
<1>. QED
  BY <1>1, <1>2

LEMMA ScrapedAll ==
  ASSUME NEW rows
  PROVE  /\ DOMAIN Scraped(rows, {}) = DOMAIN rows
         /\ \A r \in DOMAIN rows : Scraped(rows, {})[r] = rows[r]
  BY DEF Scraped

\* The observations of a host whose exporters answer, with the same IDs.
LEMMA MetricsAreTold ==
  ASSUME AnswersAreThere, MetricsAreOfHosts, NEW F,
         NEW o \in Metrics!CollectHostMetrics(AnswersOf("host_metrics", {})).obs
  PROVE  Told("host_metrics", Metrics!CollectHostMetrics(AnswersOf("host_metrics", F)), o)
<1>. DEFINE W(q) == World["host_metrics"][q]
            a == AnswersOf("host_metrics", {})
            b == AnswersOf("host_metrics", F)
            Seen(x) == (UNION {Metrics!Each(q, x[q]) : q \in Metrics!PlainQueries})
                       \cup Metrics!Projections(x.disk_fill_projection)
                       \cup Metrics!FailedUnits(x.systemd_failed)
                       \cup Metrics!MetricsAge(x.metrics_age)
                       \cup Metrics!PoolErrors(x.btrfs_pool_errors)
                       \cup Metrics!Each("crowdsec_alerts_24h",
                              Metrics!Rows(x.crowdsec_alerts_24h, LAMBDA r, v : v > 0))
            Missing == {p \in Metrics!MetricsAge(b.metrics_age) : p[1] = "metrics_missing"}
<1>1. CASE \E q \in Metrics!HostQueries : b[q] = None
  BY <1>1 DEF Metrics!CollectHostMetrics, Metrics!AllAnswered, Metrics!Panicked, Told
<1>2. CASE \A q \in Metrics!HostQueries : b[q] # None
  <2>1. \A q \in Metrics!HostQueries : a[q] = Scraped(W(q), {})
    BY DEF AnswersOf, AnswersAreThere
  <2>2. \A q \in Metrics!HostQueries : b[q] = Scraped(W(q), F)
    BY <1>2 DEF AnswersOf, AnswersAreThere
  <2>3. Metrics!CollectHostMetrics(b).obs = Seen(b)
    BY <1>2, Zenon DEF Metrics!CollectHostMetrics, Metrics!AllAnswered, Metrics!Ok
  <2>4. o \in Seen(a)
    <3>1. CASE \A q \in Metrics!HostQueries : a[q] # None
      <4>1. Metrics!CollectHostMetrics(a).obs = Seen(a)
        BY <3>1, Zenon DEF Metrics!CollectHostMetrics, Metrics!AllAnswered, Metrics!Ok
      <4>. QED
        BY <4>1
    <3>2. CASE \E q \in Metrics!HostQueries : a[q] = None
      <4>1. Metrics!CollectHostMetrics(a).obs = {}
        BY <3>2 DEF Metrics!CollectHostMetrics, Metrics!AllAnswered, Metrics!Panicked
      <4>. QED
        BY <4>1
    <3>. QED
      BY <3>1, <3>2
  <2>5. ASSUME NEW q \in Metrics!HostQueries, NEW r \in DOMAIN W(q)
        PROVE  \/ r \in DOMAIN b[q] /\ b[q][r] = W(q)[r]
               \/ \E p \in Missing : p[2] = r[1]
    <3>1. r[1] \in AllHosts
      BY DEF MetricsAreOfHosts
    <3>2. b.metrics_age = Scraped(W("metrics_age"), F)
      BY <2>2 DEF Metrics!HostQueries
    <3>. QED
      BY <2>2, <3>1, <3>2, RowsAreTold
  <2>6. \A q \in Metrics!HostQueries :
          DOMAIN a[q] = DOMAIN W(q) /\ \A r \in DOMAIN W(q) : a[q][r] = W(q)[r]
    BY <2>1, ScrapedAll
  <2>7. Missing \subseteq Seen(b)
    OBVIOUS
  <2>8. SUFFICES (\E p \in Missing : p[2] = o[2])
                 \/ Metrics!Id(o) \in {Metrics!Id(p) : p \in Seen(b)}
    BY <2>3, <2>7 DEF Told, Hosts!Id, Metrics!Id
  <2>9. CASE \E q \in Metrics!PlainQueries : o \in Metrics!Each(q, a[q])
    <3>1. PICK q \in Metrics!PlainQueries : o \in Metrics!Each(q, a[q])
      BY <2>9
    <3>2. q \in Metrics!HostQueries
      BY DEF Metrics!HostQueries
    <3>3. PICK r \in DOMAIN a[q] : o = <<q, r[1], r[2], a[q][r]>>
      BY <3>1 DEF Metrics!Each
    <3>4. o[2] = r[1]
      BY <3>3
    <3>5. CASE r \in DOMAIN b[q] /\ b[q][r] = W(q)[r]
      <4>1. o \in Metrics!Each(q, b[q])
        BY <2>6, <3>2, <3>3, <3>5 DEF Metrics!Each
      <4>. QED
        BY <4>1
    <3>. QED
      BY <2>5, <2>6, <3>2, <3>4, <3>5
  <2>10. CASE o \in Metrics!Projections(a.disk_fill_projection)
    <3>1. PICK r \in DOMAIN a.disk_fill_projection :
            /\ a.disk_fill_projection[r] < 0 /\ r \notin RetiredMounts
            /\ o = <<"disk_fill_projection", r[1], r[2], a.disk_fill_projection[r]>>
      BY <2>10 DEF Metrics!Projections, Metrics!Each, Metrics!Rows
    <3>2. o[2] = r[1]
      BY <3>1
    <3>3. "disk_fill_projection" \in Metrics!HostQueries
      BY DEF Metrics!HostQueries
    <3>4. CASE r \in DOMAIN b.disk_fill_projection
               /\ b.disk_fill_projection[r] = W("disk_fill_projection")[r]
      <4>1. o \in Metrics!Projections(b.disk_fill_projection)
        BY <2>6, <3>1, <3>3, <3>4 DEF Metrics!Projections, Metrics!Each, Metrics!Rows
      <4>. QED
        BY <4>1
    <3>. QED
      BY <2>5, <2>6, <3>1, <3>2, <3>3, <3>4
  <2>11. CASE o \in Metrics!FailedUnits(a.systemd_failed)
    <3>1. PICK r \in DOMAIN a.systemd_failed :
            r[2] \notin SessionUnits /\ o = <<"systemd_failed", r[1], r[2], TRUE>>
      BY <2>11 DEF Metrics!FailedUnits
    <3>2. o[2] = r[1]
      BY <3>1
    <3>3. "systemd_failed" \in Metrics!HostQueries
      BY DEF Metrics!HostQueries
    <3>4. CASE r \in DOMAIN b.systemd_failed
      <4>1. o \in Metrics!FailedUnits(b.systemd_failed)
        BY <3>1, <3>4 DEF Metrics!FailedUnits
      <4>. QED
        BY <4>1
    <3>. QED
      BY <2>5, <2>6, <3>1, <3>2, <3>3, <3>4
  <2>12. CASE o \in Metrics!MetricsAge(a.metrics_age)
    <3>1. PICK h \in AllHosts :
            o = IF <<h, "">> \in DOMAIN a.metrics_age
                THEN <<"metrics_stale", h, "", a.metrics_age[<<h, "">>]>>
                ELSE <<"metrics_missing", h, "", None>>
      BY <2>12 DEF Metrics!MetricsAge
    <3>2. o[2] = h
      BY <3>1
    <3>3. "metrics_age" \in Metrics!HostQueries
      BY DEF Metrics!HostQueries
    <3>4. CASE <<h, "">> \in DOMAIN a.metrics_age /\ <<h, "">> \in DOMAIN b.metrics_age
      <4>1. <<"metrics_stale", h, "", b.metrics_age[<<h, "">>]>>
              \in Metrics!MetricsAge(b.metrics_age)
        BY <3>4 DEF Metrics!MetricsAge
      <4>2. PICK p \in Seen(b) : p = <<"metrics_stale", h, "", b.metrics_age[<<h, "">>]>>
        BY <4>1
      <4>3. Metrics!Id(p) = Metrics!Id(o)
        BY <3>1, <3>4, <4>2 DEF Metrics!Id
      <4>. QED
        BY <4>3
    <3>5. CASE <<h, "">> \in DOMAIN a.metrics_age /\ <<h, "">> \notin DOMAIN b.metrics_age
      <4>1. <<h, "">> \in DOMAIN W("metrics_age") /\ <<h, "">>[1] = h
        BY <2>6, <3>3, <3>5
      <4>2. \E p \in Missing : p[2] = <<h, "">>[1]
        BY <2>5, <3>3, <3>5, <4>1
      <4>. QED
        BY <3>2, <4>1, <4>2
    <3>6. CASE <<h, "">> \notin DOMAIN a.metrics_age
      <4>1. <<h, "">> \notin DOMAIN b.metrics_age
        BY <2>2, <2>6, <3>3, <3>6 DEF Scraped
      <4>2. o \in Metrics!MetricsAge(b.metrics_age)
        BY <3>1, <3>6, <4>1 DEF Metrics!MetricsAge
      <4>. QED
        BY <4>2
    <3>. QED
      BY <3>4, <3>5, <3>6
  <2>13. CASE o \in Metrics!PoolErrors(a.btrfs_pool_errors)
    <3>1. PICK r \in DOMAIN a.btrfs_pool_errors : \E v :
            a.btrfs_pool_errors[r] > 0 /\ o = <<"btrfs_pool_errors", r[1], r[2], v>>
      <4>. DEFINE rows == a.btrfs_pool_errors
                  Sum(d) == Metrics!Total([r \in {x \in DOMAIN rows :
                                            <<x[1], x[2]>> = d /\ rows[x] > 0} |-> rows[r]])
      <4>1. PICK d \in {<<r[1], r[2]>> : r \in {x \in DOMAIN rows : rows[x] > 0}} :
              o = <<"btrfs_pool_errors", d[1], d[2], Sum(d)>>
        BY <2>13 DEF Metrics!PoolErrors
      <4>. HIDE DEF Sum
      <4>2. PICK r \in DOMAIN rows : rows[r] > 0 /\ d = <<r[1], r[2]>>
        OBVIOUS
      <4>. QED
        BY <4>1, <4>2
    <3>2. PICK v : o = <<"btrfs_pool_errors", r[1], r[2], v>>
      BY <3>1
    <3>3. o[2] = r[1]
      BY <3>2
    <3>4. "btrfs_pool_errors" \in Metrics!HostQueries
      BY DEF Metrics!HostQueries
    <3>5. CASE r \in DOMAIN b.btrfs_pool_errors
               /\ b.btrfs_pool_errors[r] = W("btrfs_pool_errors")[r]
      <4>. DEFINE rows == b.btrfs_pool_errors
                  Sum(d) == Metrics!Total([x \in {y \in DOMAIN rows :
                                            <<y[1], y[2]>> = d /\ rows[y] > 0} |-> rows[x]])
      <4>1. rows[r] > 0
        BY <2>6, <3>1, <3>4, <3>5
      <4>2. <<r[1], r[2]>> \in {<<x[1], x[2]>> : x \in {y \in DOMAIN rows : rows[y] > 0}}
        BY <3>5, <4>1
      <4>3. \E p \in Metrics!PoolErrors(rows) :
              p = <<"btrfs_pool_errors", r[1], r[2], Sum(<<r[1], r[2]>>)>>
        BY <4>2, Zenon DEF Metrics!PoolErrors
      <4>. HIDE DEF Sum
      <4>4. PICK p \in Seen(b) : p = <<"btrfs_pool_errors", r[1], r[2], Sum(<<r[1], r[2]>>)>>
        BY <4>3
      <4>5. Metrics!Id(p) = Metrics!Id(o)
        BY <3>2, <4>4 DEF Metrics!Id
      <4>. QED
        BY <4>5
    <3>. QED
      BY <2>5, <2>6, <3>1, <3>3, <3>4, <3>5
  <2>14. CASE o \in Metrics!Each("crowdsec_alerts_24h",
                      Metrics!Rows(a.crowdsec_alerts_24h, LAMBDA r, v : v > 0))
    <3>1. PICK r \in DOMAIN a.crowdsec_alerts_24h :
            /\ a.crowdsec_alerts_24h[r] > 0
            /\ o = <<"crowdsec_alerts_24h", r[1], r[2], a.crowdsec_alerts_24h[r]>>
      BY <2>14 DEF Metrics!Each, Metrics!Rows
    <3>2. o[2] = r[1]
      BY <3>1
    <3>3. "crowdsec_alerts_24h" \in Metrics!HostQueries
      BY DEF Metrics!HostQueries
    <3>4. CASE r \in DOMAIN b.crowdsec_alerts_24h
               /\ b.crowdsec_alerts_24h[r] = W("crowdsec_alerts_24h")[r]
      <4>1. o \in Metrics!Each("crowdsec_alerts_24h",
                    Metrics!Rows(b.crowdsec_alerts_24h, LAMBDA x, v : v > 0))
        BY <2>6, <3>1, <3>3, <3>4 DEF Metrics!Each, Metrics!Rows
      <4>. QED
        BY <4>1
    <3>. QED
      BY <2>5, <2>6, <3>1, <3>2, <3>3, <3>4
  <2>. QED
    BY <2>4, <2>9, <2>10, <2>11, <2>12, <2>13, <2>14
<1>. QED
  BY <1>1, <1>2

LEMMA EndpointsAreTold ==
  ASSUME NEW F, NEW o \in Outside!CollectPKI(AnswersOf("pki", {})).obs
  PROVE  Told("pki", Outside!CollectPKI(AnswersOf("pki", F)), o)
<1>. DEFINE b == AnswersOf("pki", F)
<1>1. DOMAIN b = DOMAIN World["pki"]
      /\ \A e \in DOMAIN b : <<"pki", e>> \in F => b[e] = None
  BY DEF AnswersOf
<1>2. CASE \A e \in DOMAIN b : b[e] = None
  BY <1>2 DEF Outside!CollectPKI, Outside!Panicked, Told
<1>3. CASE (\E e \in DOMAIN b : b[e] = None) /\ (\E e \in DOMAIN b : b[e] # None)
  <2>1. PICK e \in DOMAIN b : b[e] = None
    BY <1>3
  <2>2. <<"pki_fetch_failed", e, "", TRUE>> \in Outside!CollectPKI(b).obs
    BY <1>3, <2>1 DEF Outside!CollectPKI, Outside!Ok, Outside!Endpoint
  <2>3. PICK p \in Outside!CollectPKI(b).obs : p = <<"pki_fetch_failed", e, "", TRUE>>
    BY <2>2
  <2>4. p[1] = "pki_fetch_failed"
    BY <2>3
  <2>. QED
    BY <2>4 DEF Told
<1>4. CASE \A e \in DOMAIN b : b[e] # None
  <2>1. AnswersOf("pki", F) = AnswersOf("pki", {})
    BY <1>1, <1>4, SameAnswers DEF Collectors
  <2>. QED
    BY <2>1 DEF Told
<1>. QED
  BY <1>2, <1>3, <1>4

\* The reverse lookup is only made of an address, so its failure is of no
\* consequence where there is none.
LEMMA LookupsAreTold ==
  ASSUME AnswersAreThere, NEW F,
         NEW o \in Outside!CollectMailDNS(AnswersOf("mail_dns", {})).obs
  PROVE  Told("mail_dns", Outside!CollectMailDNS(AnswersOf("mail_dns", F)), o)
<1>. DEFINE a == AnswersOf("mail_dns", {})
            b == AnswersOf("mail_dns", F)
<1>1. /\ DOMAIN a = Outside!Lookups /\ DOMAIN b = Outside!Lookups
      /\ \A l \in Outside!Lookups : b[l] = None \/ b[l] = a[l]
  BY DEF AnswersOf, AnswersAreThere
<1>2. CASE \E l \in Outside!Asked(b) : b[l] = None
  BY <1>2 DEF Outside!CollectMailDNS, Outside!AllAnswered, Outside!Panicked, Told
<1>3. CASE \A l \in Outside!Asked(b) : b[l] # None
  <2>1. Outside!Asked(b) \subseteq Outside!Lookups /\ "A" \in Outside!Asked(b)
    BY DEF Outside!Asked, Outside!Lookups
  <2>2. \A l \in Outside!Asked(b) : b[l] = a[l]
    BY <1>1, <1>3, <2>1
  <2>3. Outside!Asked(a) = Outside!Asked(b)
    BY <2>1, <2>2 DEF Outside!Asked
  <2>4. \A l \in Outside!Asked(a) : a[l] # None
    BY <1>3, <2>2, <2>3
  <2>5. o \in {<<"mail_dns_problem", IF l = "A" THEN "PTR" ELSE l, "", TRUE>> :
                 l \in {x \in Outside!Asked(a) : a[x] # "good"}}
    BY <2>4, Zenon DEF Outside!CollectMailDNS, Outside!AllAnswered, Outside!Ok
  <2>6. o \in {<<"mail_dns_problem", IF l = "A" THEN "PTR" ELSE l, "", TRUE>> :
                 l \in {x \in Outside!Asked(b) : b[x] # "good"}}
    BY <2>2, <2>3, <2>5
  <2>7. o \in Outside!CollectMailDNS(b).obs
    BY <1>3, <2>6, Zenon DEF Outside!CollectMailDNS, Outside!AllAnswered, Outside!Ok
  <2>. QED
    BY <2>7 DEF Told
<1>. QED
  BY <1>2, <1>3

LEMMA AddressIsTold ==
  ASSUME SoundWorld, NEW F \in SUBSET Faults,
         NEW o \in Outside!CollectHomeIP(AnswersOf("home_ip", {})).obs
  PROVE  Told("home_ip", Outside!CollectHomeIP(AnswersOf("home_ip", F)), o)
<1>. DEFINE a == AnswersOf("home_ip", {})
            b == AnswersOf("home_ip", F)
<1>. USE DEF SoundWorld, AnswersAreThere
<1>1. /\ b.first = None \/ b.first = a.first
      /\ b.second = None \/ b.second = a.second
      /\ a.first = a.second
  BY DEF AnswersOf, AddressesAgree
<1>2. b.expected = a.expected
  <2>1. <<"home_ip", "expected">> \notin F
    BY DEF FaultsAreRequests, Requests
  <2>. QED
    BY <2>1 DEF AnswersOf
<1>3. CASE b.expected # "" /\ b.first = None /\ b.second = None
  BY <1>3 DEF Outside!CollectHomeIP, Outside!Panicked, Told
<1>4. CASE b.expected = "" \/ b.first # None \/ b.second # None
  <2>1. Outside!CollectHomeIP(a) = Outside!CollectHomeIP(b)
    BY <1>1, <1>2, <1>4 DEF Outside!CollectHomeIP
  <2>. QED
    BY <2>1 DEF Told
<1>. QED
  BY <1>3, <1>4

LEMMA ReportsAreTold ==
  ASSUME SoundWorld, NEW F \in SUBSET Faults,
         NEW o \in Outside!CollectDMARC(AnswersOf("dmarc", {})).obs
  PROVE  Told("dmarc", Outside!CollectDMARC(AnswersOf("dmarc", F)), o)
<1>. DEFINE a == AnswersOf("dmarc", {})
            b == AnswersOf("dmarc", F)
<1>. USE DEF SoundWorld, AnswersAreThere
<1>1. /\ b.lastReport = None \/ b.lastReport = a.lastReport
      /\ b.counts = None \/ b.counts = a.counts
  BY DEF AnswersOf
<1>2. b.url = a.url
  <2>1. <<"dmarc", "url">> \notin F
    BY DEF FaultsAreRequests, Requests
  <2>. QED
    BY <2>1 DEF AnswersOf
<1>3. a.url # None
  BY DEF Outside!CollectDMARC, Outside!Unavailable
<1>4. CASE b.lastReport = None
           \/ (b.lastReport # "never" /\ OwnedDomains # {} /\ b.counts = None)
  BY <1>2, <1>3, <1>4 DEF Outside!CollectDMARC, Outside!Panicked, Told
<1>5. CASE /\ b.lastReport # None
           /\ b.lastReport = "never" \/ OwnedDomains = {} \/ b.counts # None
  <2>1. Outside!CollectDMARC(a) = Outside!CollectDMARC(b)
    <3>1. b.lastReport = a.lastReport
      BY <1>1, <1>5
    <3>2. CASE a.lastReport = "never" \/ OwnedDomains = {}
      BY <1>2, <1>3, <1>5, <3>1, <3>2, Zenon DEF Outside!CollectDMARC
    <3>3. CASE b.counts = a.counts
      <4>. DEFINE Rest(last, counts) ==
             Outside!Ok(Outside!When(last = "old",
                          {<<"dmarc_report_stale", "dmarc-monitor", "", TRUE>>})
               \cup (IF OwnedDomains = {} THEN {}
                     ELSE {<<"dmarc_fail_count", d[1], "",
                             counts[d].total - counts[d].passed>> :
                             d \in {x \in DOMAIN counts :
                                      /\ x[2] \in OwnedDomains
                                      /\ counts[x].total > counts[x].passed}}))
           Whole(url, last, counts) ==
             IF url = None THEN Outside!Unavailable
             ELSE IF last = None THEN Outside!Panicked
             ELSE IF last = "never"
             THEN Outside!Ok({<<"dmarc_report_stale", "dmarc-monitor", "", TRUE>>})
             ELSE IF OwnedDomains # {} /\ counts = None THEN Outside!Panicked
             ELSE Rest(last, counts)
      <4>1. /\ Outside!CollectDMARC(a) = Whole(a.url, a.lastReport, a.counts)
            /\ Outside!CollectDMARC(b) = Whole(b.url, b.lastReport, b.counts)
        BY Zenon DEF Outside!CollectDMARC
      <4>. HIDE DEF Whole
      <4>. QED
        BY <1>2, <3>1, <3>3, <4>1
    <3>. QED
      BY <1>1, <1>5, <3>1, <3>2, <3>3
  <2>. QED
    BY <2>1 DEF Told
<1>. QED
  BY <1>4, <1>5

LEMMA AllIsTold ==
  ASSUME SoundWorld, NEW F \in SUBSET Faults, NEW c \in Collectors,
         NEW o \in RunCollectors({})[c].obs
  PROVE  Told(c, RunCollectors(F)[c], o)
<1>1. /\ RunCollectors({})[c] = Collected(c, AnswersOf(c, {}))
      /\ RunCollectors(F)[c] = Collected(c, AnswersOf(c, F))
  BY DEF RunCollectors
<1>2. CASE c \in Strict
  <2>1. CASE \A q \in DOMAIN World[c] : <<c, q>> \notin F
    <3>1. c \notin {"ssh_facts", "host_metrics"}
      BY <1>2 DEF Strict
    <3>2. AnswersOf(c, F) = AnswersOf(c, {})
      BY <2>1, <3>1, SameAnswers
    <3>. QED
      BY <1>1, <3>2 DEF Told
  <2>2. CASE \E q \in DOMAIN World[c] : <<c, q>> \in F
    <3>1. PICK q \in DOMAIN World[c] : <<c, q>> \in F
      BY <2>2
    <3>2. c \in DOMAIN Requests /\ c # "ssh_facts"
      BY <1>2 DEF Strict, Requests
    <3>3. q \in Requests[c]
      BY <3>1, <3>2 DEF SoundWorld, FaultsAreRequests
    <3>4. AnswersOf(c, F)[q] = None
      BY <3>1, <3>2 DEF AnswersOf
    <3>5. Collected(c, AnswersOf(c, F)).status # "ok"
      BY <1>2, <3>3, <3>4, StrictFails
    <3>. QED
      BY <1>1, <3>5 DEF Told
  <2>. QED
    BY <2>1, <2>2
<1>3. CASE c = "ssh_facts"
  BY <1>1, <1>3, FactsAreTold DEF Collected
<1>4. CASE c = "host_metrics"
  BY <1>1, <1>4, MetricsAreTold DEF Collected, SoundWorld
<1>5. CASE c = "pki"
  BY <1>1, <1>5, EndpointsAreTold DEF Collected
<1>6. CASE c = "mail_dns"
  BY <1>1, <1>6, LookupsAreTold DEF Collected, SoundWorld
<1>7. CASE c = "home_ip"
  BY <1>1, <1>7, AddressIsTold DEF Collected
<1>8. CASE c = "dmarc"
  BY <1>1, <1>8, ReportsAreTold DEF Collected
<1>. QED
  BY <1>2, <1>3, <1>4, <1>5, <1>6, <1>7, <1>8 DEF Collectors, Strict

LEMMA ResultsAreObserved ==
  ASSUME NEW results, NEW c \in Collectors
  PROVE  /\ results[c].obs \subseteq AllObserved(results)
         /\ results[c].status # "ok" =>
              \E o \in AllObserved(results) : o[1] = "collector_failed" /\ o[2] = c
<1>1. results[c].obs \cup Hosts!CollectorHealth(c, results[c]) \subseteq AllObserved(results)
  BY Zenon DEF AllObserved
<1>2. ASSUME results[c].status # "ok"
      PROVE  \E o \in AllObserved(results) : o[1] = "collector_failed" /\ o[2] = c
  <2>1. <<"collector_failed", c, "", results[c].status>> \in AllObserved(results)
    BY <1>1, <1>2 DEF Hosts!CollectorHealth, Hosts!When
  <2>2. PICK o \in AllObserved(results) :
          o = <<"collector_failed", c, "", results[c].status>>
    BY <2>1
  <2>3. o[1] = "collector_failed" /\ o[2] = c
    BY <2>2
  <2>. QED
    BY <2>3
<1>. QED
  BY <1>1, <1>2

\* run.go, CollectorHealth: "a broken collector looks exactly like a clean bill
\* of health" without it.  Whatever set of requests fails, each thing that the
\* report would have shown is shown, or it says where it could not look.
THEOREM NothingIsLostInSilence ==
  ASSUME SoundWorld
  PROVE  SourceSpec => []BlindnessIsNamed
<1>. DEFINE Inv == broken \subseteq Faults /\ BlindnessIsNamed
<1>1. SourceInit => Inv
  BY DEF SourceInit, BlindnessIsNamed
<1>2. Inv /\ [SourceNext]_sourceVars => Inv'
  <2>. SUFFICES ASSUME Inv, [SourceNext]_sourceVars PROVE Inv'
    OBVIOUS
  <2>1. CASE Break
    BY <2>1 DEF Break, Forget, BlindnessIsNamed
  <2>2. CASE Mend
    BY <2>2 DEF Mend, Forget, BlindnessIsNamed
  <2>3. CASE BackupRuns
    BY <2>3 DEF BackupRuns, Forget, BlindnessIsNamed
  <2>4. CASE Look
    <3>1. /\ facts' = AllObserved(RunCollectors(broken)) /\ broken' = broken
          /\ clean' = UNION {{<<c, Hosts!Id(o)>> : o \in RunCollectors({})[c].obs} :
                              c \in Collectors}
      BY <2>4, Zenon DEF Look
    <3>. SUFFICES ASSUME NEW x \in clean'
                  PROVE  x[2] \in {Hosts!Id(o) : o \in facts'} \/ Named(x[1], x[2])'
      BY <3>1 DEF BlindnessIsNamed
    <3>2. PICK c \in Collectors : x \in {<<c, Hosts!Id(o)>> : o \in RunCollectors({})[c].obs}
      BY <3>1
    <3>3. PICK o \in RunCollectors({})[c].obs : x = <<c, Hosts!Id(o)>>
      BY <3>2
    <3>4. x[1] = c /\ x[2] = Hosts!Id(o) /\ Hosts!Id(o)[2] = o[2]
      BY <3>3 DEF Hosts!Id
    <3>5. Told(c, RunCollectors(broken)[c], o)
      BY AllIsTold
    <3>6. RunCollectors(broken)[c].obs \subseteq facts'
      BY <3>1, ResultsAreObserved
    <3>7. CASE RunCollectors(broken)[c].status # "ok"
      BY <3>1, <3>4, <3>7, ResultsAreObserved DEF Named, Failed
    <3>8. CASE RunCollectors(broken)[c].status = "ok"
      BY <3>4, <3>5, <3>6, <3>8 DEF Told, Named, Failed
    <3>. QED
      BY <3>7, <3>8
  <2>5. CASE UNCHANGED sourceVars
    BY <2>5 DEF sourceVars, looked, BlindnessIsNamed, Named, Failed
  <2>. QED
    BY <2>1, <2>2, <2>3, <2>4, <2>5 DEF SourceNext
<1>. QED
  BY <1>1, <1>2, PTL DEF SourceSpec

-----------------------------------------------------------------------------
(* The report and the page                                                 *)

\* An observation that says nothing about the log of a backup.
Elsewhere(o) == \E k, s, p, v : k \notin BackupKinds /\ o = <<k, s, p, v>>

LEMMA ElsewhereIs ==
  ASSUME NEW o, Elsewhere(o)
  PROVE  o[1] \notin BackupKinds
<1>1. PICK k, s, p, v : k \notin BackupKinds /\ o = <<k, s, p, v>>
  BY DEF Elsewhere
<1>. QED
  BY <1>1

LEMMA EachElsewhere ==
  ASSUME NEW kind, kind \notin BackupKinds, NEW rows, NEW o \in Metrics!Each(kind, rows)
  PROVE  Elsewhere(o)
BY DEF Metrics!Each, Elsewhere

LEMMA MetricsElsewhere ==
  ASSUME NEW a, NEW o \in Metrics!CollectHostMetrics(a).obs
  PROVE  Elsewhere(o)
<1>1. Metrics!AllAnswered(a, Metrics!HostQueries)
  BY DEF Metrics!CollectHostMetrics, Metrics!Panicked
<1>2. \/ \E q \in Metrics!PlainQueries : o \in Metrics!Each(q, a[q])
      \/ o \in Metrics!Projections(a.disk_fill_projection)
      \/ o \in Metrics!FailedUnits(a.systemd_failed)
      \/ o \in Metrics!MetricsAge(a.metrics_age)
      \/ o \in Metrics!PoolErrors(a.btrfs_pool_errors)
      \/ \E rows : o \in Metrics!Each("crowdsec_alerts_24h", rows)
  BY <1>1, Zenon DEF Metrics!CollectHostMetrics, Metrics!Ok
<1>3. CASE \E q \in Metrics!PlainQueries : o \in Metrics!Each(q, a[q])
  BY <1>3, EachElsewhere DEF Metrics!PlainQueries, BackupKinds
<1>4. CASE o \in Metrics!Projections(a.disk_fill_projection)
  <2>1. \E rows : o \in Metrics!Each("disk_fill_projection", rows)
    BY <1>4, Zenon DEF Metrics!Projections
  <2>. QED
    BY <2>1, EachElsewhere DEF BackupKinds
<1>5. CASE o \in Metrics!FailedUnits(a.systemd_failed)
  BY <1>5 DEF Metrics!FailedUnits, Elsewhere, BackupKinds
<1>6. CASE o \in Metrics!MetricsAge(a.metrics_age)
  BY <1>6 DEF Metrics!MetricsAge, Elsewhere, BackupKinds
<1>7. CASE o \in Metrics!PoolErrors(a.btrfs_pool_errors)
  <2>1. \E s, p, v : o = <<"btrfs_pool_errors", s, p, v>>
    BY <1>7, Zenon DEF Metrics!PoolErrors
  <2>. QED
    BY <2>1 DEF Elsewhere, BackupKinds
<1>8. CASE \E rows : o \in Metrics!Each("crowdsec_alerts_24h", rows)
  BY <1>8, EachElsewhere DEF BackupKinds
<1>. QED
  BY <1>2, <1>3, <1>4, <1>5, <1>6, <1>7, <1>8

LEMMA NumbersElsewhere ==
  ASSUME NEW a,
         NEW o \in Metrics!CollectContainers(a).obs \cup
                   Metrics!CollectMonitorAvailability(a).obs \cup Metrics!CollectKuma(a).obs
  PROVE  Elsewhere(o)
<1>1. CASE o \in Metrics!CollectContainers(a).obs
  <2>1. Metrics!AllAnswered(a, {"current", "previous", "restarts", "oom"})
    BY <1>1 DEF Metrics!CollectContainers, Metrics!Panicked
  <2>2. \/ \E s, p, v : o = <<"container_missing", s, p, v>>
        \/ \E s, p, v : o = <<"container_new", s, p, v>>
        \/ \E rows : o \in Metrics!Each("container_restarts", rows)
        \/ \E rows : o \in Metrics!Each("container_oom", rows)
    BY <1>1, <2>1, Zenon DEF Metrics!CollectContainers, Metrics!Ok
  <2>. QED
    BY <2>2, EachElsewhere DEF Elsewhere, BackupKinds
<1>2. CASE o \in Metrics!CollectMonitorAvailability(a).obs
  BY <1>2 DEF Metrics!CollectMonitorAvailability, Metrics!Panicked, Metrics!Unavailable,
              Metrics!Ok, Elsewhere, BackupKinds
<1>3. CASE o \in Metrics!CollectKuma(a).obs
  <2>1. a.key # None /\ a.metrics # None
    BY <1>3 DEF Metrics!CollectKuma, Metrics!Unavailable, Metrics!Panicked
  <2>2. \/ \E s, v : o = <<"monitor_status", s, "", v>>
        \/ \E s, v : o = <<"cert_expiry", s, "", v>>
    BY <1>3, <2>1, Zenon DEF Metrics!CollectKuma, Metrics!Ok
  <2>. QED
    BY <2>2 DEF Elsewhere, BackupKinds
<1>. QED
  BY <1>1, <1>2, <1>3

LEMMA LogsElsewhere ==
  ASSUME NEW a, NEW o \in Logs!CollectLogs(a, Windows, Hour).obs
  PROVE  Elsewhere(o)
<1>1. Logs!AllAnswered(a, {"counts", "lines", "auth", "caddy"})
  BY DEF Logs!CollectLogs, Logs!Panicked
<1>2. \/ o \in Logs!Signatures(Logs!Newest(a.lines))
      \/ o \in Logs!ErrorRates(Logs!Instant(a.counts), a.order)
      \/ o \in Logs!AuthFailures(Logs!Instant(a.auth))
      \/ \E h : o \in Logs!Caddy5xx(h, a.caddy[h], Windows, Hour)
  BY <1>1, Zenon DEF Logs!CollectLogs, Logs!Ok
<1>3. CASE o \in Logs!Signatures(Logs!Newest(a.lines))
  <2>1. \E s, p, v : o = <<"log_signature", s, p, v>>
    BY <1>3, Zenon DEF Logs!Signatures
  <2>. QED
    BY <2>1 DEF Elsewhere, BackupKinds
<1>4. CASE o \in Logs!ErrorRates(Logs!Instant(a.counts), a.order)
  <2>1. \E s, p, v : o = <<"log_error_rate", s, p, v>>
    BY <1>4, Zenon DEF Logs!ErrorRates
  <2>. QED
    BY <2>1 DEF Elsewhere, BackupKinds
<1>5. CASE o \in Logs!AuthFailures(Logs!Instant(a.auth))
  <2>1. \E s, p, v : o = <<"auth_failures", s, p, v>>
    BY <1>5, Zenon DEF Logs!AuthFailures
  <2>. QED
    BY <2>1 DEF Elsewhere, BackupKinds
<1>6. CASE \E h : o \in Logs!Caddy5xx(h, a.caddy[h], Windows, Hour)
  <2>1. \/ \E s, p, v : o = <<"caddy_5xx", s, p, v>>
        \/ \E s, p, v : o = <<"caddy_5xx_hours", s, p, v>>
    BY <1>6, Zenon DEF Logs!Caddy5xx
  <2>. QED
    BY <2>1 DEF Elsewhere, BackupKinds
<1>. QED
  BY <1>2, <1>3, <1>4, <1>5, <1>6

LEMMA LinesElsewhere ==
  ASSUME NEW a,
         NEW o \in Logs!CollectNtfyDenied(a).obs \cup Logs!CollectCSPReports(a).obs \cup
                   Logs!CollectAppSec(a).obs \cup Logs!CollectUpdates(a).obs
  PROVE  Elsewhere(o)
<1>1. CASE o \in Logs!CollectNtfyDenied(a).obs
  <2>1. a.lines # None
    BY <1>1 DEF Logs!CollectNtfyDenied, Logs!Panicked
  <2>2. \/ \E s, p, v : o = <<"ntfy_denied_topic", s, p, v>>
        \/ \E s, p, v : o = <<"ntfy_denied_unknown", s, p, v>>
    BY <1>1, <2>1, Zenon DEF Logs!CollectNtfyDenied, Logs!Ok, Logs!When
  <2>. QED
    BY <2>2 DEF Elsewhere, BackupKinds
<1>2. CASE o \in Logs!CollectCSPReports(a).obs
  <2>1. a.bodies # None
    BY <1>2 DEF Logs!CollectCSPReports, Logs!Panicked
  <2>2. \E s, p, v : o = <<"csp_violation", s, p, v>>
    BY <1>2, <2>1, Zenon DEF Logs!CollectCSPReports, Logs!Ok
  <2>. QED
    BY <2>2 DEF Elsewhere, BackupKinds
<1>3. CASE o \in Logs!CollectAppSec(a).obs
  <2>1. Logs!AllAnswered(a, {"matches", "lines"})
    BY <1>3 DEF Logs!CollectAppSec, Logs!Panicked
  <2>2. \/ \E s, p, v : o = <<"appsec_matches_24h", s, p, v>>
        \/ \E s, p, v : o = <<"appsec_unavailable", s, p, v>>
    BY <1>3, <2>1, Zenon DEF Logs!CollectAppSec, Logs!Ok, Logs!When
  <2>. QED
    BY <2>2 DEF Elsewhere, BackupKinds
<1>4. CASE o \in Logs!CollectUpdates(a).obs
  <2>1. a.stream # None
    BY <1>4 DEF Logs!CollectUpdates, Logs!Panicked
  <2>2. \E s, p, v : o = <<"image_updates", s, p, v>>
    BY <1>4, <2>1, Zenon DEF Logs!CollectUpdates, Logs!Ok
  <2>. QED
    BY <2>2 DEF Elsewhere, BackupKinds
<1>. QED
  BY <1>1, <1>2, <1>3, <1>4

LEMMA RepositoriesElsewhere ==
  ASSUME NEW a, NEW o \in Outside!CollectGithub(a).obs
  PROVE  Elsewhere(o)
<1>. DEFINE Repos == {r \in a.repos : ~r.archived}
<1>1. /\ a.token # None /\ Outside!AllAnswered(a, {"user", "repos"})
      /\ ~ \E r \in Repos : None \in {r.runs, r.dependabot, r.scanning}
  BY Zenon DEF Outside!CollectGithub, Outside!Panicked, Outside!Unavailable
<1>2. \/ \E s, p, v : o = <<"github_token_expiry", s, p, v>>
      \/ \E r : o \in Outside!RepoObservations(r)
  BY <1>1, Zenon DEF Outside!CollectGithub, Outside!Ok, Outside!When
<1>3. CASE \E s, p, v : o = <<"github_token_expiry", s, p, v>>
  BY <1>3 DEF Elsewhere, BackupKinds
<1>4. CASE \E r : o \in Outside!RepoObservations(r)
  <2>1. PICK r : o \in Outside!RepoObservations(r)
    BY <1>4
  <2>2. \/ o \in Outside!Workflows(r)
        \/ \E alerts : o \in Outside!Alerts("dependabot_alert", r.name, alerts)
        \/ \E alerts : o \in Outside!Alerts("code_scanning_alert", r.name, alerts)
    BY <2>1, Zenon DEF Outside!RepoObservations
  <2>3. CASE o \in Outside!Workflows(r)
    BY <2>3 DEF Outside!Workflows, Elsewhere, BackupKinds
  <2>4. CASE \E alerts : o \in Outside!Alerts("dependabot_alert", r.name, alerts)
    BY <2>4 DEF Outside!Alerts, Elsewhere, BackupKinds
  <2>5. CASE \E alerts : o \in Outside!Alerts("code_scanning_alert", r.name, alerts)
    BY <2>5 DEF Outside!Alerts, Elsewhere, BackupKinds
  <2>. QED
    BY <2>2, <2>3, <2>4, <2>5
<1>. QED
  BY <1>2, <1>3, <1>4

LEMMA FindingsElsewhere ==
  ASSUME NEW a, NEW o \in Outside!CollectDefectDojo(a).obs
  PROVE  Elsewhere(o)
<1>1. /\ a.password # None
      /\ Outside!AllAnswered(a, {"login", "tests", "engagements", "products", "findings"})
      /\ Outside!List(a.findings) # None
  BY Zenon DEF Outside!CollectDefectDojo, Outside!Panicked, Outside!Unavailable
<1>2. \/ \E findings : o \in Outside!FindingObservations(a.tests, findings)
      \/ o \in Outside!StaleScans(a)
  BY <1>1, Zenon DEF Outside!CollectDefectDojo, Outside!Ok
<1>3. CASE \E findings : o \in Outside!FindingObservations(a.tests, findings)
  <2>1. \/ \E s, p, v : o = <<"vuln_new_fixable", s, p, v>>
        \/ \E findings : o \in Outside!PerCVE("vuln_known_exploited", a.tests, findings)
        \/ \E findings : o \in Outside!PerCVE("vuln_high_epss", a.tests, findings)
    BY <1>3, Zenon DEF Outside!FindingObservations
  <2>2. \A kind, findings :
          o \in Outside!PerCVE(kind, a.tests, findings) => \E s, p, v : o = <<kind, s, p, v>>
    BY Zenon DEF Outside!PerCVE
  <2>3. \/ \E s, p, v : o = <<"vuln_new_fixable", s, p, v>>
        \/ \E s, p, v : o = <<"vuln_known_exploited", s, p, v>>
        \/ \E s, p, v : o = <<"vuln_high_epss", s, p, v>>
    BY <2>1, <2>2, Zenon
  <2>. QED
    BY <2>3 DEF Elsewhere, BackupKinds
<1>4. CASE o \in Outside!StaleScans(a)
  <2>1. \E s, p, v : o = <<"vuln_scan_stale", s, p, v>>
    BY <1>4, Zenon DEF Outside!StaleScans
  <2>. QED
    BY <2>1 DEF Elsewhere, BackupKinds
<1>. QED
  BY <1>2, <1>3, <1>4

LEMMA OutsideElsewhere ==
  ASSUME NEW a,
         NEW o \in Outside!CollectHomeAssistant(a).obs \cup Outside!CollectPKI(a).obs \cup
                   Outside!CollectMailDNS(a).obs \cup Outside!CollectHomeIP(a).obs \cup
                   Outside!CollectDMARC(a).obs
  PROVE  Elsewhere(o)
<1>1. CASE o \in Outside!CollectHomeAssistant(a).obs
  <2>1. a.token # None /\ Outside!AllAnswered(a, {"config", "states"})
    BY <1>1 DEF Outside!CollectHomeAssistant, Outside!Panicked, Outside!Unavailable
  <2>2. \/ \E s, p, v : o = <<"ha_unavailable_entities", s, p, v>>
        \/ \E s, p, v : o = <<"ha_safe_mode", s, p, v>>
        \/ \E s, p, v : o = <<"ha_updates_available", s, p, v>>
    BY <1>1, <2>1, Zenon DEF Outside!CollectHomeAssistant, Outside!Ok, Outside!When
  <2>. QED
    BY <2>2 DEF Elsewhere, BackupKinds
<1>2. CASE o \in Outside!CollectPKI(a).obs
  <2>1. \E e : o \in Outside!Endpoint(e, a[e])
    BY <1>2 DEF Outside!CollectPKI, Outside!Panicked, Outside!Ok
  <2>. QED
    BY <2>1 DEF Outside!Endpoint, Elsewhere, BackupKinds
<1>3. CASE o \in Outside!CollectMailDNS(a).obs
  <2>1. Outside!AllAnswered(a, Outside!Asked(a))
    BY <1>3 DEF Outside!CollectMailDNS, Outside!Panicked
  <2>2. \E s, p, v : o = <<"mail_dns_problem", s, p, v>>
    BY <1>3, <2>1, Zenon DEF Outside!CollectMailDNS, Outside!Ok
  <2>. QED
    BY <2>2 DEF Elsewhere, BackupKinds
<1>4. CASE o \in Outside!CollectHomeIP(a).obs
  BY <1>4 DEF Outside!CollectHomeIP, Outside!Panicked, Outside!Ok, Outside!When,
              Elsewhere, BackupKinds
<1>5. CASE o \in Outside!CollectDMARC(a).obs
  <2>1. \/ \E s, p, v : o = <<"dmarc_report_stale", s, p, v>>
        \/ \E s, p, v : o = <<"dmarc_fail_count", s, p, v>>
    BY <1>5 DEF Outside!CollectDMARC, Outside!Panicked, Outside!Unavailable, Outside!Ok,
                Outside!When
  <2>. QED
    BY <2>1 DEF Elsewhere, BackupKinds
<1>. QED
  BY <1>1, <1>2, <1>3, <1>4, <1>5

\* What the report says of the log of a backup is what ssh_facts found.
LEMMA BackupFactsAreOfHosts ==
  ASSUME NEW F, NEW o \in AllObserved(RunCollectors(F)), o[1] \in BackupKinds
  PROVE  o \in Hosts!CollectSSHFacts(AnswersOf("ssh_facts", F)).obs
<1>. DEFINE results == RunCollectors(F)
            all == UNION {results[c].obs \cup Hosts!CollectorHealth(c, results[c]) :
                            c \in Collectors}
<1>1. o \in all
  <2>1. ASSUME o \in Hosts!WdCloudBackupTargetUsage(all) PROVE Elsewhere(o)
    <3>1. \E s, p, v : o = <<"backup_target_usage", s, p, v>>
      BY <2>1, Zenon DEF Hosts!WdCloudBackupTargetUsage
    <3>. QED
      BY <3>1 DEF Elsewhere, BackupKinds
  <2>2. AllObserved(results) = all \cup Hosts!WdCloudBackupTargetUsage(all)
    BY Zenon DEF AllObserved
  <2>. QED
    BY <2>1, <2>2, ElsewhereIs
<1>2. PICK c \in Collectors : o \in results[c].obs \cup Hosts!CollectorHealth(c, results[c])
  BY <1>1
<1>3. o \in results[c].obs
  <2>1. ASSUME o \in Hosts!CollectorHealth(c, results[c]) PROVE Elsewhere(o)
    BY <2>1 DEF Hosts!CollectorHealth, Hosts!When, Elsewhere, BackupKinds
  <2>. QED
    BY <1>2, <2>1, ElsewhereIs
<1>4. o \in Collected(c, AnswersOf(c, F)).obs
  BY <1>3 DEF RunCollectors
<1>5. ASSUME c # "ssh_facts" PROVE Elsewhere(o)
  <2>1. CASE c = "host_metrics"
    BY <1>4, <2>1, MetricsElsewhere DEF Collected
  <2>2. CASE c \in {"containers", "monitor_availability", "uptime_kuma"}
    BY <1>4, <2>2, NumbersElsewhere DEF Collected
  <2>3. CASE c = "logs"
    BY <1>4, <2>3, LogsElsewhere DEF Collected
  <2>4. CASE c \in {"ntfy_access", "csp_reports", "appsec", "updates"}
    BY <1>4, <2>4, LinesElsewhere DEF Collected
  <2>5. CASE c = "github"
    BY <1>4, <2>5, RepositoriesElsewhere DEF Collected
  <2>6. CASE c = "defectdojo"
    BY <1>4, <2>6, FindingsElsewhere DEF Collected
  <2>7. CASE c \in {"homeassistant", "pki", "mail_dns", "home_ip", "dmarc"}
    BY <1>4, <2>7, OutsideElsewhere DEF Collected
  <2>. QED
    BY <1>5, <2>1, <2>2, <2>3, <2>4, <2>5, <2>6, <2>7 DEF Collectors
<1>. QED
  BY <1>4, <1>5, ElsewhereIs DEF Collected

LEMMA BackupLogIs ==
  ASSUME NEW h, NEW s, NEW o \in Hosts!BackupLog(h, s)
  PROVE  /\ "backup" \in DOMAIN s /\ s["backup"] # None
         /\ \/ ~s["backup"].available /\ o = <<"backup_missing", h, "", TRUE>>
            \/ /\ s["backup"].available
               /\ \E v : o = <<"backup_age", h, "", v>>
            \/ /\ s["backup"].available /\ s["backup"].completed
               /\ \/ o = <<"backup_failures", h, "", s["backup"].critical>>
                  \/ \E f \in s["backup"].failed : o = <<"backup_service_failed", h, f, TRUE>>
            \/ /\ s["backup"].available /\ ~s["backup"].completed
               /\ \E k \in {"backup_in_progress", "backup_incomplete"} : o = <<k, h, "", TRUE>>
<1>1. PICK b \in Hosts!Data(s, "backup") :
        o \in IF ~b.available THEN {<<"backup_missing", h, "", TRUE>>}
              ELSE {<<"backup_age", h, "", a>> : a \in Hosts!BackupAge(b)} \cup
                   (IF b.completed
                    THEN {<<"backup_failures", h, "", b.critical>>} \cup
                         {<<"backup_service_failed", h, f, TRUE>> : f \in b.failed}
                    ELSE IF b.running THEN {<<"backup_in_progress", h, "", TRUE>>}
                    ELSE {<<"backup_incomplete", h, "", TRUE>>})
  BY Zenon DEF Hosts!BackupLog
<1>2. "backup" \in DOMAIN s /\ b = s["backup"] /\ b # None
  BY <1>1 DEF Hosts!Data
<1>3. \/ ~b.available /\ o = <<"backup_missing", h, "", TRUE>>
      \/ b.available /\ \E v : o = <<"backup_age", h, "", v>>
      \/ /\ b.available /\ b.completed
         /\ \/ o = <<"backup_failures", h, "", b.critical>>
            \/ \E f \in b.failed : o = <<"backup_service_failed", h, f, TRUE>>
      \/ /\ b.available /\ ~b.completed
         /\ \E k \in {"backup_in_progress", "backup_incomplete"} : o = <<k, h, "", TRUE>>
  BY <1>1, Zenon
<1>. QED
  BY <1>2, <1>3, Zenon

\* What the report says of the backup of a host, by its answer.
BackupSaid(o, s) ==
  \/ s = None /\ o[1] = "facts_unreachable"
  \/ /\ s # None
     /\ "backup" \in DOMAIN s /\ s["backup"] # None
     /\ \/ ~s["backup"].available /\ o[1] = "backup_missing"
        \/ /\ s["backup"].available /\ s["backup"].completed
           /\ \/ o[1] = "backup_failures" /\ o[4] = s["backup"].critical
              \/ o[1] = "backup_service_failed" /\ o[3] \in s["backup"].failed
        \/ /\ s["backup"].available /\ ~s["backup"].completed
           /\ o[1] \in {"backup_in_progress", "backup_incomplete"}

LEMMA BackupIsSaid ==
  ASSUME NEW h, NEW s, NEW o \in Hosts!HostObservations(h, s), o[1] \in BackupKinds
  PROVE  BackupSaid(o, s)
<1>. DEFINE b == s["backup"]
<1>2. CASE s = None
  <2>1. o = <<"facts_unreachable", h, "", TRUE>>
    BY <1>2, HostFacts, Zenon
  <2>. QED
    <3>1. o[1] = "facts_unreachable"
      BY <2>1
    <3>. QED
      BY <1>2, <3>1 DEF BackupSaid
<1>3. CASE s # None
  <2>1. o \in Hosts!BackupLog(h, s)
    BY <1>3, HostFacts, Zenon
  <2>2. "backup" \in DOMAIN s /\ s["backup"] # None
    BY <2>1, BackupLogIs
  <2>3. CASE ~b.available /\ o = <<"backup_missing", h, "", TRUE>>
    <3>1. o[1] = "backup_missing"
      BY <2>3
    <3>. QED
      BY <1>3, <2>2, <2>3, <3>1 DEF BackupSaid
  <2>4. CASE \E v : o = <<"backup_age", h, "", v>>
    <3>1. PICK v : o = <<"backup_age", h, "", v>>
      BY <2>4
    <3>2. o[1] = "backup_age"
      BY <3>1
    <3>. QED
      BY <3>2 DEF BackupKinds
  <2>5. CASE b.available /\ b.completed /\ o = <<"backup_failures", h, "", b.critical>>
    <3>1. o[1] = "backup_failures" /\ o[4] = b.critical
      BY <2>5
    <3>. QED
      BY <1>3, <2>2, <2>5, <3>1 DEF BackupSaid
  <2>6. CASE /\ b.available /\ b.completed
             /\ \E f \in b.failed : o = <<"backup_service_failed", h, f, TRUE>>
    <3>1. PICK f \in b.failed : o = <<"backup_service_failed", h, f, TRUE>>
      BY <2>6
    <3>2. o[1] = "backup_service_failed" /\ o[3] = f
      BY <3>1
    <3>. QED
      BY <1>3, <2>2, <2>6, <3>2 DEF BackupSaid
  <2>7. CASE /\ b.available /\ ~b.completed
             /\ \E k \in {"backup_in_progress", "backup_incomplete"} : o = <<k, h, "", TRUE>>
    <3>1. PICK k \in {"backup_in_progress", "backup_incomplete"} : o = <<k, h, "", TRUE>>
      BY <2>7
    <3>2. o[1] = k
      BY <3>1
    <3>. QED
      BY <1>3, <2>2, <2>7, <3>2 DEF BackupSaid
  <2>. QED
    BY <2>1, <2>3, <2>4, <2>5, <2>6, <2>7, BackupLogIs
<1>. QED
  BY <1>2, <1>3

LEMMA BackupOf ==
  ASSUME NEW F, NEW o \in AllObserved(RunCollectors(F)), o[1] \in BackupKinds
  PROVE  /\ o[2] \in DOMAIN World["ssh_facts"]
         /\ BackupSaid(o, AnswersOf("ssh_facts", F)[o[2]])
<1>1. DOMAIN AnswersOf("ssh_facts", F) = DOMAIN World["ssh_facts"]
  BY DEF AnswersOf
<1>. QED
  BY <1>1, BackupFactsAreOfHosts, FactsAreOfHosts, BackupIsSaid

LEMMA HostsAgree ==
  ASSUME NEW F, NEW o \in AllObserved(RunCollectors(F)),
         Board!HostStatus(AnswersOf("ssh_facts", F)[o[2]]).state = "ok"
  PROVE  /\ o[1] \notin {"backup_missing", "backup_incomplete", "backup_in_progress",
                         "facts_unreachable"}
         /\ o[1] = "backup_failures" => o[4] = 0
<1>. DEFINE s == AnswersOf("ssh_facts", F)[o[2]]
<1>1. /\ s # None /\ "backup" \in DOMAIN s /\ s["backup"] # None
      /\ s["backup"].available /\ s["backup"].completed /\ s["backup"].critical = 0
  BY DEF Board!HostStatus, Board!Unknown, Board!IsAvailable, Board!Section, Board!LooksWell
<1>2. CASE o[1] \in BackupKinds
  BY <1>1, <1>2, BackupOf DEF BackupSaid
<1>3. CASE o[1] \notin BackupKinds
  BY <1>3 DEF BackupKinds
<1>. QED
  BY <1>2, <1>3

LEMMA EntriesAgree ==
  ASSUME OneHostList, NEW F, NEW e \in Entries, NEW o \in AllObserved(RunCollectors(F)),
         o[1] = "backup_service_failed", o[2] = e.host, Mentions(o[3], e.name)
  PROVE  Board!Snapshot(Entries, PageHosts, AnswersOf("ssh_facts", F), None).badges[e] = "failed"
<1>. DEFINE a == AnswersOf("ssh_facts", F)
            s == a[e.host]
            sources == {PageHosts[i] : i \in DOMAIN PageHosts} \cap {x.host : x \in Entries}
            statuses == [h \in sources |-> Board!HostStatus(a[h])]
<1>1. /\ e.host \in DOMAIN World["ssh_facts"]
      /\ s # None /\ "backup" \in DOMAIN s /\ s["backup"] # None
      /\ s["backup"].available /\ o[3] \in s["backup"].failed
  BY BackupOf DEF BackupSaid, BackupKinds
<1>2. e.host \in sources
  BY <1>1 DEF OneHostList
<1>3. statuses[e.host].failed = s["backup"].failed
  BY <1>1, <1>2 DEF Board!HostStatus, Board!IsAvailable, Board!Section
<1>4. Board!EntryBadge(e, statuses) = "failed"
  BY <1>1, <1>2, <1>3 DEF Board!EntryBadge
<1>5. Board!Snapshot(Entries, PageHosts, a, None).badges
        = [x \in Entries |-> Board!EntryBadge(x, statuses)]
  BY Zenon DEF Board!Snapshot
<1>. QED
  BY <1>4, <1>5, Zenon

LEMMA TargetsAgree ==
  ASSUME UsageNeedsQuota, NEW F,
         NEW t \in TargetsOf(AnswersOf("ssh_facts", F), AllObserved(RunCollectors(F))),
         t.used # None
  PROVE  \E o \in AllObserved(RunCollectors(F)) :
           o[1] = "backup_target_usage" /\ o[3] = t.name /\ o[4] = t.used
<1>. DEFINE a == AnswersOf("ssh_facts", F)
            all == AllObserved(RunCollectors(F))
            Usage == {x \in all : Hosts!Id(x) = <<"backup_target_usage", "nas", "wd-cloud">>}
            known == {x[4] : x \in Usage}
            derived == IF known = {} THEN None ELSE CHOOSE v \in known : TRUE
            Targets(s) == IF s # None /\ "backup_targets" \in DOMAIN s
                          THEN s["backup_targets"] ELSE None
            sections == [h \in DOMAIN a |-> Targets(a[h])]
<1>1. t \in Text!StateBackupTargets(sections, derived)
  BY Zenon DEF TargetsOf
<1>. HIDE DEF derived
<1>2. PICK h \in DOMAIN sections :
        sections[h] # None /\ \E n \in DOMAIN sections[h] :
                                t = Text!TargetRow(h, n, sections[h][n], derived)
  <2>. HIDE DEF sections
  <2>. QED
    BY <1>1 DEF Text!StateBackupTargets
<1>3. PICK n \in DOMAIN sections[h] : t = Text!TargetRow(h, n, sections[h][n], derived)
  BY <1>2
<1>4. t.name = n
  BY <1>3 DEF Text!TargetRow
<1>5. CASE n = "wd-cloud" /\ sections[h][n].used = None /\ derived # None
  <2>1. t.used = derived
    BY <1>3, <1>5 DEF Text!TargetRow
  <2>2. derived \in known
    BY <1>5 DEF derived
  <2>3. PICK o \in Usage : o[4] = derived
    BY <2>2
  <2>4. o[1] = "backup_target_usage" /\ o[3] = "wd-cloud"
    BY DEF Hosts!Id
  <2>. QED
    BY <1>4, <1>5, <2>1, <2>3, <2>4
<1>6. CASE ~(n = "wd-cloud" /\ sections[h][n].used = None /\ derived # None)
  <2>1. t.used = sections[h][n].used
    BY <1>3, <1>6 DEF Text!TargetRow
  <2>2. /\ h \in DOMAIN World["ssh_facts"] /\ h \in DOMAIN a
        /\ a[h] = FactsOf(h, F) /\ a[h] # None
        /\ "backup_targets" \in DOMAIN a[h] /\ sections[h] = a[h]["backup_targets"]
    BY <1>2 DEF AnswersOf
  <2>3. /\ "backup_targets" \in DOMAIN World["ssh_facts"][h]
        /\ sections[h] = World["ssh_facts"][h]["backup_targets"]
    BY <1>2, <2>2 DEF FactsOf
  <2>4. sections[h][n].quota
    BY <1>2, <2>1, <2>2, <2>3 DEF UsageNeedsQuota, Hosts!Data
  <2>5. <<"backup_target_usage", h, n, t.used>> \in Hosts!BackupTargets(h, a[h])
    BY <1>2, <2>1, <2>2, <2>4 DEF Hosts!BackupTargets, Hosts!Data
  <2>6. Hosts!BackupTargets(h, a[h]) \subseteq Hosts!CollectSSHFacts(a).obs
    <3>1. Hosts!BackupTargets(h, a[h]) \subseteq Hosts!HostObservations(h, a[h])
      BY <2>2 DEF Hosts!HostObservations, Hosts!RockyObservations
    <3>. QED
      BY <2>2, <3>1, FactsAreOfHosts
  <2>7. Hosts!CollectSSHFacts(a).obs \subseteq all
    <3>1. RunCollectors(F)["ssh_facts"] = Hosts!CollectSSHFacts(a) /\ "ssh_facts" \in Collectors
      BY DEF RunCollectors, Collected, Collectors
    <3>. QED
      BY <3>1, ResultsAreObserved
  <2>8. PICK o \in all : o = <<"backup_target_usage", h, n, t.used>>
    BY <2>5, <2>6, <2>7
  <2>9. o[1] = "backup_target_usage" /\ o[3] = n /\ o[4] = t.used
    BY <2>8
  <2>. QED
    BY <1>4, <2>9
<1>. QED
  BY <1>5, <1>6

\* facts.go and sshfacts.go read the same log, system_state.go the answers once
\* more.  Whatever the hosts answer and which of them do not: the page calls no
\* host ok of which the report tells a problem with its backup, marks each entry
\* that the report lists as failed, and the usages in the mail were observed.
THEOREM ThePageIsNeverRosier ==
  ASSUME OneHostList, UsageNeedsQuota
  PROVE  SourceSpec => []ViewsAgree
<1>1. SourceInit => ViewsAgree
  BY DEF SourceInit, ViewsAgree
<1>2. ViewsAgree /\ [SourceNext]_sourceVars => ViewsAgree'
  <2>. SUFFICES ASSUME ViewsAgree, [SourceNext]_sourceVars PROVE ViewsAgree'
    OBVIOUS
  <2>1. CASE Break \/ Mend \/ BackupRuns
    <3>1. views' = None
      BY <2>1, Zenon DEF Break, Mend, BackupRuns, Forget
    <3>. QED
      BY <3>1 DEF ViewsAgree
  <2>2. CASE Look
    <3>. DEFINE a == AnswersOf("ssh_facts", broken)
                snapshot == Board!Snapshot(Entries, PageHosts, a, None)
                all == AllObserved(RunCollectors(broken))
    <3>1. facts' = all /\ views' = PageOf(a, TargetsOf(a, all))
      BY <2>2, Zenon DEF Look
    <3>2. views'.hosts = snapshot.hosts /\ views'.targets = TargetsOf(a, all)
      BY <3>1 DEF PageOf
    <3>3. views'.board.entries = snapshot.badges
      BY <3>1 DEF PageOf, Board!PageData
    <3>4. \A h \in DOMAIN snapshot.hosts : snapshot.hosts[h] = Board!HostStatus(a[h])
      BY DEF Board!Snapshot
    <3>5. ASSUME NEW h \in DOMAIN views'.hosts, views'.hosts[h].state = "ok"
          PROVE  /\ \A k \in {"backup_missing", "backup_incomplete", "backup_in_progress",
                              "facts_unreachable"} : ~Failed(k, h)'
                 /\ \A o \in facts' : o[1] = "backup_failures" /\ o[2] = h => o[4] = 0
      <4>1. Board!HostStatus(a[h]).state = "ok"
        BY <3>2, <3>4, <3>5
      <4>. QED
        BY <3>1, <4>1, HostsAgree DEF Failed
    <3>6. ASSUME NEW e \in Entries, NEW o \in facts', o[1] = "backup_service_failed",
                 o[2] = e.host, Mentions(o[3], e.name)
          PROVE  views'.board.entries[e] = "failed"
      BY <3>1, <3>3, <3>6, EntriesAgree
    <3>7. ASSUME NEW t \in views'.targets, t.used # None
          PROVE  \E o \in facts' : o[1] = "backup_target_usage" /\ o[3] = t.name /\ o[4] = t.used
      BY <3>1, <3>2, <3>7, TargetsAgree
    <3>. QED
      BY <3>5, <3>6, <3>7, Zenon DEF ViewsAgree
  <2>3. CASE UNCHANGED sourceVars
    BY <2>3 DEF sourceVars, looked, ViewsAgree, Failed
  <2>. QED
    BY <2>1, <2>2, <2>3 DEF SourceNext
<1>. QED
  BY <1>1, <1>2, PTL DEF SourceSpec
=============================================================================
