----------------------------- MODULE LogSources -----------------------------
(***************************************************************************)
(* The collectors that read log lines from Loki and messages from ntfy:    *)
(* logs (healthreport/collectors/loki.go), ntfy_access, csp_reports,       *)
(* appsec and updates.                                                     *)
(*                                                                         *)
(* A range query answers with lines, newest first, and with no more than   *)
(* its limit; an instant query with a function from <<host, part>> to a    *)
(* number.  A line that does not decode is None.                           *)
(***************************************************************************)
EXTENDS Observations, SequencesExt

CONSTANTS
  Ephemeral,           \* names of short-lived containers
  LineLimit,           \* limit of a range query
  MinSignatureCount, MaxSignatures, MaxContainers,
  HourThreshold,       \* Caddy5xxHourThreshold
  DayLength            \* minutes of a day

\* lokiQueryRange: what the limit leaves of the lines.
Newest(lines) == SubSeq(lines, 1, IF Len(lines) < LineLimit THEN Len(lines) ELSE LineLimit)

Count(lines, line) == Cardinality({i \in DOMAIN lines : lines[i] = line})
First(lines, line) == CHOOSE i \in DOMAIN lines :
                        lines[i] = line /\ \A j \in 1..(i - 1) : lines[j] # line

-----------------------------------------------------------------------------
(* Maintenance windows                                                     *)

Weekdays == 7
Daily == -1

\* inWindow: a window that wraps past midnight is its day from the start on,
\* and the next day up to the end.
InOneWindow(w, weekday, minute) ==
  IF w.start <= w.end
  THEN w.day \in {Daily, weekday} /\ w.start <= minute /\ minute < w.end
  ELSE \/ w.day \in {Daily, weekday} /\ minute >= w.start
       \/ w.day \in {Daily, (weekday - 1) % Weekdays} /\ minute < w.end

InWindow(windows, time) ==
  \E w \in windows :
    InOneWindow(w, (time \div DayLength) % Weekdays, time % DayLength)

\* splitMaintenance: a bucket is judged by the hour it starts with.
Kept(points, windows, hour) ==
  {p \in points : ~InWindow(windows, p.at - hour)}

-----------------------------------------------------------------------------
(* collectLogs                                                             *)

\* lokiQueryMatrix: a point is kept when its time stamp decodes as a JSON
\* string.  Loki sends it as a number, so every point is passed over and each
\* series arrives empty.
MatrixPoints(series) == {p \in series : p.quoted}

SumOf(points) ==
  LET sum[S \in SUBSET points] ==
        IF S = {} THEN 0 ELSE LET p == CHOOSE x \in S : TRUE
                              IN p.n + sum[S \ {p}]
  IN sum[points]

\* Answers of the 5xx of the proxy: in total, and in how many hours too many.
Caddy5xx(host, series, windows, hour) ==
  LET kept == Kept(MatrixPoints(series), windows, hour)
  IN {<<"caddy_5xx", host, "", SumOf(kept)>>,
      <<"caddy_5xx_hours", host, "",
        Cardinality({p \in kept : p.n >= HourThreshold})>>}

\* sort.SliceStable by falling counts, then the first max.
Top(max, keys, Before(_, _)) ==
  {k \in keys : Cardinality({j \in keys : Before(j, k)}) < max}

\* Signatures that recur, the most frequent first; a line is <<container,
\* signature, host>> with the signature normalize() gives it.
Signatures(lines) ==
  LET errors == {l \in ToSet(lines) : l[1] \notin Ephemeral /\ l[2] # ""}
      notable == {l \in errors : Count(lines, l) >= MinSignatureCount}
      Before(j, k) == \/ Count(lines, j) > Count(lines, k)
                      \/ /\ Count(lines, j) = Count(lines, k)
                         /\ First(lines, j) < First(lines, k)
  IN {<<"log_signature", l[1], l[2], Count(lines, l)>> :
        l \in Top(MaxSignatures, notable, Before)}

ErrorRates(counts, order) ==
  LET keys == {k \in DOMAIN counts : k[2] \notin Ephemeral}
      Before(j, k) == \/ counts[j] > counts[k]
                      \/ counts[j] = counts[k] /\ order[j] < order[k]
  IN {<<"log_error_rate", k[1], k[2], counts[k]>> :
        k \in Top(MaxContainers, keys, Before)}

\* lokiQueryInstant: a value that does not parse is passed over.
Instant(rows) == [r \in {x \in DOMAIN rows : rows[x] # None} |-> rows[r]]

AuthFailures(rows) == {<<"auth_failures", h, "", rows[h]>> : h \in DOMAIN rows}

CollectLogs(a, windows, hour) ==
  IF ~AllAnswered(a, {"counts", "lines", "auth", "caddy"}) THEN Panicked
  ELSE Ok(Signatures(Newest(a.lines))
          \cup ErrorRates(Instant(a.counts), a.order)
          \cup AuthFailures(Instant(a.auth))
          \cup UNION {Caddy5xx(h, a.caddy[h], windows, hour) : h \in DOMAIN a.caddy})

-----------------------------------------------------------------------------
(* The small ones                                                          *)

\* collectNtfyDenied: a line is [topic, scanner]; requests of scanners are
\* noise, and a line without a topic in its path counts as unknown.
CollectNtfyDenied(a) ==
  IF a.lines = None THEN Panicked
  ELSE LET lines == SelectSeq(Newest(a.lines), LAMBDA l : l = None \/ ~l.scanner)
           Topic(l) == IF l = None THEN "" ELSE l.topic
           Times(t) == Cardinality({i \in DOMAIN lines : Topic(lines[i]) = t})
       IN Ok({<<"ntfy_denied_topic", t, "", Times(t)>> :
                t \in {Topic(l) : l \in ToSet(lines)} \ {""}}
             \cup When(Times("") > 0, {<<"ntfy_denied_unknown", "", "", Times("")>>}))

\* isExtensionNoise: what an extension of the browser brought along.
Extensions == {"chrome-extension", "moz-extension", "safari-extension",
               "safari-web-extension", "ms-browser-extension"}

\* handleReport of cmd/csp-reports: a body is one report of the old kind or a
\* batch; None is a body that does not decode, as one beyond 64 KiB, or a
\* report of a batch that is about something else.  A line is <<directive,
\* document>>.
Logged(body) ==
  LET reports == IF body = None THEN <<>>
                 ELSE SelectSeq(body.reports, LAMBDA r :
                        /\ r # None /\ r.blocked \notin Extensions
                        /\ body.kind = "legacy" => r.document # "")
  IN [i \in DOMAIN reports |->
        <<IF reports[i].effective # "" THEN reports[i].effective ELSE reports[i].violated,
          reports[i].document>>]

\* collectCSPReports, over what csp-reports has logged; None if Loki does not
\* answer.
CollectCSPReports(a) ==
  IF a.bodies = None THEN Panicked
  ELSE LET lines == Newest(Reverse(FlattenSeq([i \in DOMAIN a.bodies |-> Logged(a.bodies[i])])))
       IN Ok({<<"csp_violation", v[2], v[1], Count(lines, v)>> : v \in ToSet(lines)})

\* collectAppSec: matches, and requests that went past AppSec unseen.
CollectAppSec(a) ==
  IF ~AllAnswered(a, {"matches", "lines"}) THEN Panicked
  ELSE Ok({<<"appsec_matches_24h", h, "", a.matches[h]>> :
             h \in {x \in DOMAIN a.matches : a.matches[x] >= 1}}
          \cup When(a.lines # <<>>,
                    {<<"appsec_unavailable", "mljr", "", Len(Newest(a.lines))>>}))

\* collectUpdates: a stream that ends early is not told from a short one.
CollectUpdates(a) ==
  IF a.stream = None THEN Panicked
  ELSE Ok({<<"image_updates", "", "",
             Cardinality({i \in DOMAIN a.stream : a.stream[i] = "message"})>>})
=============================================================================
