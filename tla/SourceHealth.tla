---------------------------- MODULE SourceHealth ----------------------------
(***************************************************************************)
(* The failures in a row of each source (src/sources/health.rs), as those  *)
(* count them who ask for it: every search of a request's fan-out, through *)
(* the cache of SearchCache, whoever leads its flight, and every fetch of  *)
(* a PDF.  Prewarms and refreshes record nothing.                          *)
(***************************************************************************)
EXTENDS SearchCache, Integers

CONSTANT Threshold    \* DEGRADED_THRESHOLD

ASSUME HealthAssumption == Threshold \in Nat \ {0}

VARIABLES
  fails,    \* consecutive_fails of each source, no further than Threshold
  silent,   \* history: ticks since upstream last answered
  denied    \* history: errors recorded since it has been silent for too long

hvars == <<vars, fails, silent, denied>>

Monitored == {k.source : k \in Keys}
Zero == [s \in Monitored |-> 0]

\* No cache answers for a source that has been silent for longer than this.
Memory(s) == 2 * Ttl([source |-> s])

Least(m, n) == IF m < n THEN m ELSE n

HealthInit == /\ Init
              /\ fails = Zero /\ silent = Zero /\ denied = Zero

-----------------------------------------------------------------------------
\* (Mutant of Record) A success takes one failure off the count.
RecordDecaying(verdict) ==
  fails' = [s \in Monitored |->
              CASE verdict[s] = "ok" -> fails[s] - 1
                [] verdict[s] = "err" -> Least(fails[s] + 1, Threshold)
                [] OTHER -> fails[s]]

\* record_ok and record_err: what the handlers have learnt of each source.
Record(verdict) ==
  fails' = [s \in Monitored |->
              CASE verdict[s] = "ok" -> 0
                [] verdict[s] = "err" -> Least(fails[s] + 1, Threshold)
                [] OTHER -> fails[s]]

\* The histories, from what the handlers record and how upstream calls end.
Remember(verdict, call) ==
  /\ silent' = [s \in Monitored |->
                  IF call[s] = "ok" THEN 0
                  ELSE Least(silent[s] + (now' - now), Memory(s) + 1)]
  /\ denied' = [s \in Monitored |->
                  IF silent'[s] <= Memory(s) THEN 0
                  ELSE IF verdict[s] = "err" THEN Least(denied[s] + 1, Threshold)
                  ELSE denied[s]]

\* The fan-out records what cached_search returns.
Verdict(s) == IF reply' = None \/ reply'.key.source # s THEN "none"
              ELSE IF reply'.out.ok THEN "ok" ELSE "err"

\* How a search call of source s that is under way ends in this step.
Call(s) ==
  LET asking == {t \in Task : At(t, "fetch") /\ KeyOf(t).source = s}
  IN  IF \E t \in asking : FetchOk(t) THEN "ok"
      ELSE IF \E t \in asking : FetchErr(t) THEN "err" ELSE "none"

Serve ==
  /\ \/ \E t \in Task :
          \/ \E k \in Keys, kind \in {"request", "detached"} : Start(t, k, kind)
          \/ Step(t)
          \/ Cancel(t)
     \/ \E k \in Keys : Evict(k)
     \/ Tick
  /\ LET verdict == [s \in Monitored |-> Verdict(s)]
         call == [s \in Monitored |-> Call(s)]
     IN  Record(verdict) /\ Remember(verdict, call)

\* pdf_handler: a PDF of the source is fetched, or not.
FetchPdf(s, outcome) ==
  LET verdict == [x \in Monitored |-> IF x = s THEN outcome ELSE "none"]
  IN  /\ NoReply
      /\ UNCHANGED <<now, l1, l2, flight, task>>
      /\ Record(verdict) /\ Remember(verdict, verdict)

PdfOk(s) == FetchPdf(s, "ok")
PdfErr(s) == FetchPdf(s, "err")

\* The counts are in memory only.
RestartAll == /\ Restart
              /\ fails' = Zero /\ denied' = Zero
              /\ UNCHANGED silent

HealthNext == \/ Serve
              \/ \E s \in Monitored : PdfOk(s) \/ PdfErr(s)
              \/ RestartAll

HealthSpec == HealthInit /\ [][HealthNext]_hvars

-----------------------------------------------------------------------------
Degraded(s) == fails[s] >= Threshold

\* Type invariant.
HealthTypeOK ==
  /\ fails \in [Monitored -> 0 .. Threshold]
  /\ \A s \in Monitored : silent[s] \in 0 .. Memory(s) + 1
  /\ denied \in [Monitored -> 0 .. Threshold]

\* A real outage shows (health.rs, 18-22), if not within one search: cached
\* answers count as successes and hide it for two TTLs at most, after which
\* any Threshold errors that visitors meet, whatever the tiers still hold and
\* whatever is refreshed, make the source degraded.
OutageShows == \A s \in Monitored : denied[s] >= Threshold => Degraded(s)

==============================================================================
