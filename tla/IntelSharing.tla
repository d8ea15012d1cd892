---------------------------- MODULE IntelSharing ----------------------------
(***************************************************************************)
(* Threat-intelligence sharing: exports of the blocklist to a partner CERT *)
(* while writers change it.                                                *)
(*                                                                         *)
(* An export is a request to /v1/intel/stix or /v1/intel/misp, which       *)
(* passes the rate limiter and the analyst's role, reads rows, builds a    *)
(* document, commits an audit event and answers; or it is the command      *)
(* `fasoshield intel`, which does without limiter and event.  The partner  *)
(* imports documents by the identifiers of their objects.                  *)
(*                                                                         *)
(* Identifiers are UUIDv5 values and stand for the strings they are        *)
(* derived from.  Wording, markings and the times of objects are left out. *)
(***************************************************************************)
EXTENDS RateLimiter, FiniteSets

CONSTANTS
  Indicators,  \* blocklist keys
  Contents,    \* what a row may hold: its threat's name and a certificate
  NoCert,      \* a row without a certificate
  Exporters,   \* threads of the API and runs of the command
  Queries,     \* parameters of requests: limit; since as from, and whether
               \* newest first, which is for requests without since
  DayLength,   \* seconds of a day
  MaxTime, MaxWrites, MaxExports, MaxFaults  \* bounds

NoContent == [threat |-> "none"]

ASSUME IntelSharingAssumption ==
  /\ IsFiniteSet(Indicators)
  /\ NoContent \notin Contents
  /\ Queries \subseteq [limit : Int, from : Nat, newest : BOOLEAN]
  /\ \A q \in Queries : q.newest => q.from = 0
  /\ DayLength \in Nat \ {0}
  /\ MaxTime \in Nat \ {0}
  /\ MaxWrites \in Nat /\ MaxExports \in Nat /\ MaxFaults \in Nat

VARIABLES
  clock,      \* seconds
  addedAt,    \* addedAt[i]: blocklist.added_at, 0 without a row
  content,    \* content[i]: threat and certificate of the row
  writes,     \* transactions of writers so far
  recert,     \* observer: rows replaced by one with another certificate
  faults,     \* faults so far
  asked,      \* exports so far
  xpc,        \* what the export does next
  ask,        \* its parameters
  number,     \* the how-manieth export it is
  picked,     \* the rows it read, [rows, whole]
  doc,        \* the document it built
  audited,    \* the exports that have an event in audit_events
  delivered,  \* the exports that left through the API
  partner     \* what the partner has imported

baseVars   == <<addedAt, content, writes, recert>>
exportVars == <<asked, xpc, ask, number, picked, doc, audited, delivered, partner>>
vars       == <<clock, faults, baseVars, exportVars, limiterVars>>

Forms == {"stix", "misp"}
Asks == [form : Forms, via : {"api", "cli"}, query : Queries]
NoAsk == [form |-> "none"]
NoRows == [rows |-> [i \in {} |-> NoContent], whole |-> FALSE]
Listed == {i \in Indicators : addedAt[i] # 0}
EmptyBundle == [indicators |-> {}, malware |-> {}, relations |-> {}, events |-> {}]

Init ==
  /\ LimiterInit
  /\ clock = 1 /\ writes = 0 /\ faults = 0
  /\ addedAt = [i \in Indicators |-> 0]
  /\ content = [i \in Indicators |-> NoContent]
  /\ recert = {}
  /\ asked = 0
  /\ xpc = [x \in Exporters |-> "idle"]
  /\ ask = [x \in Exporters |-> NoAsk]
  /\ number = [x \in Exporters |-> 0]
  /\ picked = [x \in Exporters |-> NoRows]
  /\ doc = [x \in Exporters |-> EmptyBundle]
  /\ audited = {}
  /\ delivered = {}
  /\ partner = EmptyBundle

ExportAt(x, to) == xpc' = [xpc EXCEPT ![x] = to]

-----------------------------------------------------------------------------
(* Documents.  R maps the keys of the rows that were read to their         *)
(* contents.  whole tells whether they were all the rows there are, which  *)
(* no document says.                                                       *)

Pattern(i, r) == IF r.cert # NoCert THEN <<"x509-certificate", r.cert>>
                                    ELSE <<"file", i>>

-----------------------------------------------------------------------------
(* Seeded bugs, one mistake each; not part of the specification.           *)

\* The seed is the bare digest.
Seed_Bare(i, r) == IF r.cert # NoCert THEN <<"", r.cert>> ELSE <<"", i>>

\* The identifier is of the day alone.
MispUuid_OfDay(R, day) == <<"misp-event", day>>

\* The event is written by a task that runs after the answer.
AfterBuild_Answers(x) == "answer"

-----------------------------------------------------------------------------
\* _pattern_for: the seed of the identifier names the kind of digest.
Seed(i, r) == IF r.cert # NoCert THEN <<"cert", r.cert>> ELSE <<"file", i>>

IndicatorId(i, r) == <<"indicator", Seed(i, r)>>
MalwareId(r)      == <<"malware", r.threat>>

Indicator(i, r) == [id |-> IndicatorId(i, r), pattern |-> Pattern(i, r)]

Relation(i, r) ==
  [id |-> <<"relationship", Seed(i, r), r.threat>>,
   source |-> IndicatorId(i, r), target |-> MalwareId(r)]

\* stix_bundle: an indicator and a relationship for each row, a malware
\* object for each threat name.
StixBundle(R) ==
  [indicators |-> {Indicator(i, R[i]) : i \in DOMAIN R},
   malware    |-> {MalwareId(R[i]) : i \in DOMAIN R},
   relations  |-> {Relation(i, R[i]) : i \in DOMAIN R},
   events     |-> {}]

\* misp_event: the identifier is of the day and the number of attributes,
\* one for each row.
MispUuid(R, day) == <<"misp-event", day, Cardinality(DOMAIN R)>>

\* The value of a row's attribute: its certificate when it has one.
Value(i, r) == IF r.cert # NoCert THEN r.cert ELSE i

\* The keys of attributes tell rows apart and are in no document.
MispEvent(R, whole, day) ==
  [indicators |-> {}, malware |-> {}, relations |-> {},
   events |-> {[uuid |-> MispUuid(R, day), whole |-> whole,
                attributes |-> [i \in DOMAIN R |-> Value(i, R[i])]]}]

-----------------------------------------------------------------------------
Tick ==
  /\ clock < MaxTime
  /\ clock' = clock + 1
  /\ UNCHANGED <<faults, baseVars, exportVars, limiterVars>>

(* HashDB.add, or import_csv of several rows: one transaction.  approve    *)
(* lists a file or a certificate; the imports may give a row both.         *)
WriteRows ==
  /\ writes < MaxWrites
  /\ \E S \in SUBSET Indicators \ {{}} : \E new \in [S -> Contents] :
       /\ addedAt' = [i \in Indicators |-> IF i \in S THEN clock ELSE addedAt[i]]
       /\ content' = [i \in Indicators |-> IF i \in S THEN new[i] ELSE content[i]]
       /\ recert' = recert \cup {i \in S \cap Listed : new[i].cert # content[i].cert}
  /\ writes' = writes + 1
  /\ UNCHANGED <<clock, faults, exportVars, limiterVars>>

-----------------------------------------------------------------------------
(* Exports.                                                                *)

Begin(x, a) ==
  /\ xpc[x] = "idle" /\ asked < MaxExports
  /\ asked' = asked + 1
  /\ ask' = [ask EXCEPT ![x] = a]
  /\ number' = [number EXCEPT ![x] = asked + 1]
  /\ ExportAt(x, "read")
  /\ UNCHANGED <<clock, faults, baseVars, picked, doc, audited, delivered,
                 partner>>

\* GET /v1/intel/stix or misp by a viewer, which the limiter lets through;
\* the routes have no other limit than one or more.
RequestExport(x, c) ==
  /\ \E a \in Asks : a.via = "api" /\ a.query.limit > 0 /\ Begin(x, a)
  /\ Admit(c, clock)

\* fasoshield intel stix or misp
RunCommand(x) ==
  /\ \E a \in Asks : a.via = "cli" /\ Begin(x, a)
  /\ UNCHANGED limiterVars

\* Any other request of that address, one without a session among them: the
\* middleware runs before the route and its dependencies.
OtherRequest(c) ==
  /\ Admit(c, clock)
  /\ UNCHANGED <<clock, faults, baseVars, exportVars>>

RefuseRequest(c) ==
  /\ Deny(c, clock)
  /\ UNCHANGED <<clock, faults, baseVars, exportVars>>

\* How many of n rows a limit leaves: SQL takes a negative one for none, a
\* slice for so many rows less.
Cut(n, q) ==
  IF q.limit >= 0 THEN AtMost(n, q.limit)
  ELSE IF q.newest THEN n
  ELSE IF n + q.limit < 0 THEN 0 ELSE n + q.limit

\* The rows that a query may return: entries() sorts by added_at and cuts in
\* SQL, entries_since() does not sort and is cut afterwards.
Answers(q) ==
  LET matching == {i \in Listed : addedAt[i] > q.from}
  IN  {S \in SUBSET matching :
         /\ Cardinality(S) = Cut(Cardinality(matching), q)
         /\ q.newest => \A i \in S, j \in matching \ S : addedAt[j] <= addedAt[i]}

ReadExport(x) ==
  /\ xpc[x] = "read"
  /\ \E S \in Answers(ask[x].query) :
       picked' = [picked EXCEPT ![x] =
                    [rows |-> [i \in S |-> content[i]], whole |-> ask[x].form = "misp" /\ S = Listed]]
  /\ ExportAt(x, "build")
  /\ UNCHANGED <<clock, faults, baseVars, asked, ask, number, doc, audited, delivered, partner,
                 limiterVars>>

\* The routes record the export before they answer; the command does not.
AfterBuild(x) == IF ask[x].via = "api" THEN "audit" ELSE "answer"

BuildDocument(x) ==
  /\ xpc[x] = "build"
  /\ doc' = [doc EXCEPT ![x] =
       IF ask[x].form = "stix" THEN StixBundle(picked[x].rows)
       ELSE MispEvent(picked[x].rows, picked[x].whole, clock \div DayLength)]
  /\ picked' = [picked EXCEPT ![x] = NoRows]
  /\ ExportAt(x, AfterBuild(x))
  /\ UNCHANGED <<clock, faults, baseVars, asked, ask, number, audited,
                 delivered, partner, limiterVars>>

Entry(x) == [export |-> number[x], form |-> ask[x].form]

RecordAudit(x) ==
  /\ xpc[x] = "audit"
  /\ audited' = audited \cup {Entry(x)}
  /\ ExportAt(x, "answer")
  /\ UNCHANGED <<clock, faults, baseVars, asked, ask, number, picked, doc,
                 delivered, partner, limiterVars>>

\* The document arrives and the partner imports it by its identifiers.
Deliver(x) ==
  /\ xpc[x] = "answer"
  /\ partner' = [k \in DOMAIN partner |-> partner[k] \cup doc[x][k]]
  /\ delivered' = IF ask[x].via = "api" THEN delivered \cup {Entry(x)} ELSE delivered
  /\ ask' = [ask EXCEPT ![x] = NoAsk]
  /\ number' = [number EXCEPT ![x] = 0]
  /\ doc' = [doc EXCEPT ![x] = EmptyBundle]
  /\ ExportAt(x, "idle")
  /\ UNCHANGED <<clock, faults, baseVars, asked, picked, audited, limiterVars>>

EndExports(X) ==
  /\ xpc' = [x \in Exporters |-> IF x \in X THEN "idle" ELSE xpc[x]]
  /\ ask' = [x \in Exporters |-> IF x \in X THEN NoAsk ELSE ask[x]]
  /\ number' = [x \in Exporters |-> IF x \in X THEN 0 ELSE number[x]]
  /\ picked' = [x \in Exporters |-> IF x \in X THEN NoRows ELSE picked[x]]
  /\ doc' = [x \in Exporters |-> IF x \in X THEN EmptyBundle ELSE doc[x]]
  /\ UNCHANGED <<asked, audited, delivered, partner>>

\* A database raises, the answer is lost, or the command is interrupted.
ExportFails(x) ==
  /\ faults < MaxFaults /\ faults' = faults + 1
  /\ xpc[x] # "idle"
  /\ EndExports({x})
  /\ UNCHANGED <<clock, baseVars, limiterVars>>

\* The API process ends: its requests and the buckets are lost.
ServerRestarts ==
  /\ faults < MaxFaults /\ faults' = faults + 1
  /\ EndExports({x \in Exporters : xpc[x] # "idle" /\ ask[x].via = "api"})
  /\ Forget
  /\ UNCHANGED <<clock, baseVars>>

Watch ==
  /\ OpenWindow(clock)
  /\ UNCHANGED <<clock, faults, baseVars, exportVars>>

Export(x) ==
  \/ \E c \in Callers : RequestExport(x, c)
  \/ RunCommand(x) \/ ReadExport(x) \/ BuildDocument(x) \/ RecordAudit(x) \/ Deliver(x)
  \/ ExportFails(x)

Next ==
  \/ Tick \/ WriteRows
  \/ \E x \in Exporters : Export(x)
  \/ \E c \in Callers : OtherRequest(c) \/ RefuseRequest(c)
  \/ ServerRestarts \/ Watch

Spec == Init /\ [][Next]_vars

-----------------------------------------------------------------------------
Rows == UNION {[S -> Contents] : S \in SUBSET Indicators}

TypeOK ==
  /\ LimiterTypeOK
  /\ clock \in 1 .. MaxTime
  /\ writes \in 0 .. MaxWrites /\ faults \in 0 .. MaxFaults
  /\ addedAt \in [Indicators -> 0 .. MaxTime]
  /\ content \in [Indicators -> Contents \cup {NoContent}]
  /\ \A i \in Indicators : addedAt[i] # 0 => content[i] \in Contents
  /\ recert \subseteq Indicators
  /\ asked \in 0 .. MaxExports
  /\ xpc \in [Exporters -> {"idle", "read", "build", "audit", "answer"}]
  /\ ask \in [Exporters -> Asks \cup {NoAsk}]
  /\ \A x \in Exporters :
       /\ xpc[x] # "idle" <=> ask[x] # NoAsk
       /\ xpc[x] # "idle" => number[x] # 0
       /\ xpc[x] = "audit" => ask[x].via = "api"
  /\ number \in [Exporters -> 0 .. MaxExports]
  /\ picked \in [Exporters -> [rows : Rows, whole : BOOLEAN]]
  /\ audited \cup delivered \subseteq [export : 1 .. MaxExports, form : Forms]

(* intel.py:10-12: "a partner CERT importing two successive bundles        *)
(* updates its objects instead of accumulating duplicates".  Over exports  *)
(* that overlap with writes, fail, or are cut, an indicator identifier     *)
(* means one pattern and a pattern has one, and each relationship joins    *)
(* two objects that the partner has, whichever bundles it missed.          *)
PartnerConsistent ==
  /\ \A a, b \in partner.indicators : a.id = b.id <=> a.pattern = b.pattern
  /\ \A r \in partner.relations :
       /\ r.source \in {a.id : a \in partner.indicators}
       /\ r.target \in partner.malware

(* The identifier of a MISP event tells the day and a number of rows.      *)
(* Rows are never removed, so two exports of the whole base under one      *)
(* identifier list the same rows, and what one lists and the other does    *)
(* not are values of rows whose certificate was replaced in between.       *)
Values(e) == {e.attributes[i] : i \in DOMAIN e.attributes}

EventNamesBase ==
  \A a, b \in partner.events :
    a.uuid = b.uuid /\ a.whole /\ b.whole =>
      \A v \in Values(a) \ Values(b) :
        \E i \in recert \cap DOMAIN a.attributes : v = a.attributes[i]

(* routes/intel.py:3-4: sharing is "a deliberate act, recorded in the      *)
(* audit trail": no document leaves through the API without its event,     *)
(* whatever fails.                                                         *)
SharingAudited ==
  delivered \subseteq audited

(* However requests, refusals, ticks and restarts follow each other, in    *)
(* any window of one process a caller gets a burst and the rate.           *)
BudgetKept == Budget(clock)
=============================================================================
