------------------------------- MODULE Remote -------------------------------
(***************************************************************************)
(* An agent's question on its way to the store: the MCP server             *)
(* (bkb-mcp/src/tools.rs) reads JSON-RPC lines from stdin one at a time,   *)
(* its store is a client of the HTTP API (bkb-mcp/src/remote_store.rs),    *)
(* and the handlers of the API (bkb-server/src/api.rs) ask the database.   *)
(*                                                                         *)
(* A question is written down twice on the way, as the arguments of a tool *)
(* and as a URL, and read again each time.  The same trait is implemented  *)
(* by the database itself, which a tool would ask directly: Asked is what  *)
(* the tool asks of the trait, Received what the database is asked.        *)
(*                                                                         *)
(* Texts are members of small sets; of one it matters whether it is empty, *)
(* has a space or begins with a slash, of the name of a repository what a  *)
(* URL makes of it, of a date in which of the ISO 8601 forms it is written.*)
(***************************************************************************)
EXTENDS Integers, Sequences, FiniteSets

CONSTANTS
  Texts,       \* queries, ids, entities and concepts
  Empty,       \* the one of no characters
  Plussed,     \* Plussed[t]: t with each space written as a plus sign
  Unslashed,   \* Unslashed[t]: t without the slash it begins with
  Lists,       \* the lists of source types an agent writes
  KnownTypes,  \* the source types that there are
  Repos,       \* the names of repositories an agent writes
  RepoLists,   \* the lists of them
  RepoRead,    \* RepoRead[r]: the names a handler reads of r written as it is
  Hashed,      \* the names with a number sign, where a URL's query ends
  Amped,       \* the names with an ampersand, where its parameter ends
  Adds,        \* Adds[r]: the limit written after r's ampersand, or None
  Days,
  Numbers,     \* the integers an agent may write
  Width,       \* bound: u32 holds 0 .. Width - 1
  MostRefs,    \* 100, the most references the API returns
  MaxLines,    \* bound: the lines of a session
  None

Maybe(S) == S \cup {None}

ASSUME TextsAssumption ==
  /\ Empty \in Texts /\ Plussed \in [Texts -> Texts \cup {"plus"}]
  /\ Plussed[Empty] = Empty
  /\ DOMAIN Unslashed = Texts \cup {"plus"}

ASSUME NamesAssumption ==
  /\ RepoLists \subseteq Seq(Repos) \ {<<>>}
  /\ DOMAIN RepoRead = Repos /\ Hashed \cup Amped \subseteq Repos /\ Hashed \cap Amped = {}
  /\ \A r \in Hashed \cup Amped : r \notin RepoRead[r]
  /\ Adds \in [Amped -> Maybe(0 .. Width - 1)]

ASSUME NumbersAssumption ==
  Width \in Nat \ {0} /\ Numbers \subseteq Nat /\ MostRefs \in 1 .. Width - 1 /\ MaxLines \in Nat

VARIABLES
  lines,    \* what the agent has written to stdin: the kind and the id of each
            \* line (what a call says is chosen when it is read)
  read,     \* the number of lines that have been read
  call,     \* the tools/call being answered, or None
  url,      \* the HTTP request under way, or None
  asked,    \* what the database is asked, or None
  reply,    \* the HTTP status of the answer, or None
  proxied,  \* whether it is a proxy's and not the API's (history)
  out       \* the responses written to stdout

vars == <<lines, read, call, url, asked, reply, proxied, out>>

-----------------------------------------------------------------------------
(* Dates.                                                                  *)

\* plain: 2023-01-01; zulu and offset: RFC 3339 with Z and with +00:00;
\* blank: what is left of an offset when its sign has become a space.
Dates == [day : Days, form : {"plain", "zulu", "offset"}]

\* parse_datetime
ParseDate(t) == IF t # None /\ t.form \in {"plain", "zulu", "offset"} THEN t.day ELSE None

\* parse_from_rfc3339, which takes no plain date
ParseRfc3339(t) == IF t # None /\ t.form \in {"zulu", "offset"} THEN t.day ELSE None

\* to_rfc3339
Written(day) == IF day = None THEN None ELSE [day |-> day, form |-> "offset"]

\* A plus sign in the query of a URL is a space.
FormDecoded(t) == IF t # None /\ t.form = "offset" THEN [t EXCEPT !.form = "blank"] ELSE t

-----------------------------------------------------------------------------
(* Arguments, and what the tools make of them (tool_search to              *)
(* tool_find_commit).                                                      *)

SearchArgs ==
  [tool : {"search"}, query : {Empty}, types : Maybe(Lists),
   repos : Maybe(RepoLists), after : Maybe(Dates),
   deduplicate : Maybe(BOOLEAN), limit : Maybe(Numbers)]
DocumentArgs == [tool : {"document"}, id : Maybe(Texts), raw : Maybe(BOOLEAN)]
ReferencesArgs == [tool : {"references"}, entity : Maybe(Texts), limit : Maybe(Numbers)]
Lookups == {"bip", "bolt", "blip", "lud", "nut"}
LookupArgs == [tool : Lookups, number : Maybe(Numbers)]
TimelineArgs == [tool : {"timeline"}, concept : Maybe(Texts), after : Maybe(Dates)]
FindArgs == [tool : {"find_commit"}, query : Maybe(Texts), repo : Maybe(Repos)]

\* as u32
U32(n) == IF n = None THEN None ELSE n % Width

\* The known names of a list; a list of none is a list.
Parsed(names) == IF names = None THEN None ELSE names \cap KnownTypes

AskedSearch(a) ==
  [op |-> "search", query |-> a.query, types |-> Parsed(a.types), repos |-> a.repos,
   after |-> ParseDate(a.after), deduplicate |-> a.deduplicate, limit |-> U32(a.limit)]

AskedDocument(a) ==
  [op |-> IF a.raw = TRUE THEN "raw_document" ELSE "document", id |-> a.id]

AskedReferences(a) ==
  [op |-> "references", entity |-> a.entity,
   limit |-> IF a.limit = None THEN 50 % Width ELSE U32(a.limit)]

AskedLookup(a) == [op |-> a.tool, number |-> U32(a.number)]

AskedTimeline(a) ==
  [op |-> "timeline", concept |-> a.concept, after |-> ParseRfc3339(a.after)]

AskedCommit(a) == [op |-> "find_commit", query |-> a.query, repo |-> a.repo]

\* A required argument that is not there, or an unknown tool.
Refused(a) ==
  \/ a.tool = "unknown"
  \/ a.tool = "document" /\ a.id = None
  \/ a.tool = "references" /\ a.entity = None
  \/ a.tool \in Lookups /\ a.number = None
  \/ a.tool = "timeline" /\ a.concept = None
  \/ a.tool = "find_commit" /\ a.query = None

Asked(a) ==
  CASE a.tool = "search" -> AskedSearch(a)
    [] a.tool = "document" -> AskedDocument(a)
    [] a.tool = "references" -> AskedReferences(a)
    [] a.tool \in Lookups -> AskedLookup(a)
    [] a.tool = "timeline" -> AskedTimeline(a)
    [] a.tool = "find_commit" -> AskedCommit(a)

-----------------------------------------------------------------------------
(* RemoteApiStore: the question as a URL.  A segment of the path and the   *)
(* values of the query are written by the same function, but the names of  *)
(* repositories are not: they are joined as they are.                      *)

\* Slip: the raw record is asked for like any other.
DocumentUrlAlike(q) == [op |-> "document", segment |-> Plussed[q.id], raw |-> FALSE]

DocumentUrl(q) ==
  [op |-> "document", segment |-> Plussed[q.id], raw |-> q.op = "raw_document"]

SearchUrl(q) == [q EXCEPT !.after = Written(q.after)]

ReferencesUrl(q) == [op |-> "references", segment |-> Plussed[q.entity], limit |-> q.limit]

LookupUrl(q) == q

TimelineUrl(q) ==
  [op |-> "timeline", segment |-> Plussed[q.concept], after |-> Written(q.after)]

CommitUrl(q) == q

Url(q) ==
  CASE q.op = "search" -> SearchUrl(q)
    [] q.op \in {"document", "raw_document"} -> DocumentUrl(q)
    [] q.op = "references" -> ReferencesUrl(q)
    [] q.op \in Lookups -> LookupUrl(q)
    [] q.op = "timeline" -> TimelineUrl(q)
    [] q.op = "find_commit" -> CommitUrl(q)

\* The routes of serve: none has an empty segment.
Routed(u) == ~(u.op \in {"document", "references", "timeline"} /\ u.segment = Empty)

\* The last of the names that is read as one: source_repo ends with it.
LastRead(repos) ==
  LET ends == {i \in DOMAIN repos : repos[i] \in Hashed \cup Amped}
  IN  IF ends = {} THEN Len(repos) ELSE CHOOSE i \in ends : \A j \in ends : i <= j

ReposRead(repos) ==
  IF repos = None THEN None ELSE UNION {RepoRead[repos[i]] : i \in 1 .. LastRead(repos)}

\* What is written after source_repo is lost, or a limit is added to it (of the
\* parameters a name may add only this one, which a search has too).
IsCut(u) == u.repos # None /\ u.repos[LastRead(u.repos)] \in Hashed

Added(u) ==
  IF u.repos # None /\ u.repos[LastRead(u.repos)] \in Amped
  THEN Adds[u.repos[LastRead(u.repos)]] ELSE None

\* A query in which the limit stands twice is refused.
Twice(u) == u.op = "search" /\ Added(u) # None /\ u.limit # None

\* The handlers: percent signs are decoded in the path, plus signs in the query.
ReceivedSearch(u) ==
  [u EXCEPT !.types = Parsed(u.types), !.repos = ReposRead(u.repos),
            !.after = IF IsCut(u) THEN None ELSE ParseDate(FormDecoded(u.after)),
            !.limit = IF IsCut(u) THEN None ELSE IF Added(u) # None THEN Added(u) ELSE u.limit]

ReceivedDocument(u) ==
  [op |-> IF u.raw THEN "raw_document" ELSE "document", id |-> Unslashed[u.segment]]

ReceivedReferences(u) ==
  [op |-> "references", entity |-> u.segment,
   limit |-> IF u.limit < MostRefs THEN u.limit ELSE MostRefs]

ReceivedTimeline(u) ==
  [op |-> "timeline", concept |-> u.segment, after |-> ParseRfc3339(FormDecoded(u.after))]

Received(u) ==
  CASE u.op = "search" -> ReceivedSearch(u)
    [] u.op = "document" -> ReceivedDocument(u)
    [] u.op = "references" -> ReceivedReferences(u)
    [] u.op = "timeline" -> ReceivedTimeline(u)
    [] OTHER -> u

-----------------------------------------------------------------------------
(* The session.                                                            *)

Args ==
  SearchArgs \cup DocumentArgs \cup ReferencesArgs \cup LookupArgs \cup TimelineArgs
    \cup FindArgs \cup {[tool |-> "unknown"]}

\* id None: a notification, or an id of null, which is read as none.
Line(kind, id) == [kind |-> kind, id |-> id]
Call(id, a) == [id |-> id, args |-> a]

\* page: a success whose body is not the API's JSON
Statuses == {"ok", "not_found", "bad_request", "internal_error", "page", "no_connection"}

\* None is no call, no request, no question and no status.
ASSUME NoneAssumption ==
  /\ \A id \in 1 .. MaxLines, a \in Args :
       None # Call(id, a) /\ (~Refused(a) =>
         Url(Asked(a)) # None /\ Received(Url(Asked(a))) # None)
  /\ None \notin Statuses

\* binary: a line that is not UTF-8
Kinds == {"blank", "garbage", "binary", "initialize", "list", "call", "other"}

Response(id, kind) == [id |-> id, kind |-> kind]

\* The agent numbers its requests.
Send(line) ==
  /\ Len(lines) < MaxLines
  /\ lines' = Append(lines, line)
  /\ UNCHANGED <<read, call, url, asked, reply, proxied, out>>

\* Slip: a notification is answered.
SilentOnlyIfBlank(line) == line.kind = "blank"

Silent(line) == line.kind \in {"blank", "binary"} \/ (line.kind # "garbage" /\ line.id = None)

\* What the loop answers without the store.
Immediate(line) ==
  CASE line.kind = "garbage" -> Response(None, "parse_error")
    [] line.kind \in {"initialize", "list"} -> Response(line.id, "result")
    [] line.kind = "other" -> Response(line.id, "no_method")
    [] line.kind = "call" -> Response(line.id, "tool_error")

\* The loop ends at a line that cannot be read as text.
Ended == \E n \in 1 .. read : lines[n].kind = "binary"

Ready == call = None /\ ~Ended

ReadLine ==
  /\ Ready
  /\ read < Len(lines)
  /\ read' = read + 1
  /\ \E a \in Args :
       LET line == lines[read + 1]
           called == line.kind = "call" /\ ~Silent(line) /\ ~Refused(a)
       IN  /\ IF called
              THEN call' = Call(line.id, a) /\ url' = Url(Asked(a))
              ELSE UNCHANGED <<call, url>>
           /\ out' = IF called \/ Silent(line) THEN out ELSE Append(out, Immediate(line))
  /\ UNCHANGED <<lines, asked, reply, proxied>>

\* The API takes the request: a handler asks the database, or there is no route
\* or no handler for it.
Handle ==
  /\ url # None /\ asked = None /\ reply = None
  /\ IF Routed(url) /\ ~Twice(url)
     THEN asked' = Received(url) /\ UNCHANGED reply
     ELSE reply' = (IF Routed(url) THEN "bad_request" ELSE "not_found") /\ UNCHANGED asked
  /\ UNCHANGED <<lines, read, call, url, proxied, out>>

\* The operations whose answer may be that there is no such thing.
MayBeAbsent == {"document", "raw_document"} \cup Lookups

DatabaseAnswers ==
  /\ asked # None /\ reply = None
  /\ reply' \in {"ok", "internal_error"} \cup (IF asked.op \in MayBeAbsent THEN {"not_found"} ELSE {})
  /\ UNCHANGED <<lines, read, call, url, asked, proxied, out>>

\* Something on the way to the API answers in its place.
ProxyAnswers ==
  /\ url # None /\ asked = None /\ reply = None
  /\ reply' \in {"not_found", "page", "internal_error"}
  /\ proxied' = TRUE
  /\ UNCHANGED <<lines, read, call, url, asked, out>>

\* The API cannot be reached, or goes away before it has answered.
ConnectionFails ==
  /\ url # None /\ reply = None
  /\ reply' = "no_connection"
  /\ UNCHANGED <<lines, read, call, url, asked, proxied, out>>

\* Slip: whatever is not a success was not found.
OutcomeOfAny(status) == IF status = "ok" THEN "result" ELSE "absent"

\* "... not found" is a result; every other failure is a tool's error.
Outcome(status) ==
  CASE status = "ok" -> "result"
    [] status = "not_found" /\ Asked(call.args).op \in MayBeAbsent -> "absent"
    [] OTHER -> "tool_error"

\* Slip: an error of the store ends the call without a response.
AnsweredUnlessFailed(status) ==
  IF Outcome(status) = "tool_error" THEN out ELSE Append(out, Response(call.id, Outcome(status)))

Answered(status) == Append(out, Response(call.id, Outcome(status)))

Respond ==
  /\ reply # None
  /\ out' = Answered(reply)
  /\ call' = None /\ url' = None /\ asked' = None /\ reply' = None /\ proxied' = FALSE
  /\ UNCHANGED <<lines, read>>

-----------------------------------------------------------------------------
Init ==
  /\ lines = <<>> /\ read = 0
  /\ call = None /\ url = None /\ asked = None /\ reply = None /\ proxied = FALSE
  /\ out = <<>>

Agent == \E id \in {Len(lines) + 1, None}, kind \in Kinds : Send(Line(kind, id))

Next ==
  Agent \/ ReadLine \/ Handle \/ DatabaseAnswers \/ ProxyAnswers \/ ConnectionFails \/ Respond

Spec == Init /\ [][Next]_vars

\* The loop goes on as long as there are lines, and each HTTP request ends: the
\* client sets no time limit, so this is assumed of the network and the API.
FairSpec ==
  Spec /\ WF_vars(ReadLine) /\ WF_vars(Handle) /\ WF_vars(DatabaseAnswers) /\ WF_vars(Respond)

-----------------------------------------------------------------------------
(* Properties.                                                             *)

Pending == IF call = None THEN <<>> ELSE <<call.id>>

\* The lines read so far that are owed a response, and the place of each
\* among the responses.
Due ==
  {n \in 1 .. read :
     \/ lines[n].kind = "garbage"
     \/ lines[n].kind \notin {"blank", "binary"} /\ lines[n].id # None}

Turn(n) == Cardinality({m \in Due : m <= n})

\* Numbers that reach the database fit its parameters.
TypeOK ==
  /\ asked # None =>
       \A f \in DOMAIN asked \cap {"limit", "number"} : asked[f] \in Maybe(0 .. Width - 1)
  /\ reply \in Maybe(Statuses) /\ proxied \in BOOLEAN
  /\ read \in 0 .. Len(lines) /\ Len(lines) <= MaxLines
  /\ call = None <=> url = None
  /\ asked # None \/ reply # None => url # None
  /\ Len(out) <= read
  /\ \A i \in DOMAIN out :
       out[i].kind \in {"result", "absent", "tool_error", "no_method", "parse_error"}

\* The responses are those of the lines that have been read, in their order:
\* one for each that has an id or cannot be parsed, none for any other, and the
\* call that is under way is the only one that waits.
AnswersInOrder ==
  LET ids == [i \in DOMAIN out |-> out[i].id] \o Pending
  IN  /\ Len(ids) = Cardinality(Due)
      /\ \A n \in Due : ids[Turn(n)] = IF lines[n].kind = "garbage" THEN None ELSE lines[n].id

\* What becomes of a text in a path: its spaces are plus signs, and an id is
\* read without a slash it begins with.
Rewritten(field, t) == Plussed[t] # t \/ (field = "id" /\ Unslashed[t] # t)

\* The names of a search are read as they were written.
Legible(repos) == repos = None \/ \A i \in DOMAIN repos : RepoRead[repos[i]] = {repos[i]}

\* A number is the agent's if it fits.
SameNumber(n, m) == m # None /\ m < Width => n = m

\* The database is asked what the agent asked: in the same operation, of the
\* same text (but for what a path makes of it) and the same number (if it
\* fits), with the same filters (but for names that a URL cannot hold as they
\* are, and for dates, which DatesReach is about) and at most as much.
SameQuestion ==
  asked # None =>
    LET a == call.args  q == Asked(a)
    IN  /\ asked.op = q.op
        /\ \A f \in DOMAIN q \cap {"id", "entity", "concept"} :
             asked[f] = a[f] \/ Rewritten(f, a[f])
        /\ \A f \in DOMAIN q \cap {"query", "types", "deduplicate", "repo"} : asked[f] = q[f]
        /\ a.tool \in Lookups => SameNumber(asked.number, a.number)
        /\ a.tool = "references" =>
             /\ asked.limit <= MostRefs
             /\ a.limit # None /\ a.limit <= MostRefs => asked.limit = a.limit
        /\ a.tool = "search" /\ Legible(a.repos) =>
             /\ asked.repos = IF a.repos = None THEN None ELSE {a.repos[i] : i \in DOMAIN a.repos}
             /\ SameNumber(asked.limit, a.limit) /\ (a.limit = None => asked.limit = None)

\* The database was asked for the very thing the agent named: by an id that a
\* path leaves as it is, or a number that fits.
OfThatThing(a) ==
  /\ a.tool = "document" => asked.id = a.id \/ Rewritten("id", a.id)
  /\ a.tool \in Lookups => asked.op = a.tool /\ SameNumber(asked.number, a.number)

\* An agent is told that a thing does not exist only if the database said so of
\* that very thing, if nothing can have that name, or if a proxy answered 404;
\* and is given an answer only if the database gave one: neither when the API
\* failed, was not there, or something else answered with a page.
AbsentMeansAbsent ==
  [][ Len(out') > Len(out) /\ call # None =>
      LET kind == out'[Len(out')].kind
      IN  /\ kind = "absent" =>
               /\ reply = "not_found"
               /\ \/ asked # None /\ OfThatThing(call.args)
                  \/ asked = None /\ (proxied \/ url.segment = Empty)
          /\ kind = "result" => reply = "ok" /\ asked # None /\ ~proxied
    ]_vars

AwaitsAnswer(i) ==
  /\ Len(lines) >= i /\ lines[i].id = i /\ lines[i].kind \notin {"blank", "garbage"}
  /\ \A n \in 1 .. i : lines[n].kind # "binary"

\* Every request gets its response, unless the loop ends before it at a line
\* that is not text.
EveryLineIsAnswered ==
  \A i \in 1 .. MaxLines : AwaitsAnswer(i) ~> \E j \in DOMAIN out : out[j].id = i

\* The tools say of their dates "Created after (ISO 8601)" and "Start date
\* (ISO 8601)": a date that an agent writes in that form reaches the database.
DatesReach ==
  /\ asked # None /\ asked.op \in {"search", "timeline"} /\ call.args.after # None
  /\ asked.op = "search" => Legible(call.args.repos)
  => asked.after = call.args.after.day

=============================================================================
