------------------------------- MODULE NativeCalls -------------------------------
(* The calls that send a native command once: Execute (native.go), Query and  *)
(* Count (query.go), by a Client or by a Dataset that binds them to its       *)
(* resource (dataset_native.go), and CheckHealth (client.go).  The            *)
(* application runs commands between the pages of a traversal with Query.     *)
EXTENDS Integers, Sequences, SequencesExt

CONSTANTS
    Commands,          \* commands an application passes
    Canonical,         \* the URIs that uri.Parse accepts
    Resource,          \* the URI of the Dataset
    Encoding,          \* the content type of its documents
    Values,            \* what NewBSONCommand is asked to encode
    Sorts,             \* lists of sort fields
    Projections,       \* lists of projected fields, or Nil
    Blank, NotUTF8,    \* field names that are blank or not UTF-8
    PageSizes,         \* page sizes of a traversal, zero for the default
    BadPages,          \* other page numbers the application may pass
    BadSizes,          \* other page sizes
    DefaultPageSize, MaxPageSize, MaxUint32,
    Total,             \* how many documents match the query
    Nil

ASSUME PageBounds ==
    /\ DefaultPageSize \in 1 .. MaxPageSize
    /\ PageSizes \subseteq 0 .. MaxPageSize
    /\ MaxUint32 \in Nat
    /\ BadPages \cap (0 .. MaxUint32) = {}
    /\ BadSizes \cap (0 .. MaxPageSize) = {}
    /\ MaxPageSize \in Nat
    /\ Total \in Nat
    /\ Nil \notin Nat

\* A command, as far as toProto tells commands apart: no content type, one that
\* does not parse, and the two that Datasets use; a payload that is BSON or not.
CommandRecords ==
    [uri : STRING,
     contentType : {"none", "malformed", "json", "bson"},
     payload : {"none", "json", "bson"},
     headers : {"well formed", "unnamed"}]

ASSUME CommandsAssumption ==
    /\ Commands \subseteq CommandRecords
    /\ Canonical \subseteq STRING
    /\ Resource \in Canonical
    /\ Encoding \in {"json", "bson"}

VARIABLES
    phase,             \* "idle", "rpc" or "returned"
    call,              \* the call and the command it sends
    inFlight,          \* requests on their way to the server
    ran,               \* what the store ran for the call
    answer,            \* its answer, if any
    err, value,        \* what the call returned
    next, size,        \* the traversal: the next page and the page size
    seen,              \* the documents of its pages
    finished           \* no page is left

rpcVars == <<inFlight, ran, answer>>
retVars == <<err, value>>
loopVars == <<next, size, seen, finished>>
vars == <<phase, call, rpcVars, retVars, loopVars>>

--------------------------------------------------------------------------------
(* Commands *)

ToProtoOK(c) ==
    /\ c.uri \in Canonical
    /\ c.payload # "none" => c.contentType # "none"
    /\ c.contentType # "malformed"
    /\ c.contentType = "bson" => c.payload \in {"none", "bson"}
    /\ c.headers = "well formed"

\* NewBSONCommand: the value must keep its order, and be a document.
BSONCommand(target, v) ==
    IF target \in Canonical /\ v = "ordered"
    THEN [uri |-> target, contentType |-> "bson", payload |-> "bson", headers |-> "well formed"]
    ELSE Nil

BuiltCommands ==
    {BSONCommand(target, v) : target \in Canonical, v \in Values} \ {Nil}

Bindable(c) == c.uri \in {"", Resource}

Bound(c) ==
    [c EXCEPT !.uri = Resource,
              !.contentType = IF @ = "none" /\ c.payload # "none" THEN Encoding ELSE @]

SortOK(fields) == IsInjective(fields) /\ \A f \in Range(fields) : f # Blank

ProjectionOK(fields) ==
    fields # Nil => IsInjective(fields) /\ \A f \in Range(fields) : f \notin {Blank, NotUTF8}

PageOK(page, n) == page \in 0 .. MaxUint32 /\ n \in 0 .. MaxPageSize

--------------------------------------------------------------------------------
(* A call: checked, sent once, and answered or not. *)

Init == /\ phase = "idle"
        /\ call = Nil
        /\ inFlight = 0
        /\ ran = << >>
        /\ answer = Nil
        /\ err = "none" /\ value = Nil
        /\ next \in {0, 1} /\ size \in PageSizes
        /\ seen = << >>
        /\ finished = FALSE

Send(op, via, given, sent, page) ==
    /\ call' = [op |-> op, via |-> via, given |-> given, command |-> sent, page |-> page]
    /\ inFlight' = inFlight + 1
    /\ phase' = "rpc"
    /\ UNCHANGED <<ran, answer, retVars, loopVars>>

Refuse(op, via, given) ==
    /\ call' = [op |-> op, via |-> via, given |-> given, command |-> Nil, page |-> 0]
    /\ err' = "refused"
    /\ phase' = "returned"
    /\ UNCHANGED <<rpcVars, value, loopVars>>

\* A call with a command: by a Client, by a Dataset, or by a nil one.
Call(op, via, given, page, controlsOK) ==
    LET sent == IF via = "dataset" THEN Bound(given) ELSE given
        ok == /\ via # "nil"
              /\ via = "dataset" => Bindable(given)
              /\ controlsOK
              /\ ToProtoOK(sent)
    IN  /\ phase = "idle"
        /\ \/ ok /\ Send(op, via, given, sent, page)
           \/ ~ok /\ Refuse(op, via, given)

Execute(via, given) == Call("execute", via, given, 0, TRUE)

Count(via, given) == Call("count", via, given, 0, TRUE)

Query(via, given, page, n, sort, projection) ==
    /\ ~finished
    /\ Call("query", via, given, page,
            PageOK(page, n) /\ SortOK(sort) /\ ProjectionOK(projection))

CheckHealth(via) ==
    /\ phase = "idle"
    /\ IF via = "nil" THEN Refuse("health", via, Nil) ELSE Send("health", via, Nil, Nil, 0)

--------------------------------------------------------------------------------
(* The server, and the connection to it. *)

EffectiveSize == IF size = 0 THEN DefaultPageSize ELSE size

\* The server counts pages from one, and takes zero for one.
EffectivePage(page) == IF page = 0 THEN 1 ELSE page

PageOf(page) ==
    LET first == (EffectivePage(page) - 1) * EffectiveSize
        last == IF first + EffectiveSize < Total THEN first + EffectiveSize ELSE Total
    IN  [i \in 1 .. (IF last > first THEN last - first ELSE 0) |-> first + i]

\* The page that was asked for; the page with the extra document by which the
\* server knows that there are more; a page cut short; a document that does not
\* decode, which is Nil.
QueryAnswers(page) ==
    LET docs == PageOf(page)
        more == EffectivePage(page) * EffectiveSize < Total
    IN  {[Documents |-> docs, HasMore |-> more]}
        \cup {[Documents |-> Append(docs, Last(docs) + 1), HasMore |-> h]
                 : h \in {h \in BOOLEAN : more}}
        \cup {[Documents |-> SubSeq(docs, 1, n), HasMore |-> TRUE] : n \in 0 .. Len(docs) - 1}
        \cup {[Documents |-> [docs EXCEPT ![n] = Nil], HasMore |-> more] : n \in DOMAIN docs}

Answers ==
    CASE call.op = "execute" -> {[Success |-> s] : s \in BOOLEAN}
      [] call.op = "query" -> QueryAnswers(call.page)
      [] call.op = "count" -> {[Count |-> Total, Estimated |-> e] : e \in BOOLEAN}
      [] call.op = "health" -> {[Status |-> s] : s \in {"SERVING", "NOT_SERVING"}}

\* Possibly when the caller has given up.
ServerRuns(a) ==
    /\ inFlight > 0
    /\ inFlight' = inFlight - 1
    /\ ran' = Append(ran, call.command)
    /\ answer' = a
    /\ UNCHANGED <<phase, call, retVars, loopVars>>

\* The request is lost, or turned down.
RequestLost ==
    /\ inFlight > 0
    /\ inFlight' = inFlight - 1
    /\ UNCHANGED <<phase, call, ran, answer, retVars, loopVars>>

--------------------------------------------------------------------------------
(* What a call returns. *)

Return(e, v) ==
    /\ phase' = "returned"
    /\ err' = e
    /\ value' = v

Answered(op) == phase = "rpc" /\ call.op = op /\ answer # Nil

\* Faulty variant: one more attempt, as for a read.
SendAgain ==
    /\ phase = "rpc"
    /\ \/ Return("transport", Nil) /\ UNCHANGED inFlight
       \/ inFlight' = inFlight + 1 /\ UNCHANGED <<phase, retVars>>
    /\ UNCHANGED <<call, ran, answer, loopVars>>

\* The stub returns an error and no response: the status of the server, a
\* deadline, a lost connection.
TransportFails ==
    /\ phase = "rpc"
    /\ Return("transport", Nil)
    /\ UNCHANGED <<call, rpcVars, loopVars>>

\* Faulty variant: the response speaks for itself.
ExecuteReturnsOK ==
    /\ Answered("execute")
    /\ Return("none", answer)
    /\ UNCHANGED <<call, rpcVars, loopVars>>

\* A database error returns its response, and a NativeError with it.
ExecuteReturns ==
    /\ Answered("execute")
    /\ Return(IF answer.Success THEN "none" ELSE "native", answer)
    /\ UNCHANGED <<call, rpcVars, loopVars>>

CountReturns ==
    /\ Answered("count")
    /\ Return("none", answer)
    /\ UNCHANGED <<call, rpcVars, loopVars>>

\* Faulty variant: a short page may say that there are more.
AcceptableShortPage(page) ==
    /\ Len(page.Documents) <= EffectiveSize
    /\ \A d \in Range(page.Documents) : d # Nil

AcceptablePage(page) ==
    /\ Len(page.Documents) <= EffectiveSize
    /\ page.HasMore => Len(page.Documents) = EffectiveSize
    /\ \A d \in Range(page.Documents) : d # Nil

\* The application asks for the page after it while HasMore says so.
QueryReturns ==
    /\ Answered("query")
    /\ AcceptablePage(answer)
    /\ Return("none", answer)
    /\ seen' = seen \o answer.Documents
    /\ finished' = ~answer.HasMore
    /\ next' = EffectivePage(call.page) + 1
    /\ UNCHANGED <<call, rpcVars, size>>

QueryRefusesPage ==
    /\ Answered("query")
    /\ ~AcceptablePage(answer)
    /\ Return("protocol", Nil)
    /\ UNCHANGED <<call, rpcVars, loopVars>>

HealthReturns ==
    /\ Answered("health")
    /\ Return(IF answer.Status = "SERVING" THEN "none" ELSE "unhealthy", Nil)
    /\ UNCHANGED <<call, rpcVars, loopVars>>

\* The application goes on once the request is settled on the server's side.
Proceed ==
    /\ phase = "returned" /\ inFlight = 0
    /\ phase' = "idle"
    /\ call' = Nil
    /\ ran' = << >>
    /\ answer' = Nil
    /\ err' = "none" /\ value' = Nil
    /\ UNCHANGED <<inFlight, loopVars>>

\* Another traversal.
Restart ==
    /\ phase = "idle" /\ finished
    /\ next' \in {0, 1} /\ size' \in PageSizes
    /\ seen' = << >>
    /\ finished' = FALSE
    /\ UNCHANGED <<phase, call, rpcVars, retVars>>

Next ==
    \/ \E via \in {"client", "dataset", "nil"} :
        \/ \E given \in Commands \cup BuiltCommands :
            \/ Execute(via, given)
            \/ Count(via, given)
            \/ \E page \in {next} \cup BadPages, sort \in Sorts, projection \in Projections :
                   Query(via, given, page, size, sort, projection)
            \/ \E n \in BadSizes : Query(via, given, next, n, << >>, Nil)
        \/ CheckHealth(via)
    \/ inFlight > 0 /\ \E a \in Answers : ServerRuns(a)
    \/ RequestLost
    \/ TransportFails
    \/ ExecuteReturns \/ CountReturns \/ QueryReturns \/ QueryRefusesPage \/ HealthReturns
    \/ Proceed
    \/ Restart

Spec == Init /\ [][Next]_vars

--------------------------------------------------------------------------------

\* The store runs a command at most once, also after the caller has given up,
\* and it runs the command that was given: its payload under its content type,
\* against the URI it names; a Dataset never runs one against another resource.
RunOnceAsGiven ==
    /\ Len(ran) + inFlight <= 1
    /\ \A c \in Range(ran) :
        c # Nil =>
            /\ c.payload = call.given.payload
            /\ call.given.uri # "" => c.uri = call.given.uri
            /\ call.via = "dataset" => c.uri = Resource
            /\ call.given.contentType # "none" => c.contentType = call.given.contentType

\* What a call returns is what happened: no error means that the store ran the
\* command and succeeded, a NativeError that it ran it and failed, each with the
\* store's own response; a refused call had no effect; any other error comes
\* without a response, and healthy means SERVING.
ReturnTruthful ==
    phase = "returned" =>
        /\ err \in {"none", "native"} => Len(ran) = 1
        /\ err = "refused" => Len(ran) + inFlight = 0
        /\ err \in {"refused", "transport", "protocol", "unhealthy"} => value = Nil
        /\ call.op = "execute" /\ value # Nil =>
              value = answer /\ (err = "none") = answer.Success
        /\ call.op = "health" /\ err = "none" => answer.Status = "SERVING"

\* A traversal that follows HasMore sees every document once and in order, from
\* page 0 or page 1, with calls that fail and pages the server got wrong in
\* between; when it ends, nothing is missing.
PagesComplete ==
    /\ \A i \in DOMAIN seen : seen[i] = i
    /\ finished => Len(seen) = Total

================================================================================
