---------------------------- MODULE NativeCallsProofs ----------------------------
(* NativeCalls proved for any commands, any number of documents and any page   *)
(* size.                                                                       *)
EXTENDS NativeCalls, TLAPS

Ops == {"execute", "count", "query", "health"}

Errors == {"none", "refused", "transport", "protocol", "unhealthy", "native"}

\* The store has run the command of the call, or a request may be on its way;
\* never both.  An answer means that it ran.
RanInv ==
    /\ \/ ran = << >> /\ inFlight \in {0, 1}
       \/ ran = <<call.command>> /\ inFlight = 0
    /\ answer # Nil => ran = <<call.command>>
    /\ phase = "idle" => ran = << >> /\ inFlight = 0 /\ answer = Nil

\* The command of a call is the one that was given, bound or as it was.
CommandInv ==
    phase # "idle" /\ call.command # Nil =>
        /\ call.command.payload = call.given.payload
        /\ call.given.uri # "" => call.command.uri = call.given.uri
        /\ call.via = "dataset" => call.command.uri = Resource
        /\ call.given.contentType # "none" =>
              call.command.contentType = call.given.contentType

\* An answer has the form of the call that it answers.
AnswerInv ==
    phase # "idle" /\ answer # Nil /\ call.op = "execute" => answer.Success \in BOOLEAN

PhaseInv ==
    /\ phase \in {"idle", "rpc", "returned"}
    /\ err \in Errors
    /\ phase # "returned" => value = Nil

CallsInv == RanInv /\ CommandInv /\ AnswerInv /\ PhaseInv /\ ReturnTruthful

CallSteps ==
    \E via \in {"client", "dataset", "nil"} :
        \/ \E given \in Commands \cup BuiltCommands :
            \/ Execute(via, given)
            \/ Count(via, given)
            \/ \E page \in {next} \cup BadPages, sort \in Sorts, projection \in Projections :
                   Query(via, given, page, size, sort, projection)
            \/ \E n \in BadSizes : Query(via, given, next, n, << >>, Nil)
        \/ CheckHealth(via)

ReturnSteps ==
    \/ TransportFails
    \/ ExecuteReturns \/ CountReturns \/ QueryReturns \/ QueryRefusesPage \/ HealthReturns

--------------------------------------------------------------------------------
(* Calls *)

\* NewBSONCommand makes commands too.
LEMMA BuiltRecords == Commands \cup BuiltCommands \subseteq CommandRecords
  <1>1. ASSUME NEW c \in BuiltCommands PROVE c \in CommandRecords
    <2>1. PICK target \in Canonical, v \in Values : c = BSONCommand(target, v)
      BY <1>1 DEF BuiltCommands
    <2>2. c # Nil
      BY <1>1 DEF BuiltCommands
    <2>3. c = [uri |-> target, contentType |-> "bson", payload |-> "bson",
               headers |-> "well formed"]
      BY <2>1, <2>2, Zenon DEF BSONCommand
    <2>4. target \in STRING
      BY CommandsAssumption
    <2>5. QED
      BY <2>3, <2>4 DEF CommandRecords
  <1>2. QED
    BY <1>1, CommandsAssumption

\* Binding names the Dataset's resource and changes nothing that was given.
LEMMA BoundKeeps ==
    ASSUME NEW c \in CommandRecords, Bindable(c)
    PROVE  /\ Bound(c).payload = c.payload
           /\ Bound(c).uri = Resource
           /\ c.uri # "" => Bound(c).uri = c.uri
           /\ c.contentType # "none" => Bound(c).contentType = c.contentType
  BY CommandsAssumption DEF Bound, Bindable, CommandRecords

LEMMA SendCallsInv ==
    ASSUME CallsInv, phase = "idle",
           NEW op \in Ops, NEW via, NEW given, NEW sent, NEW page,
           Send(op, via, given, sent, page),
           sent # Nil =>
               /\ sent.payload = given.payload
               /\ given.uri # "" => sent.uri = given.uri
               /\ via = "dataset" => sent.uri = Resource
               /\ given.contentType # "none" => sent.contentType = given.contentType
    PROVE  CallsInv'
  <1>0. ran = << >> /\ inFlight = 0 /\ answer = Nil
    BY DEF CallsInv, RanInv
  <1>1. /\ call'.command = sent /\ call'.given = given /\ call'.via = via
        /\ ran' = << >> /\ inFlight' = 1 /\ answer' = Nil
        /\ phase' = "rpc" /\ err' = err /\ value' = value
    <2>1. call'.command = sent /\ call'.given = given /\ call'.via = via
      BY DEF Send
    <2>2. inFlight' = 1 /\ phase' = "rpc"
      <3>1. inFlight = 0 /\ inFlight' = inFlight + 1 /\ phase' = "rpc"
        BY <1>0, Zenon DEF Send
      <3>2. QED
        BY ONLY <3>1
    <2>3. ran' = << >> /\ answer' = Nil
      BY <1>0 DEF Send
    <2>4. err' = err /\ value' = value
      BY DEF Send, retVars
    <2>5. QED
      BY <2>1, <2>2, <2>3, <2>4
  <1>2. RanInv' /\ PhaseInv' /\ AnswerInv' /\ ReturnTruthful'
    BY <1>1 DEF RanInv, PhaseInv, AnswerInv, ReturnTruthful, CallsInv
  <1>3. CommandInv'
    BY <1>1 DEF CommandInv
  <1>4. QED
    BY <1>2, <1>3 DEF CallsInv

LEMMA RefuseCallsInv ==
    ASSUME CallsInv, phase = "idle", NEW op \in Ops, NEW via, NEW given,
           Refuse(op, via, given)
    PROVE  CallsInv'
  <1>1. /\ call'.command = Nil /\ call'.op = op
        /\ ran' = << >> /\ inFlight' = 0 /\ answer' = Nil
        /\ phase' = "returned" /\ err' = "refused" /\ value' = Nil
    BY DEF Refuse, CallsInv, RanInv, PhaseInv, rpcVars
  <1>2. Len(ran') + inFlight' = 0
    BY <1>1
  <1>3. QED
    BY <1>1, <1>2
    DEF CallsInv, RanInv, PhaseInv, AnswerInv, CommandInv, ReturnTruthful, Errors

\* A call is refused, or sent once.
LEMMA CallCallsInv ==
    ASSUME CallsInv, NEW op \in Ops, NEW via, NEW given \in CommandRecords, NEW page,
           NEW controlsOK, Call(op, via, given, page, controlsOK)
    PROVE  CallsInv'
  <1>1. phase = "idle"
    BY DEF Call
  <1>2. CASE Refuse(op, via, given)
    BY <1>1, <1>2, RefuseCallsInv
  <1>3. CASE /\ via = "dataset" /\ Bindable(given)
             /\ Send(op, via, given, Bound(given), page)
    BY <1>1, <1>3, SendCallsInv, BoundKeeps
  <1>4. CASE via # "dataset" /\ Send(op, via, given, given, page)
    BY <1>1, <1>4, SendCallsInv
  <1>5. QED
    BY <1>2, <1>3, <1>4 DEF Call

LEMMA CallStepsCallsInv ==
    ASSUME CallsInv, CallSteps
    PROVE  CallsInv'
  <1>1. PICK via \in {"client", "dataset", "nil"} :
        \/ \E given \in Commands \cup BuiltCommands :
            \/ Execute(via, given)
            \/ Count(via, given)
            \/ \E page \in {next} \cup BadPages, sort \in Sorts, projection \in Projections :
                   Query(via, given, page, size, sort, projection)
            \/ \E n \in BadSizes : Query(via, given, next, n, << >>, Nil)
        \/ CheckHealth(via)
    BY DEF CallSteps
  <1>2. ASSUME NEW given \in Commands \cup BuiltCommands, Execute(via, given)
        PROVE  CallsInv'
    BY <1>2, BuiltRecords, CallCallsInv DEF Execute, Ops
  <1>3. ASSUME NEW given \in Commands \cup BuiltCommands, Count(via, given)
        PROVE  CallsInv'
    BY <1>3, BuiltRecords, CallCallsInv DEF Count, Ops
  <1>4. ASSUME NEW given \in Commands \cup BuiltCommands, NEW page, NEW n, NEW sort, NEW projection,
               Query(via, given, page, n, sort, projection)
        PROVE  CallsInv'
    BY <1>4, BuiltRecords, CallCallsInv DEF Query, Ops
  <1>5. CASE CheckHealth(via)
    BY <1>5, SendCallsInv, RefuseCallsInv DEF CheckHealth, Ops
  <1>6. QED
    BY <1>1, <1>2, <1>3, <1>4, <1>5

\* The server runs a request that is in flight, whether or not the call is over.
LEMMA ServerCallsInv ==
    ASSUME CallsInv, (inFlight > 0 /\ \E a \in Answers : ServerRuns(a)) \/ RequestLost
    PROVE  CallsInv'
  <1>1. /\ ran = << >> /\ inFlight = 1 /\ answer = Nil /\ phase # "idle"
    BY DEF RequestLost, CallsInv, RanInv
  <1>2. CASE RequestLost
    <2>1. inFlight' = 0 /\ UNCHANGED <<phase, call, ran, answer, err, value>>
      BY <1>1, <1>2 DEF RequestLost, retVars
    <2>2. RanInv' /\ PhaseInv' /\ CommandInv' /\ AnswerInv'
      BY <1>1, <2>1 DEF RanInv, PhaseInv, CommandInv, AnswerInv, CallsInv
    <2>3. Len(ran) = 0
      BY <1>1
    <2>4. ReturnTruthful'
      BY <1>1, <2>1, <2>3 DEF ReturnTruthful, CallsInv
    <2>5. QED
      BY <2>2, <2>4 DEF CallsInv
  <1>3. ASSUME NEW a \in Answers, ServerRuns(a) PROVE CallsInv'
    <2>1. /\ inFlight' = 0 /\ ran' = <<call.command>> /\ answer' = a
          /\ UNCHANGED <<phase, call, err, value>>
      BY <1>1, <1>3 DEF ServerRuns, retVars
    <2>2. RanInv' /\ PhaseInv' /\ CommandInv'
      BY <1>1, <2>1 DEF RanInv, PhaseInv, CommandInv, CallsInv
    <2>3. AnswerInv'
      BY <2>1 DEF AnswerInv, Answers
    <2>4. ReturnTruthful'
      BY <1>1, <2>1 DEF ReturnTruthful, CallsInv, PhaseInv, Errors
    <2>5. QED
      BY <2>2, <2>3, <2>4 DEF CallsInv
  <1>4. QED
    BY <1>2, <1>3

LEMMA ReturnCallsInv ==
    ASSUME CallsInv, ReturnSteps
    PROVE  CallsInv'
  <1>1. /\ phase = "rpc" /\ phase' = "returned"
        /\ UNCHANGED <<call, inFlight, ran, answer>>
    BY DEF ReturnSteps, TransportFails, ExecuteReturns, CountReturns, QueryReturns,
           QueryRefusesPage, HealthReturns, Return, Answered, rpcVars
  <1>2. RanInv' /\ CommandInv' /\ AnswerInv'
    BY <1>1 DEF CallsInv, RanInv, CommandInv, AnswerInv
  <1>3. /\ err' \in Errors
        /\ err' # "refused"
        /\ err' \in {"none", "native"} => answer # Nil
        /\ err' \in {"transport", "protocol", "unhealthy"} => value' = Nil
    BY DEF ReturnSteps, TransportFails, ExecuteReturns, CountReturns, QueryReturns,
           QueryRefusesPage, HealthReturns, Return, Answered, Errors
  <1>4. call.op = "execute" /\ value' # Nil => value' = answer /\ (err' = "none") = answer.Success
    BY <1>1 DEF ReturnSteps, TransportFails, ExecuteReturns, CountReturns, QueryReturns,
           QueryRefusesPage, HealthReturns, Return, Answered, CallsInv, AnswerInv
  <1>5. call.op = "health" /\ err' = "none" => answer.Status = "SERVING"
    BY DEF ReturnSteps, TransportFails, ExecuteReturns, CountReturns, QueryReturns,
           QueryRefusesPage, HealthReturns, Return, Answered
  <1>6. answer # Nil => Len(ran) = 1
    BY DEF CallsInv, RanInv
  <1>7. QED
    BY <1>1, <1>2, <1>3, <1>4, <1>5, <1>6 DEF CallsInv, PhaseInv, ReturnTruthful

LEMMA NextCallsInv ==
    ASSUME CallsInv, [Next]_vars
    PROVE  CallsInv'
  <1>1. CASE UNCHANGED vars
    BY <1>1 DEF vars, rpcVars, retVars, CallsInv, RanInv, CommandInv, AnswerInv, PhaseInv,
                ReturnTruthful
  <1>2. CASE Proceed \/ Restart
    BY <1>2 DEF Proceed, Restart, rpcVars, retVars, CallsInv, RanInv, CommandInv, AnswerInv,
                PhaseInv, ReturnTruthful, Errors
  <1>3. CASE CallSteps
    BY <1>3, CallStepsCallsInv
  <1>4. CASE (inFlight > 0 /\ \E a \in Answers : ServerRuns(a)) \/ RequestLost
    BY <1>4, ServerCallsInv
  <1>5. CASE ReturnSteps
    BY <1>5, ReturnCallsInv
  <1>6. QED
    BY <1>1, <1>2, <1>3, <1>4, <1>5 DEF Next, CallSteps, ReturnSteps

LEMMA InitCallsInv == Init => CallsInv
  BY DEF Init, CallsInv, RanInv, CommandInv, AnswerInv, PhaseInv, ReturnTruthful, Errors

LEMMA RunOnceByCallsInv ==
    ASSUME CallsInv
    PROVE  RunOnceAsGiven
  <1>1. Len(ran) + inFlight <= 1
    <2>1. CASE ran = << >> /\ inFlight \in {0, 1}
      <3>1. Len(ran) = 0
        BY <2>1
      <3>2. QED
        BY <2>1, <3>1
    <2>2. CASE ran = <<call.command>> /\ inFlight = 0
      <3>1. Len(ran) = 1
        BY <2>2
      <3>2. QED
        BY <2>2, <3>1
    <2>3. QED
      BY <2>1, <2>2 DEF CallsInv, RanInv
  <1>2. \A c \in Range(ran) : phase # "idle" /\ c = call.command
    BY DEF CallsInv, RanInv, Range
  <1>3. QED
    BY <1>1, <1>2 DEF CallsInv, CommandInv, RunOnceAsGiven

\* Execute, Query and Count send a command once and as it was given, whoever
\* gives up when.
THEOREM RunOnceTheorem == Spec => []RunOnceAsGiven
  <1>1. CallsInv /\ [Next]_vars => CallsInv'
    BY NextCallsInv
  <1>2. CallsInv => RunOnceAsGiven
    BY RunOnceByCallsInv
  <1>3. QED
    BY InitCallsInv, <1>1, <1>2, PTL DEF Spec

\* What Execute, Query, Count and CheckHealth return is what happened.
THEOREM ReturnTruthfulTheorem == Spec => []ReturnTruthful
  <1>1. CallsInv /\ [Next]_vars => CallsInv'
    BY NextCallsInv
  <1>2. CallsInv => ReturnTruthful
    BY DEF CallsInv
  <1>3. QED
    BY InitCallsInv, <1>1, <1>2, PTL DEF Spec

--------------------------------------------------------------------------------
(* The traversal *)

\* Where the traversal stands: what was seen are the documents before the next
\* page, and there is one, or all of them.
SeenInv ==
    /\ seen \in Seq(Nat)
    /\ \A i \in 1 .. Len(seen) : seen[i] = i
    /\ finished => Len(seen) = Total
    /\ ~finished => /\ Len(seen) = (EffectivePage(next) - 1) * EffectiveSize
                    /\ Len(seen) <= Total

\* A query that is under way asks for the next page and is answered for it.
QueryInv ==
    phase = "rpc" /\ call.op = "query" =>
        /\ ~finished /\ call.page = next
        /\ answer # Nil => answer \in QueryAnswers(next)

LoopInv ==
    /\ next \in Nat /\ size \in PageSizes /\ finished \in BOOLEAN
    /\ SeenInv
    /\ QueryInv

LEMMA EffectiveFacts ==
    ASSUME size \in PageSizes
    PROVE  EffectiveSize \in Nat /\ EffectiveSize > 0
  BY PageBounds DEF EffectiveSize

LEMMA PageFacts ==
    ASSUME NEW page \in Nat
    PROVE  EffectivePage(page) \in Nat /\ EffectivePage(page) > 0
  BY DEF EffectivePage

\* The page that was asked for holds the documents from the first one of the
\* page to the last one of the page, or of all.
LEMMA PageShape ==
    ASSUME NEW page \in Nat, size \in PageSizes,
           NEW first \in Nat, first = (EffectivePage(page) - 1) * EffectiveSize,
           first <= Total
    PROVE  /\ PageOf(page) \in Seq(Nat)
           /\ EffectivePage(page) * EffectiveSize = first + EffectiveSize
           /\ Len(PageOf(page)) =
                 IF first + EffectiveSize < Total THEN EffectiveSize ELSE Total - first
           /\ \A i \in 1 .. Len(PageOf(page)) : PageOf(page)[i] = first + i
  <1>1. EffectiveSize \in Nat /\ EffectiveSize > 0
    BY EffectiveFacts
  <1>2. EffectivePage(page) \in Nat
    BY PageFacts
  <1>3. EffectivePage(page) * EffectiveSize = first + EffectiveSize
    <2>1. \A p, s \in Nat : p * s = (p - 1) * s + s
      OBVIOUS
    <2>2. QED
      BY <1>1, <1>2, <2>1
  <1> DEFINE n == IF first + EffectiveSize < Total THEN EffectiveSize ELSE Total - first
  <1>4. n \in Nat
    BY <1>1, PageBounds
  <1>5. PageOf(page) = [i \in 1 .. n |-> first + i]
    BY <1>1, PageBounds DEF PageOf
  <1> HIDE DEF n
  <1>6. [i \in 1 .. n |-> first + i] \in Seq(Nat)
    BY <1>4
  <1>7. Len([i \in 1 .. n |-> first + i]) = n
    BY <1>4, <1>6
  <1>8. QED
    BY <1>3, <1>5, <1>6, <1>7 DEF n

\* Of all that the server may answer, only the page that was asked for passes
\* the checks of Query.
LEMMA OnlyThePage ==
    ASSUME NEW page \in Nat, size \in PageSizes,
           (EffectivePage(page) - 1) * EffectiveSize <= Total,
           NEW a \in QueryAnswers(page), AcceptablePage(a)
    PROVE  /\ a.Documents = PageOf(page)
           /\ a.HasMore = (EffectivePage(page) * EffectiveSize < Total)
  <1> DEFINE first == (EffectivePage(page) - 1) * EffectiveSize
             docs == PageOf(page)
             more == EffectivePage(page) * EffectiveSize < Total
  <1>1. EffectiveSize \in Nat /\ EffectiveSize > 0
    BY EffectiveFacts
  <1>2. first \in Nat
    BY <1>1, PageFacts
  <1>3. /\ docs \in Seq(Nat)
        /\ Len(docs) <= EffectiveSize
        /\ more => Len(docs) = EffectiveSize
    BY <1>1, <1>2, PageShape, PageBounds
  <1> HIDE DEF first, docs, more
  <1>4. \/ a = [Documents |-> docs, HasMore |-> more]
        \/ more /\ a.Documents = Append(docs, Last(docs) + 1)
        \/ \E n \in 0 .. Len(docs) - 1 :
              a = [Documents |-> SubSeq(docs, 1, n), HasMore |-> TRUE]
        \/ \E n \in DOMAIN docs :
              a = [Documents |-> [docs EXCEPT ![n] = Nil], HasMore |-> more]
    BY DEF QueryAnswers, docs, more
  <1>5. ASSUME more, a.Documents = Append(docs, Last(docs) + 1) PROVE FALSE
    <2>1. Len(a.Documents) = Len(docs) + 1
      BY <1>3, <1>5
    <2>2. QED
      BY <1>1, <1>3, <1>5, <2>1 DEF AcceptablePage
  <1>6. ASSUME NEW n \in 0 .. Len(docs) - 1,
               a = [Documents |-> SubSeq(docs, 1, n), HasMore |-> TRUE]
        PROVE  FALSE
    <2>1. Len(a.Documents) = n /\ a.HasMore
      BY <1>3, <1>6
    <2>2. QED
      BY <1>1, <1>3, <2>1 DEF AcceptablePage
  <1>7. ASSUME NEW n \in DOMAIN docs,
               a = [Documents |-> [docs EXCEPT ![n] = Nil], HasMore |-> more]
        PROVE  FALSE
    <2>1. n \in DOMAIN a.Documents /\ a.Documents[n] = Nil
      BY <1>3, <1>7
    <2>2. Nil \in Range(a.Documents)
      BY <2>1 DEF Range
    <2>3. QED
      BY <2>2 DEF AcceptablePage
  <1>8. a = [Documents |-> docs, HasMore |-> more]
    BY <1>4, <1>5, <1>6, <1>7
  <1>9. QED
    BY <1>8 DEF docs, more

\* A query is sent for the next page only: other pages are refused.
LEMMA CallStepsLoopInv ==
    ASSUME CallsInv, LoopInv, CallSteps
    PROVE  LoopInv'
  <1>1. UNCHANGED <<next, size, seen, finished>> /\ answer' = answer /\ answer = Nil
    BY DEF CallSteps, Execute, Count, Query, CheckHealth, Call, Send, Refuse, loopVars, rpcVars,
           CallsInv, RanInv
  <1>2. phase' = "rpc" /\ call'.op = "query" => ~finished /\ call'.page = next
    <2>1. ASSUME NEW via, NEW given, NEW op \in {"execute", "count"}, NEW page, NEW controlsOK,
                 Call(op, via, given, page, controlsOK)
          PROVE  call'.op # "query"
      BY <2>1 DEF Call, Send, Refuse
    <2>2. ASSUME NEW via, NEW given, NEW page, NEW n, NEW sort, NEW projection,
                 Query(via, given, page, n, sort, projection), phase' = "rpc"
          PROVE  ~finished /\ call'.page = page /\ page \in 0 .. MaxUint32
      BY <2>2 DEF Query, Call, Send, Refuse, PageOK
    <2>3. ASSUME NEW via, CheckHealth(via)
          PROVE  call'.op # "query"
      BY <2>3 DEF CheckHealth, Send, Refuse
    <2>4. \A page \in BadPages : page \notin 0 .. MaxUint32
      BY PageBounds
    <2>5. QED
      BY <2>1, <2>2, <2>3, <2>4 DEF CallSteps, Execute, Count
  <1>3. SeenInv'
    BY <1>1 DEF LoopInv, SeenInv, EffectivePage, EffectiveSize
  <1>4. QED
    BY <1>1, <1>2, <1>3 DEF LoopInv, QueryInv

LEMMA ServerLoopInv ==
    ASSUME CallsInv, LoopInv, (inFlight > 0 /\ \E a \in Answers : ServerRuns(a)) \/ RequestLost
    PROVE  LoopInv'
  <1>1. UNCHANGED <<phase, call, next, size, seen, finished>>
    BY DEF ServerRuns, RequestLost, loopVars
  <1>2. answer' = answer \/ answer' \in Answers
    BY DEF ServerRuns, RequestLost
  <1>3. SeenInv'
    BY <1>1 DEF LoopInv, SeenInv, EffectivePage, EffectiveSize
  <1>4. QueryAnswers(next)' = QueryAnswers(next)
    BY <1>1 DEF QueryAnswers, PageOf, EffectivePage, EffectiveSize
  <1>5. call.op = "query" => Answers = QueryAnswers(call.page)
    BY DEF Answers
  <1>6. QueryInv'
    BY <1>1, <1>2, <1>4, <1>5 DEF LoopInv, QueryInv
  <1>7. QED
    BY <1>1, <1>3, <1>6 DEF LoopInv

\* An accepted page continues what was seen.
LEMMA QueryReturnsLoopInv ==
    ASSUME CallsInv, LoopInv, QueryReturns
    PROVE  LoopInv'
  <1> DEFINE first == (EffectivePage(next) - 1) * EffectiveSize
             docs == PageOf(next)
  <1>1. /\ phase = "rpc" /\ call.op = "query" /\ answer # Nil /\ AcceptablePage(answer)
        /\ phase' = "returned"
        /\ seen' = seen \o answer.Documents
        /\ finished' = ~answer.HasMore
        /\ next' = EffectivePage(call.page) + 1
        /\ size' = size
    BY DEF QueryReturns, Answered, Return
  <1>2. ~finished /\ call.page = next /\ answer \in QueryAnswers(next)
    BY <1>1 DEF LoopInv, QueryInv
  <1>3. /\ next \in Nat /\ size \in PageSizes /\ seen \in Seq(Nat)
        /\ \A i \in 1 .. Len(seen) : seen[i] = i
        /\ Len(seen) = first /\ first <= Total /\ first \in Nat
    BY <1>2 DEF LoopInv, SeenInv
  <1>4. EffectiveSize \in Nat /\ EffectiveSize > 0 /\ Total \in Nat
    BY <1>3, EffectiveFacts, PageBounds
  <1>5. /\ answer.Documents = docs
        /\ answer.HasMore = (EffectivePage(next) * EffectiveSize < Total)
    BY <1>1, <1>2, <1>3, OnlyThePage
  <1>6. /\ docs \in Seq(Nat)
        /\ EffectivePage(next) * EffectiveSize = first + EffectiveSize
        /\ Len(docs) = IF first + EffectiveSize < Total THEN EffectiveSize ELSE Total - first
        /\ \A i \in 1 .. Len(docs) : docs[i] = first + i
    BY <1>3, PageShape
  <1>7. next' \in Nat /\ EffectivePage(next)' - 1 = EffectivePage(next)
    BY <1>1, <1>2, <1>3, PageFacts DEF EffectivePage
  <1>8. EffectiveSize' = EffectiveSize
    BY <1>1 DEF EffectiveSize
  <1> HIDE DEF first, docs
  <1>9. /\ seen' \in Seq(Nat)
        /\ Len(seen') = first + Len(docs)
        /\ \A i \in 1 .. Len(seen') : seen'[i] = IF i <= first THEN seen[i] ELSE docs[i - first]
    BY <1>1, <1>3, <1>5, <1>6
  <1>10. \A i \in 1 .. Len(seen') : seen'[i] = i
    <2>1. SUFFICES ASSUME NEW i \in 1 .. Len(seen') PROVE seen'[i] = i
      OBVIOUS
    <2>2. CASE i <= first
      BY <1>3, <1>9, <2>2
    <2>3. CASE i > first
      <3>1. i - first \in 1 .. Len(docs)
        BY <1>3, <1>6, <1>9, <2>3
      <3>2. QED
        BY <1>3, <1>6, <1>9, <2>3, <3>1
    <2>4. QED
      BY <1>3, <2>2, <2>3
  <1>11. CASE first + EffectiveSize < Total
    <2>1. finished' = FALSE /\ Len(seen') = first + EffectiveSize
      BY <1>1, <1>5, <1>6, <1>9, <1>11
    <2>2. Len(seen') = (EffectivePage(next)' - 1) * EffectiveSize'
      BY <1>6, <1>7, <1>8, <2>1
    <2>3. Len(seen') <= Total
      BY <1>3, <1>4, <1>11, <2>1
    <2>4. SeenInv'
      BY <1>9, <1>10, <2>1, <2>2, <2>3 DEF SeenInv
    <2>5. QED
      BY <1>1, <1>3, <1>7, <2>1, <2>4 DEF LoopInv, QueryInv
  <1>12. CASE ~(first + EffectiveSize < Total)
    <2>1. finished' = TRUE
      BY <1>1, <1>5, <1>6, <1>12
    <2>2. Len(docs) = Total - first
      BY <1>6, <1>12
    <2>3. Len(seen') = Total
      BY <1>3, <1>4, <1>9, <2>2
    <2>4. SeenInv'
      BY <1>9, <1>10, <2>1, <2>3 DEF SeenInv
    <2>5. QED
      BY <1>1, <1>3, <1>7, <2>1, <2>4 DEF LoopInv, QueryInv
  <1>13. QED
    BY <1>11, <1>12

LEMMA NextLoopInv ==
    ASSUME CallsInv, LoopInv, [Next]_vars
    PROVE  LoopInv'
  <1>1. CASE UNCHANGED vars
    <2>1. UNCHANGED <<phase, call, answer, next, size, seen, finished>>
      BY <1>1 DEF vars, rpcVars, loopVars
    <2>2. SeenInv'
      BY <2>1 DEF LoopInv, SeenInv, EffectivePage, EffectiveSize
    <2>3. QueryAnswers(next)' = QueryAnswers(next)
      BY <2>1 DEF QueryAnswers, PageOf, EffectivePage, EffectiveSize
    <2>4. QED
      BY <2>1, <2>2, <2>3 DEF LoopInv, QueryInv
  <1>2. CASE Restart
    <2>1. /\ next' \in {0, 1} /\ size' \in PageSizes /\ seen' = << >> /\ finished' = FALSE
          /\ phase' = "idle"
      BY <1>2 DEF Restart
    <2>2. EffectivePage(next)' = 1
      BY <2>1 DEF EffectivePage
    <2>3. EffectiveSize' \in Nat
      BY <2>1, PageBounds DEF EffectiveSize
    <2>4. (EffectivePage(next)' - 1) * EffectiveSize' = 0
      <3>1. \A s \in Nat : (1 - 1) * s = 0
        OBVIOUS
      <3>2. QED
        BY <2>2, <2>3, <3>1
    <2>5. seen' \in Seq(Nat) /\ Len(seen') = 0
      BY <2>1
    <2>6. SeenInv'
      BY <2>1, <2>4, <2>5, PageBounds DEF SeenInv
    <2>7. next' \in Nat /\ phase' # "rpc"
      BY <2>1
    <2>8. finished' \in BOOLEAN
      BY <2>1, Zenon
    <2>9. QED
      BY <2>1, <2>6, <2>7, <2>8, Zenon DEF LoopInv, QueryInv
  <1>3. CASE CallSteps
    BY <1>3, CallStepsLoopInv
  <1>4. CASE (inFlight > 0 /\ \E a \in Answers : ServerRuns(a)) \/ RequestLost
    BY <1>4, ServerLoopInv
  <1>5. CASE QueryReturns
    BY <1>5, QueryReturnsLoopInv
  <1>6. ASSUME phase' # "rpc", UNCHANGED <<next, size, seen, finished>>
        PROVE  LoopInv'
    BY <1>6 DEF LoopInv, SeenInv, QueryInv, EffectivePage, EffectiveSize
  <1>7. CASE \/ TransportFails \/ ExecuteReturns \/ CountReturns \/ QueryRefusesPage
             \/ HealthReturns \/ Proceed
    BY <1>6, <1>7 DEF TransportFails, ExecuteReturns, CountReturns, QueryRefusesPage,
                      HealthReturns, Proceed, Return, loopVars
  <1>8. QED
    BY <1>1, <1>2, <1>3, <1>4, <1>5, <1>7 DEF Next, CallSteps

LEMMA InitLoopInv == Init => LoopInv
  <1>1. SUFFICES ASSUME Init PROVE LoopInv
    OBVIOUS
  <1>2. next \in {0, 1} /\ size \in PageSizes /\ seen = << >> /\ finished = FALSE /\ phase = "idle"
    BY <1>1 DEF Init
  <1>3. EffectivePage(next) = 1 /\ EffectiveSize \in Nat
    BY <1>2, EffectiveFacts DEF EffectivePage
  <1>4. (EffectivePage(next) - 1) * EffectiveSize = 0
    BY <1>3
  <1>5. seen \in Seq(Nat) /\ Len(seen) = 0
    BY <1>2
  <1>6. SeenInv
    BY <1>2, <1>4, <1>5, PageBounds DEF SeenInv
  <1>7. next \in Nat /\ phase # "rpc"
    BY <1>2
  <1>8. finished \in BOOLEAN
    BY <1>2, Zenon
  <1>9. QED
    BY <1>2, <1>6, <1>7, <1>8, Zenon DEF LoopInv, QueryInv

\* An application that asks Query for page after page while HasMore says so
\* sees every document once, in order, and at the end all of them.
THEOREM PagesCompleteTheorem == Spec => []PagesComplete
  <1>1. Init => CallsInv /\ LoopInv
    BY InitCallsInv, InitLoopInv
  <1>2. CallsInv /\ LoopInv /\ [Next]_vars => CallsInv' /\ LoopInv'
    BY NextCallsInv, NextLoopInv
  <1>3. LoopInv => PagesComplete
    BY DEF LoopInv, SeenInv, PagesComplete
  <1>4. QED
    BY <1>1, <1>2, <1>3, PTL DEF Spec

================================================================================
