---------------------------- MODULE Conformance ----------------------------
(***************************************************************************)
(* The conformance suite, bench/conformance/run.py, against PythonApp,     *)
(* next to another client, restarts of the application and faults of the   *)
(* database.                                                               *)
(*                                                                         *)
(* The suite polls /health until it answers, then runs nine tests, each a  *)
(* call with a time limit of five seconds, the last one two calls with the *)
(* same Idempotency-Key.  It gives up on a call, not on the work: a        *)
(* request it no longer waits for may still be handled.                    *)
(***************************************************************************)
EXTENDS PythonApp

CONSTANTS OtherRequests,   \* what the other client may ask for
          MaxOther,        \* bound: how many requests it makes
          MaxTrouble,      \* bound: how many restarts, faults and late requests there are
          MaxPolls         \* bound: polls before the deadline of --wait

SuiteKeys == {"create", "replay"}

(* The keys of the suite are fresh UUIDs, the products of its tests are in the
   seed. *)
ASSUME RequestsAssumption ==
    OtherRequests \subseteq {r \in Request : r.key \notin SuiteKeys}
ASSUME ProductsAssumption ==
    {"p1", "p2", "p3"} \subseteq Products /\ "p999" \notin Products
ASSUME WordsAssumption ==
    {"none", "object", "known", "notInt", "create", "replay", "30",
     "p1", "p2", "p3", "p4", "p999"} \subseteq Words

VARIABLES phase,      \* "waiting", "running" or "ended"
          test,       \* the test it is at
          call,       \* the request it waits for; NoCall
          sent,       \* the number of requests it has made
          first,      \* the order id the first call of the last test returned
          passed, failed,
          exit,       \* its exit status; -1 before
          others, trouble,
          causes      \* auxiliary: the troubles there have been

suiteVars == <<phase, test, call, sent, first, passed, failed, exit>>
envVars == <<others, trouble>>
vars == <<appVars, suiteVars, envVars, causes>>

NoBody == [form |-> "none", customer |-> "notInt", items |-> <<>>]
NoCall == [id |-> 0, route |-> "other", arg |-> "none", key |-> "none", body |-> NoBody]

Body(products) ==
    [form |-> "object", customer |-> "known",
     items |-> [i \in DOMAIN products |-> [product |-> products[i], quantity |-> 1]]]

Call(id, route, arg, key, body) ==
    [id |-> id, route |-> route, arg |-> arg, key |-> key, body |-> body]
Get(id, route, arg) == Call(id, route, arg, "none", NoBody)

(* The nine tests: the call of each, the status it wants, and what its
   validator wants of the body.  The runner supplies the key of the seventh,
   none to the eighth, and leaves both calls of the ninth to its validator. *)
Tests(id) ==
    <<[call |-> Get(id, "health", "none"), want |-> 200, kind |-> "ok"],
      [call |-> Get(id, "json", "none"), want |-> 200, kind |-> "service"],
      [call |-> Get(id, "product", "p1"), want |-> 200, kind |-> "product"],
      [call |-> Get(id, "product", "p999"), want |-> 404, kind |-> "error"],
      [call |-> Get(id, "metrics", "none"), want |-> 200, kind |-> "text"],
      [call |-> Get(id, "dashboard", "30"), want |-> 200, kind |-> "table"],
      [call |-> Call(id, "orders", "none", "create", Body(<<"p1", "p2">>)),
       want |-> 201, kind |-> "order"],
      [call |-> Call(id, "orders", "none", "none", Body(<<"p4">>)), want |-> 400, kind |-> "error"],
      [call |-> Call(id, "orders", "none", "replay", Body(<<"p3">>)),
       want |-> 201, kind |-> "order"]>>

(* Whether an answer passes the status check and the validator of test t. *)
Passes(t, a) ==
    /\ a.status = Tests(0)[t].want
    /\ a.body.kind = Tests(0)[t].kind
    /\ t = 5 => a.body.histogram
    /\ t = 7 => a.body.status = "pending" /\ a.body.lines = 2

TypeOK ==
    /\ app \in {"off", "up", "failed"} /\ settings \in Settings /\ dbUp \in BOOLEAN
    /\ blocked \in BOOLEAN
    /\ inbox \subseteq Request /\ call \in Request
    /\ \A a \in answers : a.status \in {200, 201, 400, 404, 409, 422, 500}
    /\ observed \in BOOLEAN
    /\ stock \in [Products -> 0 .. MaxStock]
    /\ phase \in {"waiting", "running", "ended"}
    /\ test \in 1 .. 10 /\ passed \in Nat /\ failed \in Nat /\ passed + failed < 10
    /\ sent \in Nat /\ others \in Nat
    /\ exit \in {-1, 0, 1, 2}
    /\ causes \subseteq {"restart", "fault", "timeout"}

Init ==
    /\ AppInit
    /\ phase = "waiting" /\ test = 1 /\ call = NoCall /\ sent = 0 /\ first = 0
    /\ passed = 0 /\ failed = 0 /\ exit = -1
    /\ others = 0 /\ trouble = 0 /\ causes = {}
-----------------------------------------------------------------------------
(* http *)

(* A connection to a process that is up; the answer is waited for. *)
Send(request) ==
    /\ call = NoCall
    /\ app = "up"
    /\ inbox' = inbox \cup {request}
    /\ call' = request
    /\ sent' = sent + 1
    /\ UNCHANGED <<app, settings, dbUp, blocked, answers, observed, dbVars, causes>>

AnswerTo(request) == {a \in answers : a.request = request}

Lost(request) == request \notin inbox /\ AnswerTo(request) = {}

(* Mutant: there is no time limit. *)
FailsNoTimeout ==
    /\ IF call = NoCall THEN app # "up" ELSE Lost(call)
    /\ causes' = causes \cup {"restart"}
    /\ call' = NoCall
    /\ UNCHANGED <<appVars, others, trouble>>

(* No connection, a connection closed without an answer, or five seconds
   without one: the exception of urlopen.  A request that timed out may still
   be handled (counted as trouble, to bound it) or never be. *)
Fails ==
    /\ \/ /\ IF call = NoCall THEN app # "up" ELSE Lost(call)
          /\ causes' = causes \cup {"restart"}
          /\ UNCHANGED <<inbox, trouble>>
       \/ /\ call \in inbox
          /\ causes' = causes \cup {"timeout"}
          /\ \/ inbox' = inbox \ {call} /\ UNCHANGED trouble
             \/ trouble < MaxTrouble /\ trouble' = trouble + 1 /\ UNCHANGED inbox
    /\ call' = NoCall
    /\ UNCHANGED <<app, settings, dbUp, blocked, answers, observed, dbVars, others>>
-----------------------------------------------------------------------------
(* The wait for the application *)

Poll ==
    /\ phase = "waiting" /\ sent < MaxPolls
    /\ Send(Get(sent + 1, "health", "none"))
    /\ UNCHANGED <<phase, test, first, passed, failed, exit, envVars>>

Healthy ==
    /\ phase = "waiting"
    /\ \E a \in AnswerTo(call) : answers' = answers \ {a} /\ a.status = 200
    /\ call' = NoCall
    /\ phase' = "running"
    /\ UNCHANGED <<app, settings, dbUp, inbox, blocked, observed, dbVars,
                   test, sent, first, passed, failed, exit, envVars, causes>>

PollFails ==
    /\ phase = "waiting" /\ call # NoCall
    /\ Fails
    /\ UNCHANGED <<phase, test, sent, first, passed, failed, exit>>

(* The deadline passes between two polls. *)
NotUp ==
    /\ phase = "waiting" /\ call = NoCall
    /\ phase' = "ended" /\ exit' = 2
    /\ UNCHANGED <<appVars, test, call, sent, first, passed, failed, envVars, causes>>
-----------------------------------------------------------------------------
(* The tests *)

RunTest ==
    /\ phase = "running" /\ test <= 9
    /\ Send(Tests(sent + 1)[test].call)
    /\ UNCHANGED <<phase, test, first, passed, failed, exit, envVars>>

(* The first call of the last test has returned an order: the second is made
   with the same key. *)
Again(a) == test = 9 /\ first = 0 /\ Passes(test, a)

TestPasses(a) == Passes(test, a) /\ (test = 9 => first = a.body.id)

Finish(ok) ==
    /\ passed' = IF ok THEN passed + 1 ELSE passed
    /\ failed' = IF ok THEN failed ELSE failed + 1
    /\ test' = test + 1

Receive ==
    /\ phase = "running"
    /\ \E a \in AnswerTo(call) :
          /\ answers' = answers \ {a}
          /\ IF Again(a)
             THEN first' = a.body.id /\ UNCHANGED <<test, passed, failed>>
             ELSE Finish(TestPasses(a)) /\ UNCHANGED first
    /\ call' = NoCall
    /\ UNCHANGED <<app, settings, dbUp, inbox, blocked, observed, dbVars,
                   phase, sent, exit, envVars, causes>>

(* Mutant: an exception other than an assertion does not count. *)
TestRaisesUncounted ==
    /\ phase = "running" /\ test <= 9
    /\ Fails
    /\ test' = test + 1
    /\ UNCHANGED <<phase, sent, first, passed, failed, exit>>

(* Any exception is a failed test, and the next one is run. *)
TestRaises ==
    /\ phase = "running" /\ test <= 9
    /\ Fails
    /\ Finish(FALSE)
    /\ UNCHANGED <<phase, sent, first, exit>>

Report ==
    /\ phase = "running" /\ test = 10
    /\ phase' = "ended"
    /\ exit' = IF failed = 0 THEN 0 ELSE 1
    /\ UNCHANGED <<appVars, test, call, sent, first, passed, failed, envVars, causes>>
-----------------------------------------------------------------------------
(* The surroundings *)

OtherClient ==
    /\ app = "up" /\ others < MaxOther
    /\ others' = others + 1
    /\ \E r \in OtherRequests : inbox' = inbox \cup {[r EXCEPT !.id = -others']}
    /\ UNCHANGED <<app, settings, dbUp, blocked, answers, observed, dbVars, suiteVars,
                   trouble, causes>>

Trouble(cause) ==
    /\ trouble < MaxTrouble
    /\ trouble' = trouble + 1
    /\ causes' = causes \cup {cause}
    /\ UNCHANGED <<suiteVars, others>>

Application ==
    /\ Start \/ ReplaysBlock \/ \E r \in inbox : Handle(r)
    /\ UNCHANGED <<suiteVars, envVars, causes>>

Suite == Poll \/ Healthy \/ PollFails \/ NotUp \/ RunTest \/ Receive \/ TestRaises \/ Report

Next ==
    \/ Suite \/ Application \/ OtherClient
    \/ Stop /\ Trouble("restart")
    \/ Fault /\ Trouble("fault")
    \/ (\E r \in inbox : CommitUnacknowledged(r)) /\ Trouble("fault")

Spec == Init /\ [][Next]_vars

(* The suite is a running program, and a call of it that is not answered ends
   at its time limit; nothing is assumed of the application. *)
FairSpec == Spec /\ WF_vars(Suite)
-----------------------------------------------------------------------------
(* A suite that reports success has what it claims in the database: one order
   of two lines for the key of the seventh test, one order for the key of the
   last although it was posted twice, and nothing from the request without a
   key. *)
SuccessIsReal ==
    exit = 0 =>
      /\ \A k \in SuiteKeys : Cardinality(OrdersOf(k)) = 1
      /\ \A i \in OrdersOf("create") : Len(orders[i].items) = 2
      /\ OrdersOf("none") = {}

(* Against an application that stays up and answers in time, and a database that
   still has the products, all nine tests pass, whatever the other client does:
   the histogram has been observed by the time /metrics is asked, and the second
   call of the last test finds the order of the first. *)
FailureHasCause ==
    failed > 0 => causes # {} \/ \E p \in {"p1", "p2", "p3"} : stock[p] = 0

(* What each order took of p. *)
Taken(p) == [i \in DOMAIN orders |-> [product |-> p, quantity |-> Units(orders[i].items, p)]]

(* However calls time out, connections break and the application is restarted,
   no key has two orders, and the stock is what the orders leave of it. *)
OrdersMatchStock ==
    /\ \A i, j \in DOMAIN orders : orders[i].key = orders[j].key => i = j
    /\ \A p \in Products : Stock0[p] - stock[p] = Units(Taken(p), p)

(* A body that parse_body accepts never has a total that total_cents cannot
   hold: twenty lines of what the seed has in stock, at its highest price, stay
   below 2^31. *)
TotalsFit == \A a \in answers : a.error # "total"

(* The suite comes to an end, whatever the application does. *)
SuiteEnds == <>(phase = "ended")
=============================================================================
