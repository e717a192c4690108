----------------------------- MODULE Connection -----------------------------
(***************************************************************************)
(* The class Connection of src/connection.ts: concurrent invocations of    *)
(* makeApiCall() that share one slot counter and one set of cookies, the   *)
(* requests they send, and a server and a network that answer late, more   *)
(* slowly than the client waits, with an error, or not at all.             *)
(*                                                                         *)
(* JavaScript runs one callback at a time, so everything between two       *)
(* awaits is one action.  A slot is taken before the first request of a    *)
(* call and is kept while the call sleeps between two requests.            *)
(***************************************************************************)
EXTENDS Integers, FiniteSets

CONSTANTS
  Calls,            \* the invocations of makeApiCall()
  Method,           \* options.method of each call
  RetryOption,      \* options.maxRetries ?? 10 of each call
  Decode,           \* options.decodeResponseFromXml ?? true of each call
  Latency,          \* how long the server lets each call wait for an answer
  MaxConnections    \* maxConcurrentConnections, unlimited unless positive

Methods == {"GET", "POST", "PUT", "DELETE"}

ASSUME ConnectionAssumption ==
  /\ IsFiniteSet(Calls)
  /\ Method \in [Calls -> Methods]
  /\ RetryOption \in [Calls -> Nat]
  /\ Decode \in [Calls -> BOOLEAN]
  /\ Latency \in [Calls -> Nat]
  /\ MaxConnections \in Int

VARIABLES
  pc,           \* where each call stands in makeApiCall()
  sent,         \* requests each call has sent: i + 1 inside the retry loop
  url,          \* the URL each call sends its next request to
  timeoutMs,    \* opts.timeoutMs, in multiples of its initial value
  outcome,      \* what the promise of each call was settled with
  currentConnectionCount,
  cookies,      \* the session of this.cookies, NoSession if there is none
  pending,      \* requests the server has not processed yet
  reply,        \* what is on its way to each call's current request
  sessions,     \* sessions the server has issued
  effects,      \* how often the server has carried out each call
  last,         \* history: what the last request of each call came to
  busy,         \* history: how often each call was told to come back
  lost          \* history: requests without a cookie that were given up

callVars == <<pc, sent, url, timeoutMs, outcome, last, busy>>
serverVars == <<pending, sessions, effects>>
vars == <<callVars, currentConnectionCount, cookies, reply, lost, serverVars>>

NoSession == 0
NoReply == [status |-> "none"]

\* 503 and 429 are "busy", any other status outside 200..299 is "error".
Statuses == {"ok", "error", "busy", "moved"}
\* Where a 301 points: no (valid) Location, another http(s) URL, or a URL of
\* a protocol that cannot be requested.
Urls == {"api", "mirror", "ftp"}
Locations == {"none", "mirror", "ftp"}
\* A body that decodes to an object, one that decodes to null, and one that
\* is not XML.
Bodies == {"xml", "empty", "other"}
Outcomes == {"none", "ok", "ApiError", "XmlParseError", "TypeError",
             "TimeoutError", "SocketError", "AssertionError"}

Requests == [call : Calls, nr : Nat, cookie : Nat]
Replies == [status : Statuses, location : Locations, body : Bodies,
            setCookie : Nat]

Limited == MaxConnections > 0

\* Faulty: a request of any method is retried.
MaxRetriesOfAnyMethod(c) == RetryOption[c]
MaxRetries(c) == IF Method[c] = "GET" THEN RetryOption[c] ELSE 0

\* The calls between the increment and the decrement of the counter.
Holders == {c \in Calls : pc[c] \in {"awaiting", "sleeping"}}

Init ==
  /\ pc = [c \in Calls |-> "unmade"]
  /\ sent = [c \in Calls |-> 0]
  /\ url = [c \in Calls |-> "api"]
  /\ timeoutMs = [c \in Calls |-> 1]
  /\ outcome = [c \in Calls |-> "none"]
  /\ last = [c \in Calls |-> "none"]
  /\ busy = [c \in Calls |-> 0]
  /\ currentConnectionCount = 0
  /\ cookies = NoSession
  /\ reply = [c \in Calls |-> NoReply]
  /\ lost = 0
  /\ pending = {}
  /\ sessions = 0
  /\ effects = [c \in Calls |-> 0]

-----------------------------------------------------------------------------
(* Taking and releasing a slot.                                            *)

\* Faulty: admits one call too many.
HasRoomOffByOne == Limited => currentConnectionCount <= MaxConnections
HasRoom == Limited => currentConnectionCount < MaxConnections

\* Faulty: the counter is compared but not incremented.
TakeSlotUncounted == UNCHANGED currentConnectionCount
TakeSlot ==
  currentConnectionCount' =
    IF Limited THEN currentConnectionCount + 1 ELSE currentConnectionCount

\* Faulty: a call ends without giving its slot back.
ReleaseSlotLeaks == UNCHANGED currentConnectionCount
\* The finally block: it runs however the call ends.
ReleaseSlot ==
  currentConnectionCount' =
    IF Limited THEN currentConnectionCount - 1 ELSE currentConnectionCount

-----------------------------------------------------------------------------
(* The steps of one call.                                                  *)

\* doMakeApiCall() up to its first event.
SendRequest(c) ==
  /\ sent' = [sent EXCEPT ![c] = @ + 1]
  /\ pending' = pending \cup
       {[call |-> c, nr |-> sent[c] + 1, cookie |-> cookies]}
  /\ pc' = [pc EXCEPT ![c] = "awaiting"]

Settle(c, result) ==
  /\ pc' = [pc EXCEPT ![c] = "settled"]
  /\ outcome' = [outcome EXCEPT ![c] = result]
  /\ ReleaseSlot

\* makeApiCall() takes a free slot at once and otherwise goes to sleep.
MakeApiCall(c) ==
  /\ pc[c] = "unmade"
  /\ \/ HasRoom /\ TakeSlot /\ SendRequest(c)
     \/ /\ ~HasRoom
        /\ pc' = [pc EXCEPT ![c] = "waiting"]
        /\ UNCHANGED <<sent, pending, currentConnectionCount>>
  /\ UNCHANGED <<url, timeoutMs, outcome, last, busy, cookies, reply, lost,
                 sessions, effects>>

\* A waiting call looks again after a second; without room it sleeps on.
Poll(c) ==
  /\ pc[c] = "waiting"
  /\ HasRoom
  /\ TakeSlot
  /\ SendRequest(c)
  /\ UNCHANGED <<url, timeoutMs, outcome, last, busy, cookies, reply, lost,
                 sessions, effects>>

\* Faulty: gives up one request too early.
RetryTooFew(c) ==
  IF sent[c] < MaxRetries(c)
  THEN /\ pc' = [pc EXCEPT ![c] = "sleeping"]
       /\ UNCHANGED <<outcome, currentConnectionCount>>
  ELSE Settle(c, "TimeoutError")
\* What the loop does with a RetryInfo: sleep, or give up after the last try.
Retry(c) ==
  IF sent[c] <= MaxRetries(c)
  THEN /\ pc' = [pc EXCEPT ![c] = "sleeping"]
       /\ UNCHANGED <<outcome, currentConnectionCount>>
  ELSE Settle(c, "TimeoutError")

\* Faulty: takes a missing Location for a URL.
NextUrlUnchecked(c, r) == r.location
\* A redirect with a valid Location changes the URL of the call.
NextUrl(c, r) == IF r.location # "none" THEN r.location ELSE url[c]

\* Faulty: ignores the cookies of replies that report an error.
NewCookiesIfOk(r) ==
  IF r.status = "ok" /\ r.setCookie # NoSession THEN r.setCookie ELSE cookies
\* Set-Cookie replaces the cookies, whatever else the reply says.
NewCookies(r) == IF r.setCookie # NoSession THEN r.setCookie ELSE cookies

\* Faulty: every request waits equally long.
NextTimeoutConstant(c) == timeoutMs[c]
\* A request that timed out is given twice the time.
NextTimeout(c) == 2 * timeoutMs[c]

\* The "end" event of the response, and the loop's reaction to its result.
\* A body that cannot be parsed rejects the promise before its status is
\* looked at; isRetryInfo() throws on the null that an empty one decodes to.
ReceiveReply(c) ==
  LET r == reply[c]
      broken == Decode[c] /\ r.body = "other"
      result == IF r.status # "ok" THEN "ApiError"
                ELSE IF Decode[c] /\ r.body = "empty" THEN "TypeError"
                ELSE "ok"
      retried == r.status \in {"busy", "moved"}
  IN
  /\ pc[c] = "awaiting"
  /\ r # NoReply
  /\ cookies' = NewCookies(r)
  /\ reply' = [reply EXCEPT ![c] = NoReply]
  /\ last' = [last EXCEPT ![c] = r.status]
  /\ busy' = [busy EXCEPT ![c] = IF retried THEN @ + 1 ELSE @]
  /\ \/ /\ broken
        /\ Settle(c, "XmlParseError")
        /\ UNCHANGED url
     \/ /\ ~broken
        /\ retried
        /\ url' = [url EXCEPT ![c] = NextUrl(c, r)]
        /\ Retry(c)
     \/ /\ ~broken
        /\ ~retried
        /\ Settle(c, result)
        /\ UNCHANGED url
  /\ UNCHANGED <<sent, timeoutMs, lost, serverVars>>

\* Forget what is still on its way to the current request of c.
Abandon(c) ==
  /\ reply' = [reply EXCEPT ![c] = NoReply]
  /\ lost' = IF \/ [call |-> c, nr |-> sent[c], cookie |-> NoSession] \in pending
                \/ reply[c] # NoReply /\ reply[c].setCookie # NoSession
             THEN lost + 1 ELSE lost

\* The "timeout" event: the request is destroyed and retried with twice the
\* timeout.  It fires only on a request that the server lets wait longer.
RequestTimeout(c) ==
  /\ pc[c] = "awaiting"
  /\ timeoutMs[c] < Latency[c]
  /\ Abandon(c)
  /\ timeoutMs' = [timeoutMs EXCEPT ![c] = NextTimeout(c)]
  /\ last' = [last EXCEPT ![c] = "timeout"]
  /\ Retry(c)
  /\ UNCHANGED <<sent, url, busy, cookies, serverVars>>

\* The "error" event of the request or of the response: never retried.
RequestError(c) ==
  /\ pc[c] = "awaiting"
  /\ Abandon(c)
  /\ last' = [last EXCEPT ![c] = "socket"]
  /\ Settle(c, "SocketError")
  /\ UNCHANGED <<sent, url, timeoutMs, busy, cookies, serverVars>>

\* The sleep between two requests is over.  doMakeApiCall() throws before it
\* sends anything if a redirect led to a protocol other than http(s).
Wake(c) ==
  /\ pc[c] = "sleeping"
  /\ \/ /\ url[c] = "ftp"
        /\ Settle(c, "AssertionError")
        /\ UNCHANGED <<sent, pending>>
     \/ /\ url[c] # "ftp"
        /\ SendRequest(c)
        /\ UNCHANGED <<outcome, currentConnectionCount>>
  /\ UNCHANGED <<url, timeoutMs, last, busy, cookies, reply, lost, sessions,
                 effects>>

-----------------------------------------------------------------------------
(* The server.  It may process a request long after its sender gave up.    *)

\* It carries the request out only when it answers "ok", and it may start a
\* session for a request that names none.
Process(r, status, location, body) ==
  /\ r \in pending
  /\ body = "empty" => status = "ok"   \* no different from "xml" otherwise
  /\ location # "none" => status = "moved"
  /\ pending' = pending \ {r}
  /\ effects' = [effects EXCEPT ![r.call] = IF status = "ok" THEN @ + 1 ELSE @]
  /\ \E issue \in {n \in {0, 1} : r.cookie # NoSession => n = 0} :
       /\ sessions' = sessions + issue
       /\ reply' =
            IF pc[r.call] = "awaiting" /\ sent[r.call] = r.nr
            THEN [reply EXCEPT ![r.call] =
                   [status |-> status, location |-> location, body |-> body,
                    setCookie |-> issue * (sessions + 1)]]
            ELSE reply
  /\ UNCHANGED <<callVars, currentConnectionCount, cookies, lost>>

\* Everything is settled and processed: nothing is left to happen.
Quiet ==
  /\ \A c \in Calls : pc[c] = "settled"
  /\ pending = {}
  /\ UNCHANGED vars

Server ==
  \E r \in pending, status \in Statuses, location \in Locations,
     body \in Bodies : Process(r, status, location, body)

Next ==
  \/ \E c \in Calls :
       \/ MakeApiCall(c)
       \/ Poll(c)
       \/ ReceiveReply(c)
       \/ RequestTimeout(c)
       \/ RequestError(c)
       \/ Wake(c)
  \/ Server
  \/ Quiet

\* The current request of c gets somewhere: node's timer fires on a silent
\* socket, so a request is answered, times out or fails.
Progress(c) ==
  \/ \E r \in pending, status \in Statuses, location \in Locations,
        body \in Bodies :
       /\ r.call = c
       /\ Process(r, status, location, body)
  \/ ReceiveReply(c)
  \/ RequestTimeout(c)
  \/ RequestError(c)

Fairness ==
  \A c \in Calls :
    /\ WF_vars(Poll(c))
    /\ WF_vars(Wake(c))
    /\ WF_vars(Progress(c))

SafeSpec == Init /\ [][Next]_vars

Spec == SafeSpec /\ Fairness

-----------------------------------------------------------------------------
(* Properties.                                                             *)

TypeOK ==
  /\ pc \in [Calls -> {"unmade", "waiting", "awaiting", "sleeping", "settled"}]
  /\ sent \in [Calls -> Nat]
  /\ url \in [Calls -> Urls]
  /\ timeoutMs \in [Calls -> Nat \ {0}]
  /\ outcome \in [Calls -> Outcomes]
  /\ currentConnectionCount \in Int
  /\ cookies \in Nat
  /\ pending \subseteq Requests
  /\ reply \in [Calls -> Replies \cup {NoReply}]
  /\ sessions \in Nat
  /\ effects \in [Calls -> Nat]
  /\ last \in [Calls -> Statuses \cup {"none", "timeout", "socket"}]
  /\ busy \in [Calls -> Nat]
  /\ lost \in Nat

\* The counter is the number of calls between its increment and its decrement,
\* and never exceeds maxConcurrentConnections: no way out of makeApiCall()
\* leaks a slot or gives one back twice (the asserts at lines 593 and 633).
SlotAccounting ==
  Limited => /\ currentConnectionCount = Cardinality(Holders)
             /\ currentConnectionCount <= MaxConnections

\* A call sends at most maxRetries + 1 requests, and one that is not a GET
\* sends a single one, so that it takes effect at most once even when its
\* request is processed after the caller was told of a timeout; a call that
\* was answered with a 2xx has taken effect (lines 168-178 and 536-538).
RequestBudget ==
  \A c \in Calls :
    /\ sent[c] <= MaxRetries(c) + 1
    /\ effects[c] <= sent[c]
    /\ Method[c] # "GET" => effects[c] <= 1
    /\ outcome[c] \in {"ok", "TypeError"} => effects[c] >= 1

\* What the caller gets agrees with what the last request came to: a value
\* for a 2xx, an ApiError for a status that is not retried, a TimeoutError
\* only when every request was spent and the last one was to be retried
\* (lines 546-550).
OutcomeFits ==
  \A c \in Calls :
    /\ outcome[c] \in {"ok", "TypeError"} => last[c] = "ok"
    /\ outcome[c] = "ApiError" => last[c] = "error"
    /\ outcome[c] = "TimeoutError" =>
         /\ last[c] \in {"busy", "moved", "timeout"}
         /\ sent[c] = MaxRetries(c) + 1
    /\ outcome[c] = "none" <=> pc[c] # "settled"

PowerOfTwo[n \in Nat] == IF n = 0 THEN 1 ELSE 2 * PowerOfTwo[n - 1]

\* Doubling timeoutMs pays off: a call that only ever timed out, apart from
\* busy[c] replies that asked it to come back, has waited for 2^n times its
\* initial timeout in the end, so it does not give up on a server that
\* answers within that time (lines 613-615).
SlowServerIsAwaited ==
  \A c \in Calls :
    outcome[c] = "TimeoutError" =>
      \/ busy[c] = MaxRetries(c) + 1
      \/ Latency[c] > PowerOfTwo[MaxRetries(c) - busy[c]]

\* The server starts a session only for requests that were in flight when the
\* first reply with a cookie arrived, or that were given up: later requests
\* carry the cookie, so the number of sessions is bounded by the slots and
\* not by the number of requests (lines 290-292, 709-712).
SessionsBounded ==
  sessions <= lost + (IF Limited THEN MaxConnections ELSE Cardinality(Calls))

\* Where the abstract pool sees each call.
StageOf(place) ==
  CASE place = "unmade" -> "unmade"
    [] place = "waiting" -> "queued"
    [] place \in {"awaiting", "sleeping"} -> "active"
    [] place = "settled" -> "answered"

PoolStage == [c \in Calls |-> StageOf(pc[c])]

Pool == INSTANCE CallPool WITH stage <- PoolStage

\* Every step of a Connection is a step of the pool or none: calls are
\* admitted only below the limit and answered once; and every call that
\* waits or is in progress moves on.
ImplementsPool == Pool!Spec

\* A call that was made is settled eventually: retries are bounded, a waiter
\* gets a slot once the other calls are through (lines 586-592).
EveryCallSettles ==
  \A c \in Calls : pc[c] # "unmade" ~> pc[c] = "settled"

\* "The request is retried if it times out or if one of the following status
\* codes is received: 301, 429 or 503" (lines 536-537): while tries are left,
\* such a status settles no call.
RetryableStatusIsRetried ==
  \A c \in Calls :
    /\ pc[c] = "settled"
    /\ last[c] \in {"busy", "timeout"}
    => sent[c] = MaxRetries(c) + 1

=============================================================================
