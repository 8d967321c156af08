----------------------------- MODULE RequestPath -----------------------------
(***************************************************************************)
(* The hooks of a proxied request, as Pingora calls them: request_filter,  *)
(* upstream_peer, then fail_to_connect, upstream_response_filter or        *)
(* error_while_proxy, again upstream_peer while the error says retry, and  *)
(* at the end logging.  Concurrent requests share the least-connections    *)
(* counters of the backend group and one circuit breaker per endpoint.     *)
(*                                                                         *)
(* The endpoint a request gets is any one of the group: the minimum is     *)
(* read and the counter raised in two steps, so a stale choice is normal.  *)
(***************************************************************************)
EXTENDS Integers, FiniteSets

CONSTANTS
  Requests,     \* concurrent requests of one route
  Endpoints,    \* the endpoints of its backend group
  RetryBudget,  \* RetryPolicy.attempts
  MaxRetries    \* Pingora's own bound on the attempts of a request

ASSUME RequestConstants == RetryBudget \in Nat /\ MaxRetries \in Nat \ {0}
ASSUME RequestsAssumption == IsFiniteSet(Requests) /\ "none" \notin Endpoints

VARIABLES
  req,      \* the ProxyCtx of each request and where its task is
  inUse,    \* LbEndpoint.active
  breaker,  \* per endpoint: the entry of the registry, and history: the errors recorded
  blame,    \* history: failed or abandoned attempts at each endpoint
  unmade    \* history: attempts at it that ended before a connection was tried

reqVars == <<req, inUse, breaker, blame, unmade>>

NoEndpoint == "none"
NewRequest == [pc |-> "filter", used |-> 0, trigger |-> "none", addr |-> NoEndpoint,
               track |-> NoEndpoint, pin |-> NoEndpoint, rejected |-> "no", tries |-> 0, reuses |-> 0,
               stale |-> 0, status |-> "none"]
NoBreaker == [state |-> "absent", errors |-> 0]

\* ProxyCtx; tries, and the two counts of the tries no budget pays for, are history:
\* reuses are Pingora's own, stale those error_while_proxy asks for because of an
\* earlier response retry.
Contexts ==
  [pc : {"filter", "peer", "connect", "proxy", "logging", "done"},
   used : 0 .. MaxRetries,
   trigger : {"none", "connect", "response"},
   addr : Endpoints \cup {NoEndpoint}, track : Endpoints \cup {NoEndpoint}, pin : Endpoints \cup {NoEndpoint},
   rejected : {"yes", "no"},
   tries : 0 .. MaxRetries, reuses : 0 .. MaxRetries, stale : 0 .. MaxRetries,
   status : {"none", "ok", "error"}]
Breakers ==
  [state : {"absent", "closed", "open", "elapsed", "half"}, errors : 0 .. Cardinality(Requests)]

ReqTypeOK ==
  /\ req \in [Requests -> Contexts]
  /\ inUse \in [Endpoints -> 0 .. Cardinality(Requests)]
  /\ breaker \in [Endpoints -> Breakers]
  /\ blame \in [Endpoints -> 0 .. Cardinality(Requests)]
  /\ unmade \in [Endpoints -> 0 .. Cardinality(Requests)]

ReqInit ==
  /\ req = [r \in Requests |-> NewRequest]
  /\ inUse = [e \in Endpoints |-> 0]
  /\ breaker = [e \in Endpoints |-> NoBreaker]
  /\ blame = [e \in Endpoints |-> 0]
  /\ unmade = [e \in Endpoints |-> 0]

-----------------------------------------------------------------------------
(* The filters, and the choice of a peer *)

\* request_filter: misdirected, no route, client certificate, address range,
\* rate limit, authentication, preflight, redirect and size each answer the
\* request; otherwise the route is resolved, with a pin if a session's cookie or
\* header still names an endpoint.
RequestFilter(r) ==
  /\ req[r].pc = "filter"
  /\ \/ req' = [req EXCEPT ![r].pc = "logging", ![r].status = "ok"]
     \/ \E p \in Endpoints \cup {NoEndpoint} :
          req' = [req EXCEPT ![r].pc = "peer", ![r].pin = p]
  /\ UNCHANGED <<inUse, breaker, blame, unmade>>

\* The request's deadline has passed.
DeadlinePassed(r) ==
  /\ req[r].pc = "peer"
  /\ req' = [req EXCEPT ![r].pc = "logging", ![r].status = "error"]
  /\ UNCHANGED <<inUse, breaker, blame, unmade>>

\* Mutant: a retry forgets the track of the attempt before.
TrackedTwice(r, e) ==
  IF req[r].pin # NoEndpoint THEN inUse ELSE [inUse EXCEPT ![e] = @ + 1]
\* A pin bypasses the balancer; otherwise the track of the attempt before is
\* released and the selected endpoint counted.
Tracked(r, e) ==
  IF req[r].pin # NoEndpoint THEN inUse
  ELSE [d \in Endpoints |-> inUse[d] + (IF d = e THEN 1 ELSE 0)
                                     - (IF d = req[r].track THEN 1 ELSE 0)]

\* is_call_permitted: a breaker is built on first use; an open one whose time has
\* passed lets a probe through and is half open from then on.
Permitted(e) == breaker[e].state # "open"
Probed(b) == CASE b.state = "absent" -> [b EXCEPT !.state = "closed"]
               [] b.state = "elapsed" -> [b EXCEPT !.state = "half"]
               [] OTHER -> b

\* The request with the endpoint it was given; a pinned one keeps no track.
PeerChosen(r, e) == [req[r] EXCEPT !.addr = e, !.track = IF req[r].pin = NoEndpoint THEN e ELSE @]

ChoosesPeer(r, e) ==
  /\ req[r].pc = "peer"
  /\ req[r].pin \in {NoEndpoint, e}
  /\ inUse' = Tracked(r, e)
  /\ breaker' = [breaker EXCEPT ![e] = Probed(@)]

\* The breaker's gate: an open one answers 503; otherwise Pingora connects.
UpstreamPeer(r, e) ==
  /\ ChoosesPeer(r, e)
  /\ req' = [req EXCEPT ![r] =
               IF Permitted(e)
               THEN [PeerChosen(r, e) EXCEPT !.pc = "connect", !.tries = @ + 1]
               ELSE [PeerChosen(r, e) EXCEPT !.pc = "logging", !.rejected = "yes", !.status = "error"]]
  /\ UNCHANGED <<blame, unmade>>

\* Capped at the number of requests, which is the most errors a breaker can record.
OneMore(n) == IF n < Cardinality(Requests) THEN n + 1 ELSE n

\* apply_upstream_tls: the CA or the client certificate of the group does not parse,
\* which answers 502 behind the gate: the address is set and nothing marks the request
\* as rejected.  The group's TLS is the same for every attempt, so only a first one fails.
PeerTlsFails(r, e) ==
  /\ ChoosesPeer(r, e) /\ Permitted(e) /\ req[r].tries = 0
  /\ req' = [req EXCEPT ![r] = [PeerChosen(r, e) EXCEPT !.pc = "logging", !.status = "error"]]
  /\ unmade' = [unmade EXCEPT ![e] = OneMore(@)]
  /\ UNCHANGED blame

-----------------------------------------------------------------------------
(* The attempt *)

Failed(r) == blame' = [blame EXCEPT ![req[r].addr] = OneMore(@)]
GivesUp(r) == req' = [req EXCEPT ![r].pc = "logging", ![r].status = "error"]

Connects(r) ==
  /\ req[r].pc = "connect"
  /\ req' = [req EXCEPT ![r].pc = "proxy"]
  /\ UNCHANGED <<inUse, breaker, blame, unmade>>

\* Mutant: the budget is compared after the retry was counted.
BudgetLeftOffByOne(r) == req[r].used <= RetryBudget
BudgetLeft(r) == req[r].used < RetryBudget

\* Pingora tries again, up to a bound of its own.
Again(ctx) == IF ctx.tries < MaxRetries THEN [ctx EXCEPT !.pc = "peer"]
              ELSE [ctx EXCEPT !.pc = "logging", !.status = "error"]
Retries(r, why) ==
  req' = [req EXCEPT ![r] = Again([req[r] EXCEPT !.used = @ + 1, !.trigger = why])]

\* fail_to_connect: no byte was sent, a retry is always safe.
FailToConnect(r) ==
  /\ req[r].pc = "connect"
  /\ IF BudgetLeft(r) THEN Retries(r, "connect") ELSE GivesUp(r)
  /\ Failed(r)
  /\ UNCHANGED <<inUse, breaker, unmade>>

\* upstream_response_filter: a response the policy retries, unless the budget is
\* spent or the request's buffer was truncated; any other is passed on.
RetriableResponse(r) ==
  /\ req[r].pc = "proxy"
  /\ \/ BudgetLeft(r) /\ Retries(r, "response")
     \/ GivesUp(r)
  /\ Failed(r)
  /\ UNCHANGED <<inUse, breaker, unmade>>

PassedResponse(r) ==
  /\ req[r].pc = "proxy"
  /\ \/ /\ req' = [req EXCEPT ![r].pc = "logging", ![r].status = "ok"]
        /\ UNCHANGED blame
     \/ GivesUp(r) /\ Failed(r)
  /\ UNCHANGED <<inUse, breaker, unmade>>

\* error_while_proxy: after a response retry every later error is retried;
\* otherwise Pingora retries only what a reused connection lost.
BrokenProxy(r) ==
  /\ req[r].pc = "proxy"
  /\ \/ /\ req[r].trigger = "response"
        /\ req' = [req EXCEPT ![r] = Again([req[r] EXCEPT !.stale = @ + 1])]
     \/ /\ req[r].trigger # "response"
        /\ req' = [req EXCEPT ![r] = Again([req[r] EXCEPT !.reuses = @ + 1])]
     \/ req[r].trigger # "response" /\ GivesUp(r)
  /\ Failed(r)
  /\ UNCHANGED <<inUse, breaker, unmade>>

\* The client goes away before a response was written.
ClientAborts(r) ==
  /\ req[r].pc \in {"connect", "proxy"}
  /\ req' = [req EXCEPT ![r].pc = "logging"]
  /\ Failed(r)
  /\ UNCHANGED <<inUse, breaker, unmade>>

-----------------------------------------------------------------------------
(* Logging *)

\* on_success and on_error, on an entry that is built if there is none.  Whether an
\* error opens a closed breaker depends on the success rate of a time window.
Recorded(b, status) ==
  IF status = "ok"
  THEN {[b EXCEPT !.state = IF @ \in {"absent", "half"} THEN "closed" ELSE @]}
  ELSE {[state |-> after, errors |-> b.errors + 1] :
          after \in CASE b.state \in {"absent", "closed"} -> {"closed", "open"}
                     [] b.state = "half" -> {"open"}
                     [] OTHER -> {b.state}}

\* Mutant: a rejected request is recorded like any other.
RecordsAlways(r) == req[r].addr # NoEndpoint
Records(r) == req[r].rejected = "no" /\ req[r].addr # NoEndpoint

\* complete and record, after which the context is dropped.  Two requests that build the same breaker at the same time
\* keep one of the two entries: the other one's record is lost.
Logging(r) ==
  /\ req[r].pc = "logging"
  /\ inUse' = [e \in Endpoints |-> IF e = req[r].track THEN inUse[e] - 1 ELSE inUse[e]]
  /\ \/ /\ Records(r)
        /\ \E b \in Recorded(breaker[req[r].addr], req[r].status) :
             breaker' = [breaker EXCEPT ![req[r].addr] = b]
     \/ ~Records(r) /\ UNCHANGED breaker
     \/ /\ Records(r) /\ breaker[req[r].addr].state = "absent"
        /\ \E q \in Requests \ {r} : req[q].pc \in {"peer", "logging"}
        /\ breaker' = [breaker EXCEPT ![req[r].addr].state = "closed"]
  /\ req' = [req EXCEPT ![r] = [NewRequest EXCEPT !.pc = "done"]]
  /\ UNCHANGED <<blame, unmade>>

\* The sweep drops every closed entry.
SweepBreakers ==
  /\ \E e \in Endpoints : breaker[e].state = "closed"
  /\ breaker' = [e \in Endpoints |->
                   IF breaker[e].state = "closed" THEN [breaker[e] EXCEPT !.state = "absent"] ELSE breaker[e]]
  /\ UNCHANGED <<req, inUse, blame, unmade>>

OpenElapses(e) ==
  /\ breaker[e].state = "open"
  /\ breaker' = [breaker EXCEPT ![e].state = "elapsed"]
  /\ UNCHANGED <<req, inUse, blame, unmade>>

-----------------------------------------------------------------------------
RequestStep(r) ==
  \/ RequestFilter(r) \/ DeadlinePassed(r) \/ Connects(r) \/ FailToConnect(r)
  \/ RetriableResponse(r) \/ PassedResponse(r) \/ BrokenProxy(r) \/ ClientAborts(r)
  \/ Logging(r)
  \/ \E e \in Endpoints : UpstreamPeer(r, e) \/ PeerTlsFails(r, e)

ReqNext ==
  \/ \E r \in Requests : RequestStep(r)
  \/ SweepBreakers
  \/ \E e \in Endpoints : OpenElapses(e)

ReqSpec == ReqInit /\ [][ReqNext]_reqVars

-----------------------------------------------------------------------------
(* Properties *)

\* The least-connections counter of every endpoint is the number of requests
\* that hold it, through retries, rejections, deadlines and client aborts: a leak
\* would starve the endpoint for ever.
InUseExact ==
  \A e \in Endpoints : inUse[e] = Cardinality({r \in Requests : req[r].track = e})

\* A breaker counts an error only for an attempt at its endpoint that failed, was
\* abandoned, or ended in the set-up of its TLS: a request that an open breaker turned
\* away, or that ended elsewhere, never counts against it.
ErrorsBacked == \A e \in Endpoints : breaker[e].errors <= blame[e] + unmade[e]

\* crates/coxswain-proxy/src/hooks.rs:1035: where no real upstream attempt was made there
\* is no outcome to record.  FAILS: a broken CA or client certificate is recorded against
\* the endpoint that was not even dialled, and opens its breaker.
ErrorsFromAttempts == \A e \in Endpoints : breaker[e].errors <= blame[e]

\* docs/src/operations/retries.md:16: with attempts n the proxy makes at most
\* n + 1 attempts (what Pingora itself repeats on a reused connection aside).
AttemptsWithinBudget ==
  \A r \in Requests : req[r].tries <= 1 + RetryBudget + req[r].reuses

\* The same bound, as far as error_while_proxy keeps it: every try beyond it is one
\* that follows a retry a response caused, however the triggers of the request
\* alternate.
BudgetUntilStale ==
  \A r \in Requests : req[r].tries <= 1 + RetryBudget + req[r].reuses + req[r].stale
=============================================================================
