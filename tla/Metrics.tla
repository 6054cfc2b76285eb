------------------------------- MODULE Metrics ------------------------------
(***************************************************************************)
(* The request counters of op-server (metrics.rs).  The middleware counts  *)
(* every request, those for the metrics included, around an await: a       *)
(* request whose client hangs up meanwhile is dropped and never gets to    *)
(* the second half.  The counters are relaxed atomics, so what a request   *)
(* counts, and what a scrape reads, may be seen in any order.              *)
(***************************************************************************)
EXTENDS Integers, FiniteSets

CONSTANTS
  Clients,       \* each sends one request at a time
  MaxRequests,   \* bound of the model
  Unread         \* what a scrape has of a counter it has not read

ASSUME MetricsAssumption == MaxRequests \in Nat /\ IsFiniteSet(Clients)

VARIABLES
  counters,   \* the value of each counter
  doing,      \* what each client's request is doing
  due,        \* the counters a request has yet to change on its way out
  shown,      \* what the scrape of a client has read so far
  arrived, redirects   \* history: the requests that came, and those redirected

mvars == <<counters, doing, due, shown, arrived, redirects>>

Classes == {"http_requests_2xx", "http_requests_4xx", "http_requests_5xx"}
Counts == {"http_requests_total"} \cup Classes
Counters == Counts \cup {"active_connections"}
NotRead == [c \in Counters |-> Unread]

MetricsInit ==
  /\ counters = [c \in Counters |-> 0]
  /\ doing = [r \in Clients |-> "idle"]
  /\ due = [r \in Clients |-> {}]
  /\ shown = [r \in Clients |-> NotRead]
  /\ arrived = 0 /\ redirects = 0

\* connection_opened, before the request is passed on to its page.
ConnectionOpened(r, page) ==
  /\ doing[r] = "idle" /\ arrived < MaxRequests
  /\ doing' = [doing EXCEPT ![r] = page]
  /\ counters' = [counters EXCEPT !["active_connections"] = @ + 1]
  /\ arrived' = arrived + 1
  /\ UNCHANGED <<due, shown, redirects>>

\* export_prometheus, export_json: one counter after the other.
Load(r, c) ==
  /\ doing[r] = "scraping" /\ shown[r][c] = Unread
  /\ shown' = [shown EXCEPT ![r][c] = counters[c]]
  /\ UNCHANGED <<counters, doing, due, arrived, redirects>>

\* Mutant: an answer that is no success counts as a failure of the client.
ClassTwice(status) ==
  CASE status = "2xx" -> {"http_requests_2xx"}
    [] status = "3xx" -> {}
    [] status = "4xx" -> {"http_requests_4xx"}
    [] status = "5xx" -> {"http_requests_4xx", "http_requests_5xx"}

\* record_request: redirects are in no class.
Class(status) ==
  CASE status = "2xx" -> {"http_requests_2xx"}
    [] status = "3xx" -> {}
    [] status = "4xx" -> {"http_requests_4xx"}
    [] status = "5xx" -> {"http_requests_5xx"}

\* The page answers.
Respond(r, status) ==
  /\ doing[r] \in {"serving", "scraping"}
  /\ doing[r] = "scraping" => status = "2xx" /\ \A c \in Counters : shown[r][c] # Unread
  /\ doing' = [doing EXCEPT ![r] = "leaving"]
  /\ due' = [due EXCEPT ![r] = {"http_requests_total", "active_connections"} \cup Class(status)]
  /\ shown' = [shown EXCEPT ![r] = NotRead]
  /\ redirects' = IF status = "3xx" THEN redirects + 1 ELSE redirects
  /\ UNCHANGED <<counters, arrived>>

\* record_request and connection_closed, one counter at a time.
FetchAdd(r, c) ==
  /\ c \in due[r]
  /\ counters' = [counters EXCEPT ![c] = IF c = "active_connections" THEN @ - 1 ELSE @ + 1]
  /\ due' = [due EXCEPT ![r] = @ \ {c}]
  /\ doing' = [doing EXCEPT ![r] = IF due[r] = {c} THEN "idle" ELSE @]
  /\ UNCHANGED <<shown, arrived, redirects>>

\* The client closes its connection, and the middleware is dropped at its await.  The
\* export awaits nothing: a scrape is dropped before or after it.
HangUp(r) ==
  /\ doing[r] \in {"serving", "scraping"}
  /\ \A c \in Counters : shown[r][c] # Unread \/ shown[r] = NotRead
  /\ doing' = [doing EXCEPT ![r] = "idle"]
  /\ shown' = [shown EXCEPT ![r] = NotRead]
  /\ UNCHANGED <<counters, due, arrived, redirects>>

MetricsNext ==
  \E r \in Clients :
    \/ \E page \in {"serving", "scraping"} : ConnectionOpened(r, page)
    \/ \E c \in Counters : Load(r, c) \/ FetchAdd(r, c)
    \/ \E status \in {"2xx", "3xx", "4xx", "5xx"} : Respond(r, status)
    \/ HangUp(r)

MetricsSpec == MetricsInit /\ [][MetricsNext]_mvars

-----------------------------------------------------------------------------
(* Between requests the classes, with the redirects that have none, make   *)
(* up the total, in whatever order the requests were counted; and a scrape *)
(* that runs meanwhile finds itself active and not yet served, whoever     *)
(* hung up before.                                                         *)
AddUp ==
  /\ (\A r \in Clients : due[r] = {})
       => counters["http_requests_total"] = redirects + counters["http_requests_2xx"]
            + counters["http_requests_4xx"] + counters["http_requests_5xx"]
  /\ \A r \in Clients :
       doing[r] = "scraping"
         => /\ shown[r]["active_connections"] # Unread => shown[r]["active_connections"] >= 1
            /\ shown[r]["http_requests_total"] # Unread => shown[r]["http_requests_total"] < arrived

=============================================================================
