------------------------------ MODULE Sessions ------------------------------
(***************************************************************************)
(* Who a request is taken for: the session store of op-auth (session.rs),  *)
(* its tokens (jwt.rs) and the Authenticator that tries one credential     *)
(* after the other (middleware.rs).                                        *)
(*                                                                         *)
(* Every store operation takes the RwLock once and authenticate never      *)
(* waits, so each is one action.  What the code that serves a request does *)
(* with its session is not: it gets a copy, changes it and sets it again,  *)
(* while other requests do the same, users log out and the clock runs.     *)
(***************************************************************************)
EXTENDS Integers, Sequences

CONSTANTS
  Users,
  SessionIds,    \* ids generate_session_id can draw; none is drawn twice
  Requests,
  Strategies,    \* AuthConfig: the strategies, in order of preference
  HasJwt,        \* AuthConfig: whether there is a JwtService
  HasStore,      \* AuthConfig: whether there is a SessionStore
  AllowAnonymous,
  Tokens,        \* tokens create_token made; the service keeps none
  Headers,       \* the password and the api key a request may send
  ApiUser,       \* the user api keys and passwords stand for
  Lifetimes,     \* the seconds sessions are given
  Leeway,        \* how long jsonwebtoken accepts an expired token
  MaxTime,       \* bound of the model: the clock
  None

ASSUME SessionsAssumption ==
  /\ Strategies \in Seq({"Jwt", "ApiKey", "Session", "Basic", "OAuth2"})
  /\ HasJwt \in BOOLEAN /\ HasStore \in BOOLEAN /\ AllowAnonymous \in BOOLEAN
  /\ ApiUser \in Users /\ None \notin Users
  /\ SessionIds \cap {"token", "key", None} = {}
  /\ Tokens \subseteq [sub : Users, exp : Int]
  /\ Headers \subseteq [password : {"none", "blank", "given"}, api_key : {"none", "short", "long"}]
  /\ Lifetimes \subseteq Int /\ Leeway \in Nat /\ MaxTime \in Nat

VARIABLES
  now,        \* chrono::Utc::now
  sessions,   \* MemorySessionStore: what is stored under each id
  issued,     \* ids already drawn
  copy,       \* the copy of a session each request works on
  answer,     \* what authenticate told the last request that asked
  granted,    \* history: the latest expiry each session was ever given
  ended       \* history: sessions deleted at someone's wish

vars == <<now, sessions, issued, copy, answer, granted, ended>>
history == <<granted, ended>>

\* Session.  data, addresses and accessed_at decide nothing here.
Session == [user_id : Users \cup {None}, expires_at : Int]
NoSession == [user_id |-> None, expires_at |-> -1]
NoCopy == [id |-> None, session |-> NoSession]
Stored(s) == sessions[s] # NoSession

\* Mutant: a session is still valid in the second it expires in.
IsValidTooLong(session) == now <= session.expires_at

IsValid(session) == now < session.expires_at

Visible(s) == Stored(s) /\ IsValid(sessions[s])

-----------------------------------------------------------------------------
(* Authenticator.  A strategy answers, or passes the request on to the     *)
(* next one.  Credentials: the bearer token or password in Authorization,  *)
(* the length of the api key, the session the cookie names.                *)
NoToken == [sub |-> None, exp |-> 0]
Forged == [sub |-> None, exp |-> 1]
Credentials ==
  [bearer : Tokens \cup {NoToken, Forged}, other : Headers, cookie : SessionIds \cup {None}]

\* An answer: what it is, the user it is for, and what it was given for.
Pass == [result |-> "Pass", user |-> None, by |-> None]
As(u, c) == [result |-> "Authenticated", user |-> u, by |-> c]
Refused(error) == [result |-> error, user |-> None, by |-> None]

TryJwt(h) ==
  IF ~HasJwt \/ h.bearer = NoToken THEN Pass
  ELSE IF h.bearer \notin Tokens THEN Refused("InvalidCredentials")
  ELSE IF h.bearer.exp < now - Leeway THEN Refused("TokenExpired")
  ELSE As(h.bearer.sub, "token")

TryApiKey(h) ==
  CASE h.other.api_key = "none" -> Pass
    [] h.other.api_key = "short" -> Refused("InvalidCredentials")
    [] h.other.api_key = "long" -> As(ApiUser, "key")

\* get returns nothing that has expired, and an anonymous session decides nothing.
TrySession(h) ==
  IF ~HasStore \/ h.cookie = None \/ ~Visible(h.cookie) \/ sessions[h.cookie].user_id = None
  THEN Pass
  ELSE As(sessions[h.cookie].user_id, h.cookie)

TryBasic(h) ==
  CASE h.other.password = "none" -> Pass
    [] h.other.password = "blank" -> Refused("InvalidCredentials")
    [] h.other.password = "given" -> As(ApiUser, "key")

Try(strategy, h) ==
  CASE strategy = "Jwt" -> TryJwt(h)
    [] strategy = "ApiKey" -> TryApiKey(h)
    [] strategy = "Session" -> TrySession(h)
    [] strategy = "Basic" -> TryBasic(h)
    [] strategy = "OAuth2" -> Pass

\* The first strategy that does not pass decides.
AnswersTo(h) ==
  LET passes(k) == Try(Strategies[k], h) = Pass
  IN  IF \A k \in DOMAIN Strategies : passes(k)
      THEN {IF AllowAnonymous THEN Refused("Anonymous") ELSE Refused("Required")}
      ELSE {Try(Strategies[k], h) :
              k \in {n \in DOMAIN Strategies : ~passes(n) /\ \A j \in 1 .. n - 1 : passes(j)}}

Authenticate(h) ==
  /\ h.bearer = NoToken \/ h.other.password = "none"    \* there is one Authorization header
  /\ \E a \in AnswersTo(h) :
       answer' = [says |-> a, at |-> now,
                  token |-> IF a.by = "token" THEN h.bearer ELSE NoToken]
  /\ UNCHANGED <<now, sessions, issued, copy, history>>

-----------------------------------------------------------------------------
(* The store, and what requests do with it.                                *)
Init ==
  /\ now = 0
  /\ sessions = [s \in SessionIds |-> NoSession]
  /\ issued = {}
  /\ copy = [r \in Requests |-> NoCopy]
  /\ answer = [says |-> Pass, at |-> 0, token |-> NoToken]
  /\ granted = [s \in SessionIds |-> 0] /\ ended = {}

Later(a, b) == IF a < b THEN b ELSE a

\* Session::authenticated or Session::anonymous, stored with set.
Login(u, s, life) ==
  /\ s \notin issued
  /\ issued' = issued \cup {s}
  /\ sessions' = [sessions EXCEPT ![s] = [user_id |-> u, expires_at |-> now + life]]
  /\ granted' = [granted EXCEPT ![s] = now + life]
  /\ UNCHANGED <<now, copy, answer, ended>>

\* Mutant: get returns whatever is stored.
GetStored(r, s) ==
  /\ copy[r] = NoCopy /\ Stored(s)
  /\ copy' = [copy EXCEPT ![r] = [id |-> s, session |-> sessions[s]]]
  /\ UNCHANGED <<now, sessions, issued, answer, history>>

Get(r, s) ==
  /\ copy[r] = NoCopy /\ Visible(s)
  /\ copy' = [copy EXCEPT ![r] = [id |-> s, session |-> sessions[s]]]
  /\ UNCHANGED <<now, sessions, issued, answer, history>>

Extend(r, life) ==
  /\ copy[r] # NoCopy
  /\ copy' = [copy EXCEPT ![r].session.expires_at = now + life]
  /\ granted' = [granted EXCEPT ![copy[r].id] = Later(@, now + life)]
  /\ UNCHANGED <<now, sessions, issued, answer, ended>>

\* set inserts the copy whatever is stored by now.
Set(r) ==
  /\ copy[r] # NoCopy
  /\ sessions' = [sessions EXCEPT ![copy[r].id] = copy[r].session]
  /\ copy' = [copy EXCEPT ![r] = NoCopy]
  /\ UNCHANGED <<now, issued, answer, history>>

\* The request ends, or is dropped, without writing its copy back.
Forget(r) ==
  /\ copy[r] # NoCopy
  /\ copy' = [copy EXCEPT ![r] = NoCopy]
  /\ UNCHANGED <<now, sessions, issued, answer, history>>

Delete(s) ==
  /\ Stored(s)
  /\ sessions' = [sessions EXCEPT ![s] = NoSession]
  /\ ended' = ended \cup {s}
  /\ UNCHANGED <<now, issued, copy, answer, granted>>

SessionsOf(u) == {s \in SessionIds : Stored(s) /\ sessions[s].user_id = u}

DeleteUserSessions(u) ==
  /\ sessions' = [s \in SessionIds |-> IF s \in SessionsOf(u) THEN NoSession ELSE sessions[s]]
  /\ ended' = ended \cup SessionsOf(u)
  /\ UNCHANGED <<now, issued, copy, answer, granted>>

\* A session that expires right now is invalid and stays until the next cleanup.
Expired == {s \in SessionIds : Stored(s) /\ sessions[s].expires_at < now}

CleanupExpired ==
  /\ sessions' = [s \in SessionIds |-> IF s \in Expired THEN NoSession ELSE sessions[s]]
  /\ UNCHANGED <<now, issued, copy, answer, history>>

Tick ==
  /\ now < MaxTime
  /\ now' = now + 1
  /\ UNCHANGED <<sessions, issued, copy, answer, history>>

Next ==
  \/ \E u \in Users \cup {None}, s \in SessionIds, life \in Lifetimes : Login(u, s, life)
  \/ \E h \in Credentials : Authenticate(h)
  \/ \E r \in Requests :
       \/ \E s \in SessionIds : Get(r, s)
       \/ \E life \in Lifetimes : Extend(r, life)
       \/ Set(r) \/ Forget(r)
  \/ \E s \in SessionIds : Delete(s)
  \/ \E u \in Users : DeleteUserSessions(u)
  \/ CleanupExpired \/ Tick

Spec == Init /\ [][Next]_vars

-----------------------------------------------------------------------------
\* The values of the variables.
TypeOK ==
  /\ now \in 0 .. MaxTime
  /\ sessions \in [SessionIds -> Session \cup {NoSession}]
  /\ issued \in SUBSET SessionIds /\ ended \in SUBSET issued
  /\ copy \in [Requests -> [id : issued, session : Session] \cup {NoCopy}]
  /\ answer.at \in 0 .. now
  /\ answer.says.user \in Users \cup {None} /\ answer.says.by \in issued \cup {"token", "key", None}
  /\ granted \in [SessionIds -> Int]

(* A session nobody can use any more stays that way: once it has been      *)
(* deleted, cleaned up or has expired and no request still works on a copy *)
(* of it, no later call makes it valid again.  While a request has a copy  *)
(* it may: set inserts it again.                                           *)
Gone(s) == s \in issued /\ ~Visible(s) /\ \A r \in Requests : copy[r].id # s

GoneForGood == [][\A s \in SessionIds : Gone(s) => Gone(s)']_vars

(* A valid session ends only because time has reached its expiry, because  *)
(* somebody deleted it, or because a request set a copy it took before the *)
(* session was extended: cleaning up removes no session that is in use.    *)
EndsForAReason ==
  [][\A s \in SessionIds :
       Visible(s) /\ ~Visible(s)'
         => \/ now' > now
            \/ s \in ended'
            \/ \E r \in Requests : copy[r].id = s /\ copy'[r] = NoCopy]_vars

(* Nobody is taken for a user after the last expiry the session was ever   *)
(* given, or the token's with its leeway, nor for another user than the    *)
(* token names, however copies of the session were extended and set.       *)
TakenForInTime ==
  LET u == answer.says.user
      by == answer.says.by
  IN  answer.says.result = "Authenticated"
        => \/ by \in SessionIds /\ answer.at < granted[by]
           \/ /\ by = "token" /\ u = answer.token.sub
              /\ answer.at <= answer.token.exp + Leeway
           \/ by = "key" /\ u = ApiUser

=============================================================================
