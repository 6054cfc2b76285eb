--------------------------- MODULE SessionsProofs ---------------------------
(***************************************************************************)
(* Proofs about Sessions, for any users, sessions, requests, strategies    *)
(* and tokens: type correctness, that nobody is taken for a user too late, *)
(* that a session that is gone stays gone, and that a valid one does not   *)
(* end without a reason.                                                   *)
(*                                                                         *)
(* TakenForInTime is about an answer given in the past and says nothing of *)
(* the store: it needs that neither what is stored nor any copy outlives   *)
(* the latest expiry the session was given, and that only ids drawn before *)
(* are stored or copied.                                                   *)
(***************************************************************************)
EXTENDS Sessions, TLAPS

(* What is stored was drawn.                                               *)
StoredIssued == \A s \in SessionIds : Stored(s) => s \in issued

(* Neither the stored session nor a copy lasts longer than was granted.    *)
Bounded ==
  /\ \A s \in SessionIds : Stored(s) => sessions[s].expires_at <= granted[s]
  /\ \A r \in Requests : copy[r] # NoCopy =>
       copy[r].session.expires_at <= granted[copy[r].id]

IInv == TypeOK /\ StoredIssued /\ Bounded /\ TakenForInTime

-----------------------------------------------------------------------------
(* What the strategies answer: a refusal, or the user of a credential that *)
(* was good at that time.                                                  *)
Justified(a, h) ==
  \/ a.user = None /\ a.by = None /\ a.result # "Authenticated"
  \/ /\ a.by = "token" /\ h.bearer \in Tokens /\ a.user = h.bearer.sub
     /\ now - Leeway <= h.bearer.exp
  \/ a.by = "key" /\ a.user = ApiUser
  \/ a.by \in SessionIds /\ Visible(a.by) /\ a.user = sessions[a.by].user_id

LEMMA TryJustified ==
  ASSUME NEW h \in Credentials, TypeOK,
         NEW strategy \in {"Jwt", "ApiKey", "Session", "Basic", "OAuth2"}
  PROVE  Justified(Try(strategy, h), h)
<1>1. /\ h.bearer \in Tokens \cup {NoToken, Forged} /\ h.other \in Headers
      /\ h.cookie \in SessionIds \cup {None}
  BY DEF Credentials
<1>2. Tokens \subseteq [sub : Users, exp : Int] /\ now \in Int /\ Leeway \in Int
  BY SessionsAssumption DEF TypeOK
<1>3. CASE strategy = "Jwt"
  <2>1. Try(strategy, h) = TryJwt(h)
    BY <1>3 DEF Try
  <2>2. \/ TryJwt(h).user = None /\ TryJwt(h).by = None /\ TryJwt(h).result # "Authenticated"
        \/ /\ TryJwt(h) = As(h.bearer.sub, "token") /\ h.bearer \in Tokens
           /\ ~(h.bearer.exp < now - Leeway)
    BY DEF TryJwt, Pass, Refused
  <2>3. QED
    BY <1>2, <2>1, <2>2 DEF As, Justified
<1>4. CASE strategy = "ApiKey"
  <2>1. h.other.api_key \in {"none", "short", "long"}
    BY <1>1, SessionsAssumption
  <2>2. QED
    BY <1>4, <2>1 DEF Try, TryApiKey, Pass, Refused, As, Justified
<1>5. CASE strategy = "Session"
  <2>1. Try(strategy, h) = TrySession(h)
    BY <1>5 DEF Try
  <2>2. TrySession(h) = Pass \/ /\ TrySession(h) = As(sessions[h.cookie].user_id, h.cookie)
                                /\ h.cookie # None /\ Visible(h.cookie)
    BY DEF TrySession
  <2>3. QED
    BY <1>1, <2>1, <2>2 DEF Pass, As, Justified
<1>6. CASE strategy = "Basic"
  <2>1. h.other.password \in {"none", "blank", "given"}
    BY <1>1, SessionsAssumption
  <2>2. QED
    BY <1>6, <2>1 DEF Try, TryBasic, Pass, Refused, As, Justified
<1>7. CASE strategy = "OAuth2"
  BY <1>7 DEF Try, Pass, Justified
<1>8. QED
  BY <1>3, <1>4, <1>5, <1>6, <1>7

LEMMA AnswerJustified ==
  ASSUME NEW h \in Credentials, TypeOK, NEW a \in AnswersTo(h)
  PROVE  Justified(a, h)
<1>1. CASE \A k \in DOMAIN Strategies : Try(Strategies[k], h) = Pass
  BY <1>1 DEF AnswersTo, Refused, Justified
<1>2. CASE \E k \in DOMAIN Strategies : a = Try(Strategies[k], h)
  <2>1. PICK k \in DOMAIN Strategies : a = Try(Strategies[k], h)
    BY <1>2
  <2>2. Strategies[k] \in {"Jwt", "ApiKey", "Session", "Basic", "OAuth2"}
    BY SessionsAssumption
  <2>3. QED
    BY <2>1, <2>2, TryJustified
<1>3. QED
  BY <1>1, <1>2 DEF AnswersTo

-----------------------------------------------------------------------------
LEMMA InitIInv == Init => IInv
<1> SUFFICES ASSUME Init PROVE IInv
  OBVIOUS
<1>1. TypeOK
  BY SessionsAssumption DEF Init, TypeOK, Session, Pass, NoCopy
<1>2. StoredIssued /\ Bounded
  BY DEF Init, StoredIssued, Bounded, Stored, NoCopy
<1>3. TakenForInTime
  BY DEF Init, TakenForInTime, Pass
<1>4. QED
  BY <1>1, <1>2, <1>3 DEF IInv

(* An answer stays justified as long as what was granted only grows.       *)
LEMMA AnswerKept ==
  ASSUME IInv, answer' = answer, \A s \in issued : granted[s] <= granted'[s],
         granted' \in [SessionIds -> Int]
  PROVE  TakenForInTime'
<1>1. answer.says.by \in issued \cup {"token", "key", None} /\ issued \subseteq SessionIds
  BY DEF IInv, TypeOK
<1>2. SessionIds \cap {"token", "key", None} = {}
  BY SessionsAssumption
<1>3. answer.at \in Int /\ granted \in [SessionIds -> Int]
  BY DEF IInv, TypeOK
<1>4. CASE answer.says.by \in SessionIds
  <2>1. answer.says.by \in issued
    BY <1>1, <1>2, <1>4
  <2>2. QED
    BY <1>2, <1>3, <1>4, <2>1 DEF IInv, TakenForInTime
<1>5. CASE answer.says.by \notin SessionIds
  BY <1>5 DEF IInv, TakenForInTime
<1>6. QED
  BY <1>4, <1>5

(***************************************************************************)
(* One lemma for each action.                                              *)
(***************************************************************************)
LEMMA AuthenticateStep ==
  ASSUME IInv, NEW h \in Credentials, Authenticate(h)
  PROVE  IInv'
<1>1. PICK a \in AnswersTo(h) :
        answer' = [says |-> a, at |-> now,
                   token |-> IF a.by = "token" THEN h.bearer ELSE NoToken]
  BY DEF Authenticate
<1>2. UNCHANGED <<now, sessions, issued, copy, granted, ended>>
  BY DEF Authenticate, history
<1>3. Justified(a, h)
  BY AnswerJustified DEF IInv
<1>4. ASSUME a.by \in SessionIds, Visible(a.by)
      PROVE  /\ a.by \in issued /\ now < granted[a.by]
             /\ sessions[a.by].user_id \in Users \cup {None}
  <2>1. Stored(a.by) /\ now < sessions[a.by].expires_at
    BY <1>4 DEF Visible, IsValid
  <2>2. /\ sessions[a.by] \in Session /\ granted[a.by] \in Int /\ now \in Int
    BY <1>4, <2>1 DEF IInv, TypeOK, Stored
  <2>3. QED
    BY <1>4, <2>1, <2>2 DEF IInv, StoredIssued, Bounded, Session
<1>5. TypeOK'
  <2>1. a.user \in Users \cup {None} /\ a.by \in issued \cup {"token", "key", None}
    BY <1>3, <1>4, SessionsAssumption DEF Justified
  <2>2. QED
    BY <1>1, <1>2, <2>1 DEF IInv, TypeOK
<1>6. StoredIssued' /\ Bounded'
  BY <1>2 DEF IInv, StoredIssued, Bounded, Stored
<1>7. TakenForInTime'
  <2>1. now \in Int /\ Leeway \in Int /\ Tokens \subseteq [sub : Users, exp : Int]
    BY SessionsAssumption DEF IInv, TypeOK
  <2>2. CASE a.by \in SessionIds /\ Visible(a.by)
    BY <1>1, <1>2, <1>4, <2>2 DEF TakenForInTime
  <2>3. CASE a.by = "token" /\ h.bearer \in Tokens /\ a.user = h.bearer.sub
             /\ now - Leeway <= h.bearer.exp
    BY <1>1, <2>1, <2>3 DEF TakenForInTime
  <2>4. CASE a.by = "key" /\ a.user = ApiUser
    BY <1>1, <2>4 DEF TakenForInTime
  <2>5. CASE a.result # "Authenticated"
    BY <1>1, <2>5 DEF TakenForInTime
  <2>6. QED
    BY <1>3, <2>2, <2>3, <2>4, <2>5 DEF Justified
<1>8. QED
  BY <1>5, <1>6, <1>7 DEF IInv

LEMMA LoginStep ==
  ASSUME IInv, NEW u \in Users \cup {None}, NEW s \in SessionIds, NEW life \in Lifetimes,
         Login(u, s, life)
  PROVE  IInv'
<1>1. now \in Int /\ life \in Int /\ now + life \in Int
  BY SessionsAssumption DEF IInv, TypeOK
<1>2. sessions' = [sessions EXCEPT ![s] = [user_id |-> u, expires_at |-> now + life]]
  BY DEF Login
<1>3. granted' = [granted EXCEPT ![s] = now + life] /\ granted' \in [SessionIds -> Int]
  BY <1>1 DEF Login, IInv, TypeOK
<1>4. s \notin issued /\ issued' = issued \cup {s} /\ UNCHANGED <<now, copy, answer, ended>>
  BY DEF Login
<1>5. TypeOK'
  <2>1. sessions' \in [SessionIds -> Session \cup {NoSession}]
    BY <1>1, <1>2 DEF IInv, TypeOK, Session
  <2>2. copy' \in [Requests -> [id : issued', session : Session] \cup {NoCopy}]
    BY <1>4 DEF IInv, TypeOK
  <2>3. QED
    BY <1>3, <1>4, <2>1, <2>2 DEF IInv, TypeOK
<1>6. StoredIssued'
  BY <1>2, <1>4 DEF IInv, TypeOK, StoredIssued, Stored
<1>7. Bounded'
  <2>1. \A r \in Requests : copy[r] # NoCopy => copy[r].id \in issued
    BY DEF IInv, TypeOK
  <2>2. \A k \in issued : granted'[k] = granted[k]
    BY <1>3, <1>4 DEF IInv, TypeOK
  <2>3. \A k \in SessionIds : Stored(k)' => sessions'[k].expires_at <= granted'[k]
    BY <1>1, <1>2, <1>3 DEF IInv, TypeOK, Bounded, Stored
  <2>4. QED
    BY <1>4, <2>1, <2>2, <2>3 DEF IInv, Bounded
<1>8. TakenForInTime'
  <2>1. \A k \in issued : granted[k] <= granted'[k]
    BY <1>3, <1>4 DEF IInv, TypeOK
  <2>2. QED
    BY <1>3, <1>4, <2>1, AnswerKept
<1>9. QED
  BY <1>5, <1>6, <1>7, <1>8 DEF IInv

(* Steps that only take sessions out of the store, or take copies of what  *)
(* is stored, or throw copies away.                                        *)
OnlyTakenOut == \A s \in SessionIds : Stored(s)' => sessions'[s] = sessions[s]

CopiesOfStored ==
  \A r \in Requests :
    \/ copy'[r] \in {NoCopy, copy[r]}
    \/ /\ copy'[r].id \in SessionIds /\ Stored(copy'[r].id)
       /\ copy'[r].session = sessions[copy'[r].id]

LEMMA QuietStep ==
  ASSUME IInv,
         now' \in 0 .. MaxTime, now <= now', issued' = issued, answer' = answer,
         granted' = granted, ended' \in SUBSET issued,
         sessions' \in [SessionIds -> Session \cup {NoSession}], OnlyTakenOut,
         copy' \in [Requests -> [id : issued, session : Session] \cup {NoCopy}], CopiesOfStored
  PROVE  IInv'
<1>1. TypeOK'
  BY DEF IInv, TypeOK
<1>2. StoredIssued'
  BY DEF IInv, StoredIssued, Stored, OnlyTakenOut
<1>3. Bounded'
  BY DEF IInv, Bounded, Stored, OnlyTakenOut, CopiesOfStored
<1>4. TakenForInTime'
  <2>1. \A k \in issued : granted[k] <= granted'[k]
    BY DEF IInv, TypeOK
  <2>2. granted' \in [SessionIds -> Int]
    BY DEF IInv, TypeOK
  <2>3. QED
    BY <2>1, <2>2, AnswerKept
<1>5. QED
  BY <1>1, <1>2, <1>3, <1>4 DEF IInv

LEMMA GetStep ==
  ASSUME IInv, NEW r \in Requests, NEW s \in SessionIds, Get(r, s)
  PROVE  IInv'
<1>1. Stored(s) /\ s \in issued /\ sessions[s] \in Session
  BY DEF Get, Visible, IInv, StoredIssued, TypeOK, Stored
<1>2. copy' = [copy EXCEPT ![r] = [id |-> s, session |-> sessions[s]]]
  BY DEF Get
<1>3. UNCHANGED <<now, sessions, issued, answer, granted, ended>>
  BY DEF Get, history
<1>4. copy' \in [Requests -> [id : issued, session : Session] \cup {NoCopy}]
  BY <1>1, <1>2 DEF IInv, TypeOK
<1>5. CopiesOfStored
  <2> SUFFICES ASSUME NEW q \in Requests
               PROVE  \/ copy'[q] \in {NoCopy, copy[q]}
                      \/ /\ copy'[q].id \in SessionIds /\ Stored(copy'[q].id)
                         /\ copy'[q].session = sessions[copy'[q].id]
    BY DEF CopiesOfStored
  <2>1. CASE q = r
    <3>1. copy'[q] = [id |-> s, session |-> sessions[s]]
      BY <1>2, <2>1 DEF IInv, TypeOK
    <3>2. copy'[q].id = s /\ copy'[q].session = sessions[s]
      BY <3>1
    <3>3. QED
      BY <1>1, <3>2
  <2>2. CASE q # r
    <3>1. copy'[q] = copy[q]
      BY <1>2, <2>2 DEF IInv, TypeOK
    <3>2. QED
      BY <3>1
  <2>3. QED
    BY <2>1, <2>2
<1>6. now' \in 0 .. MaxTime /\ now <= now' /\ ended' \in SUBSET issued
      /\ sessions' \in [SessionIds -> Session \cup {NoSession}]
  BY <1>3 DEF IInv, TypeOK
<1>7. OnlyTakenOut
  BY <1>3 DEF OnlyTakenOut
<1>8. QED
  BY <1>3, <1>4, <1>5, <1>6, <1>7, QuietStep

LEMMA ExtendStep ==
  ASSUME IInv, NEW r \in Requests, NEW life \in Lifetimes, Extend(r, life)
  PROVE  IInv'
<1>1. now \in Int /\ life \in Int /\ now + life \in Int
  BY SessionsAssumption DEF IInv, TypeOK
<1>2. /\ copy[r] \in [id : issued, session : Session] /\ copy[r].id \in SessionIds
      /\ copy[r].id \in issued
  BY DEF Extend, IInv, TypeOK
<1> DEFINE new == [id |-> copy[r].id,
                   session |-> [user_id |-> copy[r].session.user_id, expires_at |-> now + life]]
<1>3. copy' = [copy EXCEPT ![r] = new]
  <2>1. copy' = [copy EXCEPT ![r] = [copy[r] EXCEPT !.session =
                                       [copy[r].session EXCEPT !.expires_at = now + life]]]
    BY DEF Extend
  <2>2. copy[r] = [id |-> copy[r].id, session |-> copy[r].session]
    BY <1>2
  <2>3. copy[r].session = [user_id |-> copy[r].session.user_id,
                           expires_at |-> copy[r].session.expires_at]
    BY <1>2 DEF Session
  <2>4. [copy[r].session EXCEPT !.expires_at = now + life]
          = [user_id |-> copy[r].session.user_id, expires_at |-> now + life]
    BY <2>3
  <2>5. [copy[r] EXCEPT !.session = [copy[r].session EXCEPT !.expires_at = now + life]] = new
    BY <2>2, <2>4
  <2>6. QED
    BY <2>1, <2>5
<1>4. new \in [id : issued, session : Session]
  BY <1>1, <1>2 DEF Session
<1>5. granted' = [granted EXCEPT ![copy[r].id] = Later(@, now + life)]
  BY DEF Extend
<1>6. /\ granted' \in [SessionIds -> Int] /\ \A k \in SessionIds : granted[k] <= granted'[k]
      /\ now + life <= granted'[copy[r].id]
  BY <1>1, <1>2, <1>5 DEF IInv, TypeOK, Later
<1>7. UNCHANGED <<now, sessions, issued, answer, ended>>
  BY DEF Extend
<1>8. copy' \in [Requests -> [id : issued, session : Session] \cup {NoCopy}]
  BY <1>3, <1>4 DEF IInv, TypeOK
<1>9. TypeOK'
  BY <1>6, <1>7, <1>8 DEF IInv, TypeOK
<1>10. StoredIssued'
  BY <1>7 DEF IInv, StoredIssued, Stored
<1>11. Bounded'
  <2>1. \A s \in SessionIds : Stored(s)' => sessions'[s].expires_at <= granted'[s]
    <3>1. TAKE s \in SessionIds
    <3>2. HAVE Stored(s)'
    <3>3. Stored(s) /\ sessions[s] \in Session
      BY <1>7, <3>2 DEF IInv, TypeOK, Stored
    <3>4. sessions[s].expires_at \in Int /\ granted[s] \in Int /\ granted'[s] \in Int
      BY <1>6, <3>3 DEF IInv, TypeOK, Session
    <3>5. QED
      BY <1>6, <1>7, <3>3, <3>4 DEF IInv, Bounded
  <2>2. ASSUME NEW q \in Requests, copy'[q] # NoCopy
        PROVE  copy'[q].session.expires_at <= granted'[copy'[q].id]
    <3>1. CASE q = r
      BY <1>3, <1>6, <3>1 DEF IInv, TypeOK
    <3>2. CASE q # r
      <4>1. copy'[q] = copy[q] /\ copy[q] \in [id : issued, session : Session]
        BY <1>3, <2>2, <3>2 DEF IInv, TypeOK
      <4>2. /\ copy[q].session.expires_at \in Int /\ copy[q].id \in SessionIds
            /\ granted[copy[q].id] \in Int /\ granted'[copy[q].id] \in Int
        BY <1>6, <4>1 DEF IInv, TypeOK, Session
      <4>3. copy[q].session.expires_at <= granted[copy[q].id]
        BY <2>2, <4>1 DEF IInv, Bounded
      <4>4. QED
        BY <1>6, <4>1, <4>2, <4>3
    <3>3. QED
      BY <3>1, <3>2
  <2>3. QED
    BY <2>1, <2>2 DEF Bounded
<1>12. TakenForInTime'
  <2>1. \A k \in issued : granted[k] <= granted'[k]
    BY <1>6 DEF IInv, TypeOK
  <2>2. QED
    BY <1>6, <1>7, <2>1, AnswerKept
<1>13. QED
  BY <1>9, <1>10, <1>11, <1>12 DEF IInv

LEMMA SetStep ==
  ASSUME IInv, NEW r \in Requests, Set(r)
  PROVE  IInv'
<1>1. /\ copy[r] \in [id : issued, session : Session] /\ copy[r].id \in issued
      /\ copy[r].id \in SessionIds /\ copy[r].session \in Session
  BY DEF Set, IInv, TypeOK
<1>2. /\ sessions' = [sessions EXCEPT ![copy[r].id] = copy[r].session]
      /\ copy' = [copy EXCEPT ![r] = NoCopy]
      /\ UNCHANGED <<now, issued, answer, granted, ended>>
  BY DEF Set, history
<1>3. TypeOK'
  <2>1. sessions' \in [SessionIds -> Session \cup {NoSession}]
    BY <1>1, <1>2 DEF IInv, TypeOK
  <2>2. copy' \in [Requests -> [id : issued, session : Session] \cup {NoCopy}]
    BY <1>2 DEF IInv, TypeOK
  <2>3. QED
    BY <1>2, <2>1, <2>2 DEF IInv, TypeOK
<1>4. StoredIssued'
  BY <1>1, <1>2 DEF IInv, TypeOK, StoredIssued, Stored
<1>5. Bounded'
  <2>1. copy[r].session.expires_at <= granted[copy[r].id]
    BY DEF Set, IInv, Bounded
  <2>2. \A s \in SessionIds : Stored(s)' => sessions'[s].expires_at <= granted'[s]
    BY <1>1, <1>2, <2>1 DEF IInv, TypeOK, Bounded, Stored
  <2>3. \A q \in Requests : copy'[q] # NoCopy =>
          copy'[q].session.expires_at <= granted'[copy'[q].id]
    BY <1>2 DEF IInv, TypeOK, Bounded
  <2>4. QED
    BY <2>2, <2>3 DEF Bounded
<1>6. TakenForInTime'
  <2>1. \A k \in issued : granted[k] <= granted'[k]
    BY <1>2 DEF IInv, TypeOK
  <2>2. QED
    BY <1>2, <2>1, AnswerKept DEF IInv, TypeOK
<1>7. QED
  BY <1>3, <1>4, <1>5, <1>6 DEF IInv

LEMMA OtherSteps ==
  ASSUME IInv,
         \/ \E r \in Requests : Forget(r)
         \/ \E s \in SessionIds : Delete(s)
         \/ \E u \in Users : DeleteUserSessions(u)
         \/ CleanupExpired \/ Tick
  PROVE  IInv'
<1>1. /\ now \in 0 .. MaxTime /\ sessions \in [SessionIds -> Session \cup {NoSession}]
      /\ copy \in [Requests -> [id : issued, session : Session] \cup {NoCopy}]
      /\ ended \in SUBSET issued /\ MaxTime \in Nat
      /\ \A s \in SessionIds : Stored(s) => s \in issued
  BY SessionsAssumption DEF IInv, TypeOK, StoredIssued
<1>2. ASSUME NEW r \in Requests, Forget(r) PROVE IInv'
  <2>1. /\ copy' = [copy EXCEPT ![r] = NoCopy]
        /\ UNCHANGED <<now, sessions, issued, answer, granted, ended>>
    BY <1>2 DEF Forget, history
  <2>2. /\ copy' \in [Requests -> [id : issued, session : Session] \cup {NoCopy}]
        /\ CopiesOfStored
    BY <1>1, <2>1 DEF CopiesOfStored
  <2>3. now <= now' /\ OnlyTakenOut
    BY <1>1, <2>1 DEF OnlyTakenOut
  <2>4. QED
    BY <1>1, <2>1, <2>2, <2>3, QuietStep
<1>3. ASSUME NEW s \in SessionIds, Delete(s) PROVE IInv'
  <2>1. /\ sessions' = [sessions EXCEPT ![s] = NoSession] /\ ended' = ended \cup {s}
        /\ Stored(s) /\ UNCHANGED <<now, issued, copy, answer, granted>>
    BY <1>3 DEF Delete
  <2>2. /\ sessions' \in [SessionIds -> Session \cup {NoSession}]
        /\ OnlyTakenOut
    BY <1>1, <2>1 DEF OnlyTakenOut, Stored
  <2>3. now <= now' /\ ended' \in SUBSET issued /\ CopiesOfStored
    BY <1>1, <2>1 DEF CopiesOfStored
  <2>4. QED
    BY <1>1, <2>1, <2>2, <2>3, QuietStep
<1>4. ASSUME NEW u \in Users, DeleteUserSessions(u) PROVE IInv'
  <2>1. /\ sessions' = [s \in SessionIds |-> IF s \in SessionsOf(u) THEN NoSession
                                              ELSE sessions[s]]
        /\ ended' = ended \cup SessionsOf(u) /\ UNCHANGED <<now, issued, copy, answer, granted>>
    BY <1>4 DEF DeleteUserSessions
  <2>2. /\ sessions' \in [SessionIds -> Session \cup {NoSession}]
        /\ OnlyTakenOut
    BY <1>1, <2>1 DEF OnlyTakenOut, Stored
  <2>3. now <= now' /\ ended' \in SUBSET issued /\ CopiesOfStored
    BY <1>1, <2>1 DEF CopiesOfStored, SessionsOf
  <2>4. QED
    BY <1>1, <2>1, <2>2, <2>3, QuietStep
<1>5. ASSUME CleanupExpired PROVE IInv'
  <2>1. /\ sessions' = [s \in SessionIds |-> IF s \in Expired THEN NoSession ELSE sessions[s]]
        /\ UNCHANGED <<now, issued, copy, answer, granted, ended>>
    BY <1>5 DEF CleanupExpired, history
  <2>2. /\ sessions' \in [SessionIds -> Session \cup {NoSession}]
        /\ OnlyTakenOut
    BY <1>1, <2>1 DEF OnlyTakenOut, Stored
  <2>3. now <= now' /\ CopiesOfStored
    BY <1>1, <2>1 DEF CopiesOfStored
  <2>4. QED
    BY <1>1, <2>1, <2>2, <2>3, QuietStep
<1>6. ASSUME Tick PROVE IInv'
  <2>1. now' \in 0 .. MaxTime /\ now <= now'
        /\ UNCHANGED <<sessions, issued, copy, answer, granted, ended>>
    BY <1>1, <1>6 DEF Tick, history
  <2>2. OnlyTakenOut /\ CopiesOfStored
    BY <2>1 DEF OnlyTakenOut, CopiesOfStored
  <2>3. QED
    BY <1>1, <2>1, <2>2, QuietStep
<1>7. QED
  BY <1>2, <1>3, <1>4, <1>5, <1>6

LEMMA StutterStep == IInv /\ UNCHANGED vars => IInv'
<1>1. SUFFICES ASSUME IInv, UNCHANGED vars PROVE IInv'
  OBVIOUS
<1>2. TypeOK'
  BY <1>1 DEF IInv, TypeOK, vars
<1>3. StoredIssued' /\ Bounded'
  BY <1>1 DEF IInv, StoredIssued, Bounded, Stored, vars
<1>4. TakenForInTime'
  BY <1>1 DEF IInv, TakenForInTime, vars
<1>5. QED
  BY <1>2, <1>3, <1>4 DEF IInv

LEMMA Invariance == Spec => []IInv
<1>1. IInv /\ [Next]_vars => IInv'
  <2>1. SUFFICES ASSUME IInv, [Next]_vars PROVE IInv'
    OBVIOUS
  <2>2. QED
    BY <2>1, AuthenticateStep, LoginStep, GetStep, ExtendStep, SetStep, OtherSteps, StutterStep
       DEF Next
<1>2. QED
  BY <1>1, InitIInv, PTL DEF Spec

-----------------------------------------------------------------------------
(* Clock, store, copies and answers stay well typed, and whatever is       *)
(* answered or copied was stored under an id generate_session_id drew.     *)
THEOREM TypeCorrect == Spec => []TypeOK
  BY Invariance, PTL DEF IInv

(* Nobody is taken for a user after the last expiry his session was given, *)
(* or that of his token with its leeway (try_session_auth, try_jwt_auth),  *)
(* however requests extend and set copies of sessions.                     *)
THEOREM NobodyTakenTooLate == Spec => []TakenForInTime
  BY Invariance, PTL DEF IInv

(* A session that is invalid or deleted while no request has a copy of it  *)
(* never becomes valid again: only set can bring one back (session.rs).    *)
THEOREM NoReturn == Spec => GoneForGood
<1>1. IInv /\ [Next]_vars => [\A s \in SessionIds : Gone(s) => Gone(s)']_vars
  <2> SUFFICES ASSUME IInv, Next, NEW s \in SessionIds, Gone(s) PROVE Gone(s)'
    BY DEF vars
  <2>2. /\ s \in issued /\ ~(Stored(s) /\ now < sessions[s].expires_at)
        /\ \A r \in Requests : copy[r].id # s
    BY DEF Gone, Visible, IsValid
  <2>3. s # None /\ NoCopy.id = None
    BY SessionsAssumption DEF NoCopy
  <2>4. SUFFICES /\ s \in issued' /\ ~(Stored(s)' /\ now' < sessions'[s].expires_at)
                 /\ \A r \in Requests : copy'[r].id # s
    BY DEF Gone, Visible, IsValid
  <2>5. ASSUME NEW h \in Credentials, Authenticate(h)
        PROVE UNCHANGED <<now, sessions, issued, copy>>
    BY <2>5 DEF Authenticate
  <2>6. ASSUME NEW u \in Users \cup {None}, NEW k \in SessionIds, NEW life \in Lifetimes,
               Login(u, k, life)
        PROVE  /\ s \in issued' /\ sessions'[s] = sessions[s] /\ UNCHANGED <<now, copy>>
    BY <2>2, <2>6 DEF Login, IInv, TypeOK
  <2>7. ASSUME NEW r \in Requests, NEW k \in SessionIds, Get(r, k)
        PROVE  /\ UNCHANGED <<now, sessions, issued>> /\ \A q \in Requests : copy'[q].id # s
    <3>1. k # s
      BY <2>2, <2>7 DEF Get, Visible, IsValid
    <3>2. UNCHANGED <<now, sessions, issued>>
             /\ copy' = [copy EXCEPT ![r] = [id |-> k, session |-> sessions[k]]]
      BY <2>7 DEF Get
    <3>3. QED
      BY <2>2, <3>1, <3>2 DEF IInv, TypeOK
  <2>8. ASSUME NEW r \in Requests, NEW life \in Lifetimes, Extend(r, life)
        PROVE  /\ UNCHANGED <<now, sessions, issued>> /\ \A q \in Requests : copy'[q].id # s
    <3>1. UNCHANGED <<now, sessions, issued>>
      BY <2>8 DEF Extend
    <3>2. copy' = [copy EXCEPT ![r] = [copy[r] EXCEPT !.session =
                                 [copy[r].session EXCEPT !.expires_at = now + life]]]
      BY <2>8 DEF Extend
    <3>3. copy[r] \in [id : issued, session : Session]
      BY <2>8 DEF Extend, IInv, TypeOK
    <3>4. copy'[r].id = copy[r].id
      BY <3>2, <3>3 DEF IInv, TypeOK
    <3>5. \A q \in Requests : q # r => copy'[q] = copy[q]
      BY <3>2 DEF IInv, TypeOK
    <3>6. QED
      BY <2>2, <3>1, <3>4, <3>5
  <2>9. ASSUME NEW r \in Requests, Set(r) \/ Forget(r)
        PROVE  /\ sessions'[s] = sessions[s] /\ UNCHANGED <<now, issued>>
               /\ \A q \in Requests : copy'[q].id # s
    <3>1. sessions'[s] = sessions[s] /\ UNCHANGED <<now, issued>>
      BY <2>2, <2>9 DEF Set, Forget, IInv, TypeOK
    <3>2. copy' = [copy EXCEPT ![r] = NoCopy]
      BY <2>9 DEF Set, Forget
    <3>3. QED
      BY <2>2, <2>3, <3>1, <3>2 DEF IInv, TypeOK
  <2>10. ASSUME \/ \E k \in SessionIds : Delete(k)
                \/ \E u \in Users : DeleteUserSessions(u)
                \/ CleanupExpired
         PROVE  /\ sessions'[s] \in {NoSession, sessions[s]} /\ UNCHANGED <<now, issued, copy>>
    BY <2>10 DEF Delete, DeleteUserSessions, CleanupExpired, IInv, TypeOK
  <2>11. ASSUME Tick
         PROVE  now < now' /\ UNCHANGED <<sessions, issued, copy>>
    BY <2>11 DEF Tick, IInv, TypeOK
  <2>12. now \in Int /\ now' \in Int /\ (Stored(s) => sessions[s].expires_at \in Int)
    <3>1. IInv'
      BY AuthenticateStep, LoginStep, GetStep, ExtendStep, SetStep, OtherSteps DEF Next
    <3>2. QED
      BY <3>1 DEF IInv, TypeOK, Stored, Session
  <2>13. QED
    BY <2>2, <2>5, <2>6, <2>7, <2>8, <2>9, <2>10, <2>11, <2>12 DEF Next, Stored
<1>2. QED
  BY <1>1, Invariance, PTL DEF Spec, GoneForGood

(* A valid session ends by time, by a delete or by a set of an older copy: *)
(* cleanup_expired removes none that is in use.                            *)
THEOREM NoSuddenEnd == Spec => EndsForAReason
<1>1. IInv /\ [Next]_vars
        => [\A s \in SessionIds :
              Visible(s) /\ ~Visible(s)'
                => \/ now' > now
                   \/ s \in ended'
                   \/ \E r \in Requests : copy[r].id = s /\ copy'[r] = NoCopy]_vars
  <2> SUFFICES ASSUME IInv, Next, NEW s \in SessionIds, Visible(s), ~Visible(s)'
               PROVE  \/ now' > now
                      \/ s \in ended'
                      \/ \E r \in Requests : copy[r].id = s /\ copy'[r] = NoCopy
    BY DEF vars
  <2>2. Stored(s) /\ s \in issued /\ now < sessions[s].expires_at
    BY DEF Visible, IsValid, IInv, StoredIssued
  <2>3. now' # now \/ sessions'[s] # sessions[s]
    BY DEF Visible, IsValid, Stored
  <2>4. ASSUME Tick PROVE now' > now
    BY <2>4 DEF Tick, IInv, TypeOK
  <2>5. ASSUME NEW r \in Requests, Set(r) PROVE copy[r].id = s /\ copy'[r] = NoCopy
    <3>1. s = copy[r].id
      BY <2>3, <2>5 DEF Set, IInv, TypeOK
    <3>2. copy'[r] = NoCopy
      BY <2>5 DEF Set, IInv, TypeOK
    <3>3. QED
      BY <3>1, <3>2
  <2>6. ASSUME \/ \E k \in SessionIds : Delete(k)
               \/ \E u \in Users : DeleteUserSessions(u)
        PROVE  s \in ended'
    BY <2>3, <2>6 DEF Delete, DeleteUserSessions, IInv, TypeOK
  <2>7. ASSUME CleanupExpired PROVE FALSE
    <3>1. now \in Int /\ sessions[s].expires_at \in Int
      BY <2>2 DEF IInv, TypeOK, Stored, Session
    <3>2. s \notin Expired
      BY <2>2, <3>1 DEF Expired
    <3>3. QED
      BY <2>3, <2>7, <3>2 DEF CleanupExpired, IInv, TypeOK
  <2>8. ASSUME NEW u \in Users \cup {None}, NEW k \in SessionIds, NEW life \in Lifetimes,
               Login(u, k, life)
        PROVE  FALSE
    BY <2>2, <2>3, <2>8 DEF Login, IInv, TypeOK
  <2>9. ASSUME NEW h \in Credentials, Authenticate(h) PROVE FALSE
    BY <2>3, <2>9 DEF Authenticate
  <2>10. ASSUME NEW r \in Requests, NEW k \in SessionIds, Get(r, k) PROVE FALSE
    BY <2>3, <2>10 DEF Get
  <2>11. ASSUME NEW r \in Requests, NEW life \in Lifetimes, Extend(r, life) PROVE FALSE
    <3>1. UNCHANGED <<now, sessions>>
      BY <2>11 DEF Extend
    <3>2. QED
      BY <2>3, <3>1
  <2>12. ASSUME NEW r \in Requests, Forget(r) PROVE FALSE
    BY <2>3, <2>12 DEF Forget
  <2>13. QED
    BY <2>4, <2>5, <2>6, <2>7, <2>8, <2>9, <2>10, <2>11, <2>12 DEF Next
<1>2. QED
  BY <1>1, Invariance, PTL DEF Spec, EndsForAReason
=============================================================================
