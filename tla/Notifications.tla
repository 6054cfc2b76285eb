---------------------------- MODULE Notifications ----------------------------
(***************************************************************************)
(* The notification service of op-notifications (service.rs), composed     *)
(* with the job queue it mails through.                                    *)
(*                                                                         *)
(* A WorkPackageNotifier works through the recipients of an event, one     *)
(* call of notify after the other: look at the recipient's settings, store *)
(* the notification, enqueue its mail.  Each of these is an await, and an  *)
(* action; the caller may be dropped at any of them.  Meanwhile users mark *)
(* their notifications as read and delete them, and workers send mail.     *)
(*                                                                         *)
(* A mail job is known by the notification it names in its args, so the    *)
(* ids of jobs are the ids of notifications.  Nothing in the crate calls   *)
(* mark_mail_sent, and nothing changes settings.                           *)
(***************************************************************************)
EXTENDS JobQueue, Sequences, FiniteSets

CONSTANTS
  Users,
  Settings,      \* the NotificationSettings of each user
  Project,       \* the project the events are in
  Ids,           \* JobIds in the order the store's counter gives them out
  Callers,       \* notifier calls, each about one event
  Events,        \* the events a call may be about
  Droppable,     \* the callers that may be dropped in an await
  Unlucky,       \* the callers enqueue may return an error to
  Markers,       \* calls of mark_read in progress at the same time
  None

Frequencies == {"Immediate", "Daily", "Weekly", "Never"}
Types == {"WorkPackageCreated", "WorkPackageAssigned", "WorkPackageMentioned"}
Reasons == {"Watched", "Assigned", "Mentioned"}

ASSUME NotificationsAssumption ==
  /\ \A u \in Users :
       /\ Settings[u].in_app_enabled \in BOOLEAN /\ Settings[u].email_enabled \in BOOLEAN
       /\ Settings[u].email_frequency \in Frequencies
       /\ Settings[u].enabled_types \subseteq Types
       /\ Settings[u].enabled_reasons \subseteq Reasons
       /\ Settings[u].all_projects \in BOOLEAN
  /\ Events \in [Callers -> SUBSET [type : Types, actor : Users, audience : Seq(Users)]]
  /\ \A c \in Callers : \A e \in Events[c] :
       e.type = "WorkPackageAssigned" => Len(e.audience) = 1
  /\ Ids \in [1 .. Cardinality(JobIds) -> JobIds]
  /\ \A j, k \in DOMAIN Ids : Ids[j] = Ids[k] => j = k
  /\ Droppable \subseteq Callers /\ Unlucky \subseteq Callers
  /\ None \notin Users /\ None \notin JobIds

VARIABLES
  inbox,     \* MemoryNotificationStore: what is stored under each id
  next_id,   \* the store's counter
  call,      \* where each notifier call stands
  marking    \* the copy each mark_read has taken and marked

notifying == <<inbox, next_id, call, marking>>
allVars == <<vars, notifying>>

Notification == [to : Users, read : BOOLEAN]
NoNotification == [to |-> None, read |-> FALSE]
Present(n) == inbox[n] # NoNotification
Drawn == {Ids[k] : k \in 1 .. (next_id - 1)}
NoMark == [id |-> None, copy |-> NoNotification]

-----------------------------------------------------------------------------
(* NotificationSettings.                                                   *)
ShouldNotify(s, type, reason) ==
  /\ s.in_app_enabled
  /\ type \in s.enabled_types
  /\ reason \in s.enabled_reasons
  /\ s.all_projects \/ Project \in s.watched_projects

ShouldEmail(s) == s.email_enabled /\ s.email_frequency # "Never"
WantsMail(u) == ShouldEmail(Settings[u]) /\ Settings[u].email_frequency = "Immediate"

(* on_created and on_mentioned leave the actor out, on_assigned tells the  *)
(* one assignee whoever it is.                                             *)
NoEvent == [type |-> None, actor |-> None, audience |-> <<>>]

ReasonOf(e) == CASE e.type = "WorkPackageCreated" -> "Watched"
                 [] e.type = "WorkPackageAssigned" -> "Assigned"
                 [] e.type = "WorkPackageMentioned" -> "Mentioned"

Concerns(e, u) == e.type = "WorkPackageAssigned" \/ u # e.actor
Recipients(e) == SelectSeq(e.audience, LAMBDA u : Concerns(e, u))

Idle == [at |-> "idle", event |-> NoEvent, todo |-> <<>>, id |-> None, results |-> <<>>]
Busies == {"loop", "storing", "mailing"}
Outcome == [to : Users, id : JobIds \cup {None}, outcome : {"Ok", "Disabled", "JobError"}]

NInit ==
  /\ Init
  /\ inbox = [n \in JobIds |-> NoNotification]
  /\ next_id = 1
  /\ call = [c \in Callers |-> Idle]
  /\ marking = [m \in Markers |-> NoMark]

-----------------------------------------------------------------------------
(* A notifier call.                                                        *)


\* The bound: no event is told to more recipients than there are ids for.
Waiting ==
  UNION {{c} \X {k \in DOMAIN call[c].todo : Concerns(call[c].event, call[c].todo[k])}
          : c \in Callers}
Affordable(e) ==
  Cardinality(Waiting) + Len(Recipients(e)) <= Len(Ids) + 1 - next_id

Start(c, e) ==
  /\ call[c].at = "idle"
  /\ Affordable(e)
  /\ call' = [call EXCEPT ![c] = [Idle EXCEPT !.at = "loop", !.event = e,
                                              !.todo = e.audience]]
  /\ UNCHANGED <<inbox, next_id, marking, vars>>

\* Mutant: the first error ends the loop.
AfterStops(c, outcome, n) ==
  [call[c] EXCEPT !.at = "loop", !.id = None,
                  !.todo = IF outcome = "Ok" THEN Tail(@) ELSE <<>>,
                  !.results = Append(@, [to |-> Head(call[c].todo), id |-> n,
                                         outcome |-> outcome])]

\* notify returned: its result is kept, whatever it is, and the loop goes on.
After(c, outcome, n) ==
  [call[c] EXCEPT !.at = "loop", !.id = None, !.todo = Tail(@),
                  !.results = Append(@, [to |-> Head(call[c].todo), id |-> n,
                                         outcome |-> outcome])]

Skip(c) ==
  /\ call[c].at = "loop" /\ call[c].todo # <<>>
  /\ ~Concerns(call[c].event, Head(call[c].todo))
  /\ call' = [call EXCEPT ![c].todo = Tail(@)]
  /\ UNCHANGED <<inbox, next_id, marking, vars>>

CheckSettings(c) ==
  /\ call[c].at = "loop" /\ call[c].todo # <<>>
  /\ Concerns(call[c].event, Head(call[c].todo))
  /\ LET e == call[c].event
     IN  call' = [call EXCEPT ![c] =
                    IF ShouldNotify(Settings[Head(@.todo)], e.type, ReasonOf(e))
                    THEN [@ EXCEPT !.at = "storing"]
                    ELSE After(c, "Disabled", None)]
  /\ UNCHANGED <<inbox, next_id, marking, vars>>

\* create, and deliver_all, whose only channel keeps no state.
CreateNotification(c) ==
  /\ call[c].at = "storing" /\ next_id \in DOMAIN Ids
  /\ LET n == Ids[next_id]
         u == Head(call[c].todo)
     IN  /\ inbox' = [inbox EXCEPT ![n] = [to |-> u, read |-> FALSE]]
         /\ call' = [call EXCEPT ![c] = IF WantsMail(u)
                                        THEN [@ EXCEPT !.at = "mailing", !.id = n]
                                        ELSE After(c, "Ok", n)]
  /\ next_id' = next_id + 1
  /\ UNCHANGED <<marking, vars>>

QueueEmail(c) ==
  /\ call[c].at = "mailing"
  /\ Enqueue(call[c].id, TRUE)
  /\ call' = [call EXCEPT ![c] = After(c, "Ok", call[c].id)]
  /\ UNCHANGED <<inbox, next_id, marking>>

\* Mutant: the error of enqueue is not passed on.
QueueEmailSwallowsError(c) ==
  /\ c \in Unlucky /\ call[c].at = "mailing"
  /\ call' = [call EXCEPT ![c] = After(c, "Ok", call[c].id)]
  /\ UNCHANGED <<inbox, next_id, marking, vars>>

QueueEmailError(c) ==
  /\ c \in Unlucky /\ call[c].at = "mailing"
  /\ call' = [call EXCEPT ![c] = After(c, "JobError", call[c].id)]
  /\ UNCHANGED <<inbox, next_id, marking, vars>>

Return(c) ==
  /\ call[c].at = "loop" /\ call[c].todo = <<>>
  /\ call' = [call EXCEPT ![c].at = "returned"]
  /\ UNCHANGED <<inbox, next_id, marking, vars>>

CallerStep(c) ==
  \/ Skip(c)
  \/ CheckSettings(c)
  \/ CreateNotification(c)
  \/ QueueEmail(c) \/ QueueEmailError(c)
  \/ Return(c)

DropCall(c) ==
  /\ c \in Droppable /\ call[c].at \in Busies
  /\ call' = [call EXCEPT ![c].at = "dropped", ![c].todo = <<>>]
  /\ UNCHANGED <<inbox, next_id, marking, vars>>

-----------------------------------------------------------------------------
(* What users do with their notifications.                                 *)

\* mark_read, up to update.  A missing notification is NotFound.
GetToMark(m, n) ==
  /\ marking[m] = NoMark /\ Present(n)
  /\ marking' = [marking EXCEPT ![m] = [id |-> n, copy |-> [inbox[n] EXCEPT !.read = TRUE]]]
  /\ UNCHANGED <<inbox, next_id, call, vars>>

\* Mutant: the copy is stored whether or not its original is.
UpdateMarkedInserts(m) ==
  /\ marking[m] # NoMark
  /\ inbox' = [inbox EXCEPT ![marking[m].id] = marking[m].copy]
  /\ marking' = [marking EXCEPT ![m] = NoMark]
  /\ UNCHANGED <<next_id, call, vars>>

\* update replaces what is stored under the id, if anything still is.
UpdateMarked(m) ==
  /\ marking[m] # NoMark
  /\ LET n == marking[m].id
     IN  inbox' = [inbox EXCEPT ![n] = IF Present(n) THEN marking[m].copy ELSE @]
  /\ marking' = [marking EXCEPT ![m] = NoMark]
  /\ UNCHANGED <<next_id, call, vars>>

MarkAllRead(u) ==
  /\ inbox' = [n \in JobIds |-> IF inbox[n].to = u THEN [inbox[n] EXCEPT !.read = TRUE]
                                ELSE inbox[n]]
  /\ UNCHANGED <<next_id, call, marking, vars>>

DeleteNotification(n) ==
  /\ Present(n)
  /\ inbox' = [inbox EXCEPT ![n] = NoNotification]
  /\ UNCHANGED <<next_id, call, marking, vars>>

NNext ==
  \/ Operate /\ UNCHANGED notifying
  \/ \E c \in Callers : CallerStep(c) \/ DropCall(c) \/ \E e \in Events[c] : Start(c, e)
  \/ \E n \in JobIds : DeleteNotification(n) \/ \E m \in Markers : GetToMark(m, n)
  \/ \E m \in Markers : UpdateMarked(m)
  \/ \E u \in Users : MarkAllRead(u)

NSpec == NInit /\ [][NNext]_allVars

(***************************************************************************)
(* Fairness: the runtime keeps polling a caller that is not dropped.       *)
(* Neither users nor the workers of the queue owe it anything.             *)
(***************************************************************************)
NFairSpec ==
  /\ NSpec
  /\ \A c \in Callers : WF_allVars(CallerStep(c))

-----------------------------------------------------------------------------
(***************************************************************************)
(* What notify tells its caller is what happened: a mail is enqueued for a *)
(* notification exactly when its caller was told Ok and the recipient      *)
(* wants mail at once, and for each notification once, also when callers   *)
(* are dropped, other calls run and notifications are deleted meanwhile.   *)
(* After a JobError the notification is stored and no mail is on its way.  *)
(***************************************************************************)
Results == UNION {{c} \X DOMAIN call[c].results : c \in Callers}
Result(x) == call[x[1]].results[x[2]]

MailMatchesResults ==
  /\ minted = {Result(x).id : x \in {y \in Results : Result(y).outcome = "Ok"
                                                      /\ WantsMail(Result(y).to)}}
  /\ \A x, y \in Results : Result(x).id = Result(y).id /\ x # y => Result(x).outcome = "Disabled"
  /\ \A x \in Results : Result(x).outcome # "Disabled" => Result(x).id \in Drawn

(* A notification that was deleted stays deleted, and one that was read    *)
(* stays read until then, whatever copies of it mark_read still has.       *)
ReadAndDeletedStay ==
  [][\A n \in Drawn : /\ ~Present(n) => ~Present(n)'
                      /\ inbox[n].read /\ Present(n)' => inbox'[n].read]_allVars

(* A notifier that is not dropped tells every recipient of its event, in   *)
(* order, though for some of them notify fails, and returns.               *)
Told(c) == [k \in DOMAIN call[c].results |-> call[c].results[k].to]
EveryoneTold ==
  \A c \in Callers :
    call[c].at = "loop" ~> \/ call[c].at = "returned" /\ Told(c) = Recipients(call[c].event)
                           \/ call[c].at = "dropped"

=============================================================================
