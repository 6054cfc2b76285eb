------------------------------ MODULE MCServer ------------------------------
(***************************************************************************)
(* Five parts of the server that share no state: its views, its counters,  *)
(* the services with their contracts, the queries of its clients, and the  *)
(* schema made from what is known of their tables.  Whatever interleaves   *)
(* them, a part sees its own steps only, so every behaviour is one of a    *)
(* single part, in which the others stay where they began.                 *)
(***************************************************************************)
EXTENDS Views, Metrics, Services, MCQueries, MCSchema, TLC

VARIABLE part

Parts == {"views", "metrics", "services", "queries", "schema"}

\* The parts that do not run begin in one of their initial states.
ServerInit ==
  /\ part \in Parts
  /\ Init /\ MetricsInit
  /\ ServicesInit /\ (part # "services" => acting = CHOOSE c \in Contexts : TRUE)
  /\ QueriesInit /\ (part # "queries" => Stored = {} /\ me = Null)
  /\ SchemaInit /\ (part # "schema" => facts = Declarations)

ServerNext ==
  \/ part = "views" /\ Next /\ UNCHANGED <<mvars, svars, queriesVars, schemaVars>>
  \/ part = "metrics" /\ MetricsNext /\ UNCHANGED <<vars, svars, queriesVars, schemaVars>>
  \/ part = "services" /\ ServicesNext /\ UNCHANGED <<vars, mvars, queriesVars, schemaVars>>
  \/ part = "queries" /\ QueriesNext /\ UNCHANGED <<vars, mvars, svars, schemaVars>>
  \/ part = "schema" /\ SchemaNext /\ UNCHANGED <<vars, mvars, svars, queriesVars>>

ServerSpec ==
  /\ ServerInit
  /\ [][ServerNext /\ UNCHANGED part]_<<part, vars, mvars, svars, queriesVars, schemaVars>>

-----------------------------------------------------------------------------
(* An administrator, and a user to be created who may add work packages in *)
(* one project and delete them in the other, itself to be created; two     *)
(* calls in progress.                                                      *)
CONSTANTS root, anna, p1, p2, w1, c1, c2

MCUsers == {root, anna}
MCProjects == {p1, p2}
MCPackages == {w1}
MCContexts == {c1, c2}
\* Requests give an unacceptable text alone, an acceptable one with some of
\* the other attributes, or any of those without it.
MCUserRequests ==
  {r \in UserParams : /\ r.text = "bad" => r.admin = None /\ r.status = None
                      /\ r.text = "good" => r.status # "ACTIVE" /\ r.admin # FALSE}
MCProjectRequests ==
  {r \in [text : Text \cup {None}, active : {None}, parent : {p1, None}] :
     r.text = "bad" => r.parent = None}
MCPackageRequests ==
  {r \in [text : Text \cup {None}, project : MCProjects \cup {0, None},
          done_ratio : {101, None}] :
     /\ r.text = "bad" => r.project = None /\ r.done_ratio = None
     /\ r.text = "good" => r.done_ratio = None}
MCGrants ==
  anna :> {<<"add_work_packages", p1>>, <<"delete_work_packages", p2>>,
           <<"add_project", Global>>, <<"add_project", p2>>}
    @@ root :> {} @@ Anonymous :> {<<"add_work_packages", p1>>}
=============================================================================
