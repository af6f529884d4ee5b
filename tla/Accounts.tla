------------------------------- MODULE Accounts -------------------------------
(***************************************************************************)
(* The principal of a request.  Authentication has been removed: every     *)
(* request runs as the default admin, and the first ones create it with    *)
(* its organization.  Both are found by name and kept unique by the        *)
(* database: an INSERT waits for an uncommitted one of the same name and   *)
(* fails once that has committed.                                          *)
(*                                                                         *)
(* A row is named after the request that inserted it.                      *)
(***************************************************************************)

CONSTANTS
  Requests,
  Migration,   (* what inserted the organization before: the migration that *)
               (* adopts old workspaces, or create-user                     *)
  None

ASSUME NamesAssumption == Migration \notin Requests /\ None \notin Requests \cup {Migration}

VARIABLES
  organization,    (* the committed row of the default organization        *)
  user,            (* the committed row of the default admin               *)
  adding_org,      (* the request whose uncommitted row holds the name      *)
  adding_user,
  request,         (* where each request is                                 *)
  org,             (* ensure_default_admin: org, or None                    *)
  principal        (* the user a request runs as                            *)

tables == <<organization, user>>
inserts == <<adding_org, adding_user>>
locals == <<org, principal>>
account_vars == <<tables, inserts, request, locals>>

User == [id: Requests, organization: Requests \cup {Migration}]

NoUser == [id |-> None, organization |-> None]

AccountInit ==
  /\ organization \in {None, Migration} /\ user = NoUser
  /\ adding_org = None /\ adding_user = None
  /\ request = [r \in Requests |-> "none"]
  /\ org = [r \in Requests |-> None]
  /\ principal = [r \in Requests |-> NoUser]

Known == user # NoUser

-----------------------------------------------------------------------------
Goto(r, place) == request' = [request EXCEPT ![r] = place]

(* The session is closed: what was not committed is undone.                *)
Undone(holder, r) == IF holder = r THEN None ELSE holder

Rollback(r, place) ==
  /\ Goto(r, place)
  /\ adding_org' = Undone(adding_org, r)
  /\ adding_user' = Undone(adding_user, r)
  /\ org' = [org EXCEPT ![r] = None]
  /\ UNCHANGED <<tables, principal>>

RunsAs(r, who) ==
  /\ Goto(r, "authorized")
  /\ principal' = [principal EXCEPT ![r] = who]

(* get_session has taken a connection, in up to three attempts.            *)
FindUser(r) ==
  /\ request[r] = "sent"
  /\ IF Known THEN RunsAs(r, user) ELSE Goto(r, "no user") /\ UNCHANGED principal
  /\ UNCHANGED <<tables, inserts, org>>

FindOrganization(r) ==
  /\ request[r] = "no user"
  /\ Goto(r, IF organization = None THEN "no organization" ELSE "organization")
  /\ org' = [org EXCEPT ![r] = organization]
  /\ UNCHANGED <<tables, inserts, principal>>

AddOrganization(r) ==
  /\ request[r] = "no organization"
  /\ adding_org = None /\ organization = None
  /\ Goto(r, "organization")
  /\ adding_org' = r
  /\ org' = [org EXCEPT ![r] = r]
  /\ UNCHANGED <<tables, adding_user, principal>>

(* Fault: the e-mail address is not unique.                                *)
AddAnotherUser(r) ==
  /\ request[r] = "organization"
  /\ Goto(r, "added")
  /\ adding_user' = r
  /\ UNCHANGED <<tables, adding_org, locals>>

AddUser(r) ==
  /\ request[r] = "organization"
  /\ adding_user = None /\ ~Known
  /\ Goto(r, "added")
  /\ adding_user' = r
  /\ UNCHANGED <<tables, adding_org, locals>>

(* IntegrityError of either INSERT: nobody catches it, the answer is 500.  *)
Collide(r) ==
  /\ \/ request[r] = "no organization" /\ adding_org = None /\ organization # None
     \/ request[r] = "organization" /\ adding_user = None /\ Known
  /\ Rollback(r, "refused")

Commit(r) ==
  /\ request[r] = "added"
  /\ Goto(r, "committed")
  /\ organization' = IF adding_org = r THEN r ELSE organization
  /\ user' = [id |-> r, organization |-> org[r]]
  /\ adding_org' = Undone(adding_org, r) /\ adding_user' = None
  /\ UNCHANGED locals

(* The user is read again, with its organization.                          *)
ReadBack(r) ==
  /\ request[r] = "committed"
  /\ RunsAs(r, user)
  /\ UNCHANGED <<tables, inserts, org>>

Entering == {"sent", "no user", "no organization", "organization", "added", "committed"}

(* No connection after three attempts, or it is lost: 503, or the process  *)
(* dies.                                                                   *)
Lose(r) ==
  /\ request[r] \in Entering
  /\ Rollback(r, "lost")

Bootstrap(r) ==
  \/ FindUser(r) \/ FindOrganization(r)
  \/ AddOrganization(r) \/ AddUser(r) \/ Collide(r) \/ Commit(r) \/ ReadBack(r)

-----------------------------------------------------------------------------
(* Requests come and go.                                                   *)

(* New requests are sent and others are over, or given up: what the server *)
(* does for those cannot be told from a request that was lost.             *)
Replace(sent, over) ==
  /\ request' = [r \in Requests |->
       IF r \in sent THEN "sent" ELSE IF r \in over THEN "none" ELSE request[r]]
  /\ adding_org' = IF adding_org \in sent \cup over THEN None ELSE adding_org
  /\ adding_user' = IF adding_user \in sent \cup over THEN None ELSE adding_user
  /\ org' = [r \in Requests |-> IF r \in sent \cup over THEN None ELSE org[r]]
  /\ principal' = [r \in Requests |-> IF r \in sent \cup over THEN NoUser ELSE principal[r]]
  /\ UNCHANGED tables

(* The answer to a request that is over does not arrive.                   *)
MissAnswer(r) ==
  /\ request[r] = "none"
  /\ Goto(r, "lost")
  /\ UNCHANGED <<tables, inserts, locals>>

AccountNext ==
  \/ \E r \in Requests : Bootstrap(r) \/ Lose(r) \/ MissAnswer(r)
  \/ \E sent, over \in SUBSET Requests : Replace(sent, over)

AccountSpec == AccountInit /\ [][AccountNext]_account_vars

-----------------------------------------------------------------------------
(* Properties.                                                             *)

Places == Entering \cup {"none", "authorized", "refused", "lost"}

(* Every variable has the shape of what it stands for.                     *)
AccountTypes ==
  /\ organization \in Requests \cup {Migration, None}
  /\ user \in User \cup {NoUser}
  /\ adding_org \in Requests \cup {None} /\ adding_user \in Requests \cup {None}
  /\ request \in [Requests -> Places]
  /\ org \in [Requests -> Requests \cup {Migration, None}]
  /\ principal \in [Requests -> User \cup {NoUser}]

(* auth.py:67-68: however the first requests overlap, fail and are retried,*)
(* all that get through run as one admin of one organization, the rows     *)
(* that are there.                                                         *)
OnePrincipal ==
  \A r \in Requests :
    request[r] = "authorized" => principal[r] = user /\ user.organization = organization

(* A request the race refuses leaves the admin behind for its next attempt:*)
(* a second refusal is impossible.                                         *)
RefusedOnce == \A r \in Requests : request[r] = "refused" => Known

=============================================================================
