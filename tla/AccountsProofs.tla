---------------------------- MODULE AccountsProofs ----------------------------
(* Theorems on Accounts, on its own and as a part of DocumentsClient.      *)
EXTENDS DocumentsClient, TLAPS

-----------------------------------------------------------------------------
(* The inductive invariant.                                                *)

(* An uncommitted row keeps its name free of committed ones, and belongs   *)
(* to a request that is still inside its transaction.                      *)
Pending ==
  /\ adding_org # None =>
       /\ organization = None
       /\ request[adding_org] \in {"organization", "added"}
       /\ org[adding_org] = adding_org
  /\ adding_user # None => ~Known /\ request[adding_user] = "added"

(* What a request knows of the tables.                                     *)
Inside ==
  \A r \in Requests :
    /\ request[r] = "no organization" => organization # Migration
    /\ request[r] \in {"organization", "added"} =>
         org[r] # None /\ (org[r] = organization \/ (adding_org = r /\ org[r] = r))
    /\ request[r] = "added" => adding_user = r
    /\ request[r] \in {"committed", "authorized"} => Known

(* Organization and admin are committed together, but for a migrated one.  *)
Together ==
  /\ Known => organization # None /\ user.organization = organization
  /\ organization \notin {None, Migration} => Known

AccountInv ==
  /\ AccountTypes /\ Pending /\ Inside /\ Together
  /\ OnePrincipal /\ RefusedOnce

LEMMA AccountsStart == AccountInit => AccountInv
  BY NamesAssumption, SMT
  DEF AccountInit, AccountInv, AccountTypes, Places, Entering, Pending, Inside, Together,
      OnePrincipal, RefusedOnce, Known, NoUser

-----------------------------------------------------------------------------
(* One lemma per step.                                                     *)

LEMMA FindUserKeeps ==
  ASSUME AccountInv, NEW r \in Requests, FindUser(r)
  PROVE  AccountInv'
<1> USE NamesAssumption DEF FindUser, RunsAs, Goto, tables, inserts, AccountInv, AccountTypes, Places, Entering, Known
<1>1. AccountTypes'
  OBVIOUS
<1>2. Pending'
  BY DEF Pending, NoUser
<1>3. Inside'
  BY DEF Pending, Inside, NoUser
<1>4. Together'
  BY DEF Pending, Inside, Together, NoUser
<1>5. OnePrincipal'
  BY DEF OnePrincipal, Pending, Inside, Together, NoUser
<1>6. RefusedOnce'
  BY DEF RefusedOnce, Pending, Inside, Together, NoUser
<1> QED
  BY <1>1, <1>2, <1>3, <1>4, <1>5, <1>6

LEMMA FindOrganizationKeeps ==
  ASSUME AccountInv, NEW r \in Requests, FindOrganization(r)
  PROVE  AccountInv'
<1> USE NamesAssumption DEF FindOrganization, Goto, tables, inserts, AccountInv, AccountTypes, Places, Entering, Known
<1>1. AccountTypes'
  BY DEF User, NoUser
<1>2. Pending'
  BY DEF Pending, NoUser
<1>3. Inside'
  <2>1. UNCHANGED <<organization, user, adding_org, adding_user>>
    OBVIOUS
  <2>2. ASSUME NEW q \in Requests, q # r
        PROVE  request'[q] = request[q] /\ org'[q] = org[q]
    BY <2>2
  <2>3. /\ request'[r] \in {"no organization", "organization"}
        /\ request'[r] = "no organization" => organization # Migration
        /\ request'[r] = "organization" => org'[r] = organization /\ organization # None
    OBVIOUS
  <2> QED
    BY <2>1, <2>2, <2>3 DEF Inside
<1>4. Together'
  BY DEF Pending, Inside, Together, NoUser
<1>5. OnePrincipal'
  BY DEF OnePrincipal, Pending, Inside, Together, NoUser
<1>6. RefusedOnce'
  BY DEF RefusedOnce, Pending, Inside, Together, NoUser
<1> QED
  BY <1>1, <1>2, <1>3, <1>4, <1>5, <1>6

LEMMA AddOrganizationKeeps ==
  ASSUME AccountInv, NEW r \in Requests, AddOrganization(r)
  PROVE  AccountInv'
<1> USE NamesAssumption DEF AddOrganization, Goto, tables, AccountInv, AccountTypes, Places, Entering, Known
<1>1. AccountTypes'
  BY DEF User, NoUser
<1>2. Pending'
  BY DEF Pending, NoUser
<1>3. Inside'
  BY DEF Pending, Inside, NoUser
<1>4. Together'
  BY DEF Pending, Inside, Together, NoUser
<1>5. OnePrincipal'
  BY DEF OnePrincipal, Pending, Inside, Together, NoUser
<1>6. RefusedOnce'
  BY DEF RefusedOnce, Pending, Inside, Together, NoUser
<1> QED
  BY <1>1, <1>2, <1>3, <1>4, <1>5, <1>6

LEMMA AddUserKeeps ==
  ASSUME AccountInv, NEW r \in Requests, AddUser(r)
  PROVE  AccountInv'
<1> USE NamesAssumption DEF AddUser, Goto, tables, locals, AccountInv, AccountTypes, Places, Entering, Known
<1>1. AccountTypes'
  BY DEF User, NoUser
<1>2. Pending'
  BY DEF Pending, NoUser
<1>3. Inside'
  BY DEF Pending, Inside, NoUser
<1>4. Together'
  BY DEF Pending, Inside, Together, NoUser
<1>5. OnePrincipal'
  BY DEF OnePrincipal, Pending, Inside, Together, NoUser
<1>6. RefusedOnce'
  BY DEF RefusedOnce, Pending, Inside, Together, NoUser
<1> QED
  BY <1>1, <1>2, <1>3, <1>4, <1>5, <1>6

LEMMA CollideKeeps ==
  ASSUME AccountInv, NEW r \in Requests, Collide(r)
  PROVE  AccountInv'
<1> USE NamesAssumption DEF Collide, Rollback, Undone, Goto, tables, AccountInv, AccountTypes, Places, Entering, Known
<1>1. AccountTypes'
  BY DEF User, NoUser
<1>2. Pending'
  BY DEF Pending, NoUser
<1>3. Inside'
  BY DEF Pending, Inside, NoUser
<1>4. Together'
  BY DEF Pending, Inside, Together, NoUser
<1>5. OnePrincipal'
  BY DEF OnePrincipal, Pending, Inside, Together, NoUser
<1>6. RefusedOnce'
  BY DEF RefusedOnce, Pending, Inside, Together, NoUser
<1> QED
  BY <1>1, <1>2, <1>3, <1>4, <1>5, <1>6

LEMMA CommitKeeps ==
  ASSUME AccountInv, NEW r \in Requests, Commit(r)
  PROVE  AccountInv'
<1> USE NamesAssumption DEF Commit, Undone, Goto, locals, AccountInv, AccountTypes, Places, Entering, Known
<1>1. AccountTypes'
  BY DEF User, NoUser, Inside
<1>2. Pending'
  BY DEF Pending, NoUser
<1>3. Inside'
  BY DEF Pending, Inside, NoUser
<1>4. Together'
  BY DEF Pending, Inside, Together, NoUser
<1>5. OnePrincipal'
  BY DEF OnePrincipal, Pending, Inside, Together, NoUser
<1>6. RefusedOnce'
  BY DEF RefusedOnce, Pending, Inside, Together, NoUser
<1> QED
  BY <1>1, <1>2, <1>3, <1>4, <1>5, <1>6

LEMMA ReadBackKeeps ==
  ASSUME AccountInv, NEW r \in Requests, ReadBack(r)
  PROVE  AccountInv'
<1> USE NamesAssumption DEF ReadBack, RunsAs, Goto, tables, inserts, AccountInv, AccountTypes, Places, Entering, Known
<1>1. AccountTypes'
  OBVIOUS
<1>2. Pending'
  BY DEF Pending, NoUser
<1>3. Inside'
  BY DEF Pending, Inside, NoUser
<1>4. Together'
  BY DEF Pending, Inside, Together, NoUser
<1>5. OnePrincipal'
  BY DEF OnePrincipal, Pending, Inside, Together, NoUser
<1>6. RefusedOnce'
  BY DEF RefusedOnce, Pending, Inside, Together, NoUser
<1> QED
  BY <1>1, <1>2, <1>3, <1>4, <1>5, <1>6

LEMMA LoseKeeps ==
  ASSUME AccountInv, NEW r \in Requests, Lose(r)
  PROVE  AccountInv'
<1> USE NamesAssumption DEF Lose, Rollback, Undone, Goto, tables, AccountInv, AccountTypes, Places, Entering, Known
<1>1. AccountTypes'
  BY DEF User, NoUser
<1>2. Pending'
  BY DEF Pending, NoUser
<1>3. Inside'
  BY DEF Pending, Inside, NoUser
<1>4. Together'
  BY DEF Pending, Inside, Together, NoUser
<1>5. OnePrincipal'
  BY DEF OnePrincipal, Pending, Inside, Together, NoUser
<1>6. RefusedOnce'
  BY DEF RefusedOnce, Pending, Inside, Together, NoUser
<1> QED
  BY <1>1, <1>2, <1>3, <1>4, <1>5, <1>6

LEMMA MissAnswerKeeps ==
  ASSUME AccountInv, NEW r \in Requests, MissAnswer(r)
  PROVE  AccountInv'
<1> USE NamesAssumption DEF MissAnswer, Goto, tables, inserts, locals, AccountInv, AccountTypes, Places, Entering, Known
<1>1. AccountTypes'
  BY DEF User, NoUser
<1>2. Pending'
  BY DEF Pending, NoUser
<1>3. Inside'
  BY DEF Pending, Inside, NoUser
<1>4. Together'
  BY DEF Pending, Inside, Together, NoUser
<1>5. OnePrincipal'
  BY DEF OnePrincipal, Pending, Inside, Together, NoUser
<1>6. RefusedOnce'
  BY DEF RefusedOnce, Pending, Inside, Together, NoUser
<1> QED
  BY <1>1, <1>2, <1>3, <1>4, <1>5, <1>6

LEMMA ReplaceKeeps ==
  ASSUME AccountInv, NEW sent \in SUBSET Requests, NEW over \in SUBSET Requests,
         Replace(sent, over)
  PROVE  AccountInv'
<1> USE NamesAssumption DEF Replace, tables, AccountInv, AccountTypes, Places, Entering, Known
<1>1. AccountTypes'
  BY DEF User, NoUser
<1>2. Pending'
  BY DEF Pending, NoUser
<1>3. Inside'
  BY DEF Pending, Inside, NoUser
<1>4. Together'
  BY DEF Pending, Inside, Together, NoUser
<1>5. OnePrincipal'
  BY DEF OnePrincipal, Pending, Inside, Together, NoUser
<1>6. RefusedOnce'
  BY DEF RefusedOnce, Pending, Inside, Together, NoUser
<1> QED
  BY <1>1, <1>2, <1>3, <1>4, <1>5, <1>6

LEMMA AccountsKeep == AccountInv /\ [AccountNext]_account_vars => AccountInv'
<1> SUFFICES ASSUME AccountInv, [AccountNext]_account_vars PROVE AccountInv'
  OBVIOUS
<1>1. ASSUME NEW r \in Requests, Bootstrap(r) PROVE AccountInv'
  BY <1>1, FindUserKeeps, FindOrganizationKeeps, AddOrganizationKeeps, AddUserKeeps,
     CollideKeeps, CommitKeeps, ReadBackKeeps DEF Bootstrap
<1>2. ASSUME NEW r \in Requests, Lose(r) \/ MissAnswer(r) PROVE AccountInv'
  BY <1>2, LoseKeeps, MissAnswerKeeps
<1>3. ASSUME NEW sent \in SUBSET Requests, NEW over \in SUBSET Requests, Replace(sent, over)
      PROVE  AccountInv'
  BY <1>3, ReplaceKeeps
<1>4. CASE UNCHANGED account_vars
  BY <1>4
  DEF account_vars, tables, inserts, locals, AccountInv, AccountTypes, Pending, Inside,
      Together, OnePrincipal, RefusedOnce, Known
<1> QED
  BY <1>1, <1>2, <1>3, <1>4 DEF AccountNext

LEMMA AccountsAlone == AccountSpec => []AccountInv
<1>1. AccountInit => AccountInv
  BY AccountsStart
<1>2. AccountInv /\ [AccountNext]_account_vars => AccountInv'
  BY AccountsKeep
<1> QED
  BY <1>1, <1>2, PTL DEF AccountSpec

-----------------------------------------------------------------------------
(* Accounts as a part of DocumentsClient.                                  *)

TracksDocuments == tracked \subseteq Documents

LEMMA QueriesAreRequests == Queries \subseteq Requests /\ Documents \subseteq Queries
  BY RequestsAssumption DEF Queries

LEMMA RefetchReplaces ==
  ASSUME NEW mounting \in SUBSET Queries, NEW invalid \in SUBSET Queries,
         Refetch(mounting, invalid)
  PROVE  AccountNext
<1> DEFINE qs == Idle(mounting) \cup Idle(invalid) \cup {q \in invalid : cache[q].loaded}
<1>1. qs \in SUBSET Requests
  BY QueriesAreRequests DEF Idle
<1>2. Replace(qs, {})
  BY DEF Refetch, Fetch
<1> QED
  BY <1>1, <1>2 DEF AccountNext

LEMMA QueryStepIsAccountStep ==
  ASSUME NEW q \in Queries, QueryStep(q) \/ LoseRequest(q) \/ LoseAnswer(q)
  PROVE  [AccountNext]_account_vars
<1> USE QueriesAreRequests
<1>1. q \in Requests /\ {q} \in SUBSET Requests /\ {} \in SUBSET Requests
  OBVIOUS
<1>2. CASE Bootstraps(q) \/ LoseRequest(q) \/ LoseAnswer(q)
  BY <1>1, <1>2 DEF Bootstraps, LoseRequest, LoseAnswer, AccountNext
<1>3. CASE Retry(q) \/ FailFetch(q) \/ Current(q)
  BY <1>1, <1>3 DEF Retry, FailFetch, Current, Answer, Fetch, AccountNext
<1>4. CASE Poll(q)
  BY <1>1, <1>4, RefetchReplaces DEF Poll
<1>5. CASE Receive(q)
  BY <1>5 DEF Receive
<1> QED
  BY <1>2, <1>3, <1>4, <1>5 DEF QueryStep

LEMMA OthersStepIsAccountStep ==
  ASSUME NEW r \in Others, Ask(r) \/ Bootstraps(r) \/ Return(r)
  PROVE  AccountNext
<1>1. r \in Requests /\ {r} \in SUBSET Requests /\ {} \in SUBSET Requests
  BY RequestsAssumption
<1> QED
  BY <1>1 DEF Ask, Bootstraps, Return, AccountNext

LEMMA PageStepIsAccountStep ==
  ASSUME TracksDocuments,
         ReloadPage \/ RetryDocuments \/ \E p \in {"workspace", "other", "dashboard"} : Visit(p)
  PROVE  AccountNext
<1> USE QueriesAreRequests
<1>1. {"documents"} \in SUBSET Queries /\ tracked \in SUBSET Queries /\ {} \in SUBSET Queries
  BY DEF TracksDocuments, Queries
<1>2. CASE ReloadPage
  BY <1>1, <1>2 DEF ReloadPage, AccountNext
<1>3. CASE RetryDocuments
  BY <1>1, <1>3, RefetchReplaces DEF RetryDocuments
<1>4. ASSUME NEW p, Visit(p) PROVE AccountNext
  <2>1. {"documents"} \cup tracked \in SUBSET Queries
    BY <1>1
  <2> QED
    BY <1>1, <1>4, <2>1, RefetchReplaces DEF Visit
<1> QED
  BY <1>2, <1>3, <1>4

LEMMA DocumentStepIsAccountStep ==
  ASSUME NEW d \in Documents,
         \/ Upload(d) \/ Uploaded(d) \/ UploadFails(d) \/ Announce(d)
         \/ Begin(d) \/ End(d) \/ Interrupt(d) \/ Reconcile(d)
  PROVE  [AccountNext]_account_vars
<1> USE QueriesAreRequests
<1>1. {d} \in SUBSET Queries /\ {d} \in SUBSET Requests /\ {} \in SUBSET Queries
      /\ {"documents"} \in SUBSET Queries /\ DocumentsIfMounted \in SUBSET Queries
      /\ {} \in SUBSET Requests
  BY DEF Queries, DocumentsIfMounted
<1>2. CASE Upload(d) \/ UploadFails(d)
  BY <1>2 DEF Upload, UploadFails
<1>3. CASE Uploaded(d)
  BY <1>1, <1>3, RefetchReplaces DEF Uploaded
<1>4. CASE Announce(d)
  BY <1>1, <1>4, RefetchReplaces DEF Announce
<1>5. CASE Begin(d) \/ End(d) \/ Interrupt(d)
  BY <1>5 DEF Begin, End, Interrupt, ServerStep
<1>6. CASE Reconcile(d)
  BY <1>1, <1>6 DEF Reconcile, Answer, AccountNext
<1> QED
  BY <1>2, <1>3, <1>4, <1>5, <1>6

LEMMA ClientStepIsAccountStep ==
  ASSUME TracksDocuments, [DocumentsNext]_vars
  PROVE  [AccountNext]_account_vars
<1>1. CASE UNCHANGED vars
  BY <1>1 DEF vars
<1>2. CASE DocumentsNext
  BY <1>2, QueryStepIsAccountStep, OthersStepIsAccountStep, PageStepIsAccountStep,
     DocumentStepIsAccountStep DEF DocumentsNext
<1> QED
  BY <1>1, <1>2

LEMMA TracksStayDocuments ==
  ASSUME TracksDocuments, [DocumentsNext]_vars
  PROVE  TracksDocuments'
<1> USE DEF TracksDocuments
<1>1. CASE UNCHANGED vars
  BY <1>1 DEF vars, client_vars
<1>2. ASSUME NEW q \in Queries, QueryStep(q) \/ LoseRequest(q) \/ LoseAnswer(q)
      PROVE  TracksDocuments'
  BY <1>2
  DEF QueryStep, Bootstraps, Retry, FailFetch, Current, Answer, Receive, Poll, LoseRequest,
      LoseAnswer, client_vars
<1>3. ASSUME NEW r \in Others, Ask(r) \/ Bootstraps(r) \/ Return(r)
      PROVE  TracksDocuments'
  BY <1>3 DEF Ask, Bootstraps, Return, client_vars
<1>4. ASSUME NEW p, Visit(p) \/ ReloadPage \/ RetryDocuments PROVE TracksDocuments'
  BY <1>4 DEF Visit, ReloadPage, RetryDocuments
<1>5. ASSUME NEW d \in Documents,
             \/ Upload(d) \/ Uploaded(d) \/ UploadFails(d) \/ Announce(d)
             \/ Begin(d) \/ End(d) \/ Interrupt(d) \/ Reconcile(d)
      PROVE  TracksDocuments'
  BY <1>5
  DEF Upload, Uploaded, UploadFails, Announce, Begin, End, Interrupt, Reconcile, Answer, ServerStep
<1> QED
  BY <1>1, <1>2, <1>3, <1>4, <1>5 DEF DocumentsNext

(* The client uses the accounts as they are meant to be: whatever pages,   *)
(* retries and polls do, the requests keep to Accounts.                    *)
THEOREM ClientKeepsToAccounts == Spec => AccountSpec
<1>1. DocumentsInit => AccountInit /\ TracksDocuments
  BY DEF DocumentsInit, TracksDocuments
<1>2. TracksDocuments /\ [DocumentsNext]_vars => TracksDocuments' /\ [AccountNext]_account_vars
  BY TracksStayDocuments, ClientStepIsAccountStep
<1> QED
  BY <1>1, <1>2, PTL DEF Spec, AccountSpec

(* auth.py:67-68: for any number of first requests, migrated organization  *)
(* or not, everybody who gets through is the one admin of the one          *)
(* organization.                                                           *)
THEOREM PrincipalIsOne == Spec => []OnePrincipal
<1>1. AccountInv => OnePrincipal
  BY DEF AccountInv
<1> QED
  BY <1>1, ClientKeepsToAccounts, AccountsAlone, PTL

(* A request refused by the race can count on its retry: the admin is      *)
(* committed by then.                                                      *)
THEOREM RefusalMeansKnown == Spec => []RefusedOnce
<1>1. AccountInv => RefusedOnce
  BY DEF AccountInv
<1> QED
  BY <1>1, ClientKeepsToAccounts, AccountsAlone, PTL

-----------------------------------------------------------------------------
(* What a query knows.                                                     *)

ClientTypes ==
  /\ cache \in [Queries -> Query] /\ status \in [Documents -> Status]
  /\ tracked \subseteq Documents /\ announced \subseteq Documents /\ faults \in Nat

(* A query asks for exactly as long as its request is under way; what it   *)
(* has, it has from an admin that is there.  Unless something is lost, a   *)
(* query that was answered or repeated cannot be refused, so an error is   *)
(* left by a fetch nobody was interested in, and gone when somebody is.    *)
Sound(q) ==
  LET entry == cache[q] IN
  /\ entry.fetch = "asked" <=> request[q] # "none"
  /\ entry.fetch = "answered" \/ entry.loaded => Known
  /\ faults = 0 =>
       /\ request[q] # "lost"
       /\ entry.loaded \/ entry.retried =>
            Known /\ request[q] \in {"sent", "authorized", "none"}
       /\ entry.error => entry.fetch = "idle" /\ ~entry.loaded /\ ~Mounted(q)

QueriesSound == \A q \in Queries : Sound(q)

ClientInv == AccountInv /\ ClientTypes /\ QueriesSound

(* The admin, once there, stays.                                           *)
LEMMA KnownStays ==
  ASSUME Known, [AccountNext]_account_vars
  PROVE  Known'
<1>1. ASSUME NEW r \in Requests, Bootstrap(r) PROVE Known'
  <2>1. CASE Commit(r)
    <3>1. user'.id = r /\ NoUser.id = None /\ r # None
      BY <2>1, NamesAssumption DEF Commit, NoUser
    <3> QED BY <3>1 DEF Known, NoUser
  <2>2. CASE ~Commit(r)
    <3>1. user' = user
      BY <1>1, <2>2
      DEF Bootstrap, FindUser, FindOrganization, AddOrganization, AddUser, Collide, ReadBack,
          Rollback, tables
    <3> QED BY <3>1 DEF Known, NoUser
  <2> QED BY <2>1, <2>2
<1>2. ASSUME NEW r \in Requests, Lose(r) \/ MissAnswer(r) PROVE Known'
  BY <1>2 DEF Lose, Rollback, MissAnswer, Known, NoUser, tables
<1>3. ASSUME NEW sent \in SUBSET Requests, NEW over \in SUBSET Requests, Replace(sent, over)
      PROVE  Known'
  BY <1>3 DEF Replace, Known, NoUser, tables
<1>4. CASE UNCHANGED account_vars
  BY <1>4 DEF Known, NoUser, account_vars, tables
<1> QED
  BY <1>1, <1>2, <1>3, <1>4 DEF AccountNext

(* A step of a request moves no other, and ends none.                      *)
LEMMA BootstrapMoves ==
  ASSUME AccountInv, NEW r \in Requests, Bootstrap(r)
  PROVE  /\ request \in [Requests -> Places] /\ request[r] \in Entering
         /\ request' = [request EXCEPT ![r] = request'[r]]
         /\ request'[r] \notin {"none", "lost"}
BY DEF Bootstrap, FindUser, FindOrganization, AddOrganization, AddUser, Collide, Commit, ReadBack,
       RunsAs, Rollback, Goto, AccountInv, AccountTypes, Places, Entering

LEMMA AskedIsQuery ==
  ASSUME NEW entry \in Query
  PROVE  /\ Asked(entry) \in Query
         /\ Asked(entry).fetch = "asked" /\ ~Asked(entry).retried
         /\ Asked(entry).loaded = entry.loaded /\ Asked(entry).data = entry.data
         /\ Asked(entry).error => entry.error /\ entry.loaded
<1>1. Nothing \in [Documents -> Status]
  BY DEF Nothing, Status
<1> QED BY <1>1 DEF Query, Asked

LEMMA EmptyIsQuery == Empty \in Query
BY DEF Empty, Nothing, Query, Status

-----------------------------------------------------------------------------
(* The types, step by step.                                                *)

LEMMA RefetchTypes ==
  ASSUME cache \in [Queries -> Query], NEW mounting, NEW invalid, Refetch(mounting, invalid)
  PROVE  cache' \in [Queries -> Query]
BY AskedIsQuery DEF Refetch

LEMMA QueryStepTypes ==
  ASSUME ClientTypes, NEW q \in Queries, QueryStep(q) \/ LoseRequest(q) \/ LoseAnswer(q)
  PROVE  ClientTypes'
<1> USE DEF ClientTypes
<1>1. Nothing \in [Documents -> Status] /\ Empty \in Query
  BY EmptyIsQuery DEF Nothing, Status
<1>2. CASE Bootstraps(q) \/ LoseRequest(q)
  BY <1>2 DEF Bootstraps, LoseRequest, server_vars, client_vars
<1>3. CASE Retry(q)
  BY <1>3 DEF Retry, server_vars, Query
<1>4. CASE FailFetch(q)
  <2>1. [cache[q] EXCEPT !.fetch = "idle", !.error = TRUE, !.retried = FALSE] \in Query
    BY DEF Query
  <2>2. cache' = [cache EXCEPT ![q] =
                   [cache[q] EXCEPT !.fetch = "idle", !.error = TRUE, !.retried = FALSE]]
    BY <1>4 DEF FailFetch
  <2> QED BY <1>4, <2>1, <2>2 DEF FailFetch, server_vars
<1>5. CASE Current(q)
  <2>1. Read(q) \in [Documents -> Status]
    BY <1>5 DEF Current, Read, Status
  <2>2. [cache[q] EXCEPT !.fetch = "answered", !.answer = Read(q)] \in Query
    BY <2>1 DEF Query
  <2>3. cache' = [cache EXCEPT ![q] = [cache[q] EXCEPT !.fetch = "answered", !.answer = Read(q)]]
    BY <1>5 DEF Current, Answer
  <2> QED BY <1>5, <2>2, <2>3 DEF Current, Answer
<1>6. CASE Receive(q)
  <2>1. Received(cache[q]) \in Query
    BY <1>1 DEF Received, Query
  <2> QED BY <1>6, <2>1 DEF Receive, server_vars
<1>7. CASE Poll(q)
  BY <1>7, RefetchTypes DEF Poll, server_vars
<1>8. CASE LoseAnswer(q)
  <2>1. [cache[q] EXCEPT !.fetch = "asked", !.answer = Nothing] \in Query
    BY <1>1 DEF Query
  <2>2. cache' = [cache EXCEPT ![q] = [cache[q] EXCEPT !.fetch = "asked", !.answer = Nothing]]
    BY <1>8 DEF LoseAnswer
  <2> QED BY <1>8, <2>1, <2>2 DEF LoseAnswer, server_vars
<1> QED BY <1>2, <1>3, <1>4, <1>5, <1>6, <1>7, <1>8 DEF QueryStep

LEMMA DocumentStepTypes ==
  ASSUME ClientTypes, NEW d \in Documents,
         \/ Upload(d) \/ Uploaded(d) \/ UploadFails(d) \/ Announce(d)
         \/ Begin(d) \/ End(d) \/ Interrupt(d) \/ Reconcile(d)
  PROVE  ClientTypes'
<1> USE DEF ClientTypes
<1>1. CASE Upload(d) \/ UploadFails(d) \/ Begin(d) \/ End(d) \/ Interrupt(d)
  BY <1>1 DEF Upload, UploadFails, Begin, End, Interrupt, ServerStep, server_vars, Status
<1>2. CASE Uploaded(d)
  BY <1>2, RefetchTypes DEF Uploaded, server_vars
<1>3. CASE Announce(d)
  BY <1>3, RefetchTypes DEF Announce, Witnessed, server_vars
<1>4. CASE Reconcile(d)
  <2>1. status' \in [Documents -> Status]
    BY <1>4 DEF Reconcile, Status
  <2>2. Read(d) \in [Documents -> Status]
    BY <2>1 DEF Read, Status
  <2>3. d \in Queries
    BY DEF Queries
  <2>4. [cache[d] EXCEPT !.fetch = "answered", !.answer = Read(d)] \in Query
    BY <2>2, <2>3 DEF Query
  <2>5. cache' = [cache EXCEPT ![d] = [cache[d] EXCEPT !.fetch = "answered", !.answer = Read(d)]]
    BY <1>4 DEF Reconcile, Answer
  <2> QED BY <1>4, <2>1, <2>3, <2>4, <2>5 DEF Reconcile, Answer
<1> QED BY <1>1, <1>2, <1>3, <1>4

LEMMA ClientTypesNext ==
  ASSUME ClientTypes, [DocumentsNext]_vars
  PROVE  ClientTypes'
<1> USE DEF ClientTypes
<1>1. CASE UNCHANGED vars
  BY <1>1 DEF vars, client_vars, server_vars
<1>2. ASSUME NEW r \in Others, Ask(r) \/ Bootstraps(r) \/ Return(r)
      PROVE  ClientTypes'
  BY <1>2 DEF Ask, Bootstraps, Return, client_vars, server_vars
<1>3. ASSUME NEW p, Visit(p) \/ RetryDocuments PROVE ClientTypes'
  BY <1>3, RefetchTypes DEF Visit, RetryDocuments, server_vars
<1>4. CASE ReloadPage
  <2>1. cache' \in [Queries -> Query]
    BY <1>4, AskedIsQuery, EmptyIsQuery DEF ReloadPage
  <2> QED BY <1>4, <2>1 DEF ReloadPage, server_vars
<1> QED
  BY <1>1, <1>2, <1>3, <1>4, QueryStepTypes, DocumentStepTypes DEF DocumentsNext

-----------------------------------------------------------------------------
(* The queries stay sound, step by step.                                   *)

(* A query nothing happened to stays sound while nobody looks at it anew.  *)
LEMMA SoundStays ==
  ASSUME NEW q \in Queries, Sound(q), cache'[q] = cache[q], request'[q] = request[q],
         Known => Known', faults' = 0 => faults = 0,
         Mounted(q)' => Mounted(q) \/ (faults = 0 => ~cache[q].error)
  PROVE  Sound(q)'
BY DEF Sound

(* Asking replaces a sound query, with data or not, by a sound one.        *)
LEMMA RefetchSound ==
  ASSUME AccountInv, ClientTypes, QueriesSound,
         NEW mounting \in SUBSET Queries, NEW invalid \in SUBSET Queries,
         Refetch(mounting, invalid), faults' = faults, Known => Known',
         \A q \in Queries :
           Mounted(q)' => Mounted(q) \/ q \in mounting \/ cache[q].loaded
  PROVE  QueriesSound'
<1> DEFINE qs == Idle(mounting) \cup Idle(invalid) \cup {q \in invalid : cache[q].loaded}
<1> SUFFICES ASSUME NEW q \in Queries PROVE Sound(q)'
  BY DEF QueriesSound
<1>1. Sound(q) /\ cache[q] \in Query /\ q \in Requests
  BY QueriesAreRequests DEF QueriesSound, ClientTypes
<1>2. CASE q \in qs
  <2>1. cache'[q] = Asked(cache[q])
    BY <1>2 DEF Refetch
  <2>2. request'[q] = "sent"
    BY <1>1, <1>2 DEF Refetch, Fetch, Replace
  <2>3. cache[q].error /\ cache[q].loaded => faults # 0
    BY <1>1 DEF Sound
  <2>4. /\ cache'[q].fetch = "asked" /\ ~cache'[q].retried
        /\ cache'[q].loaded = cache[q].loaded
        /\ cache'[q].error => cache[q].error /\ cache[q].loaded
    BY <1>1, <2>1, AskedIsQuery
  <2>5. cache[q].loaded => Known
    BY <1>1 DEF Sound
  <2> QED BY <2>2, <2>3, <2>4, <2>5 DEF Sound
<1>3. CASE q \notin qs
  <2>1. cache'[q] = cache[q]
    BY <1>3 DEF Refetch
  <2>2. request'[q] = request[q]
    BY <1>1, <1>3 DEF Refetch, Fetch, Replace
  <2>3. faults = 0 /\ Mounted(q)' /\ ~Mounted(q) => ~cache[q].error
    <3>1. q \in mounting => cache[q].fetch # "idle"
      BY <1>3 DEF Idle
    <3> QED BY <1>1, <3>1 DEF Sound
  <2> QED BY <1>1, <2>1, <2>2, <2>3, SoundStays
<1> QED BY <1>2, <1>3

(* A step that changes one query, and leaves all others and what is on     *)
(* display alone.                                                          *)
LEMMA OneQuerySound ==
  ASSUME QueriesSound, NEW q \in Queries, Sound(q)',
         \A s \in Queries : s # q => cache'[s] = cache[s] /\ request'[s] = request[s],
         UNCHANGED <<page, tracked>>, Known => Known', faults' = 0 => faults = 0
  PROVE  QueriesSound'
<1> SUFFICES ASSUME NEW s \in Queries, s # q PROVE Sound(s)'
  BY DEF QueriesSound
<1>1. Sound(s) /\ cache'[s] = cache[s] /\ request'[s] = request[s]
  BY DEF QueriesSound
<1>2. Mounted(s)' => Mounted(s)
  BY DEF Mounted, Watching
<1> QED BY <1>1, <1>2, SoundStays

LEMMA AnswerSound ==
  ASSUME ClientInv, NEW q \in Queries, Answer(q), UNCHANGED faults, Known => Known'
  PROVE  QueriesSound'
<1> USE DEF ClientInv
<1>1. Sound(q) /\ q \in Requests /\ cache[q] \in Query /\ cache \in [Queries -> Query]
  BY QueriesAreRequests DEF QueriesSound, ClientTypes
<1>2. Known
  BY <1>1 DEF Answer, Admitted, AccountInv, Inside
<1>3. /\ cache'[q] = [cache[q] EXCEPT !.fetch = "answered", !.answer = Read(q)]
      /\ request'[q] = "none"
  BY <1>1 DEF Answer, Replace
<1>4. /\ cache'[q].fetch = "answered" /\ cache'[q].loaded = cache[q].loaded
      /\ cache'[q].retried = cache[q].retried /\ cache'[q].error = cache[q].error
  BY <1>1, <1>3 DEF Query
<1>5. cache[q].fetch = "asked"
  BY <1>1, NamesAssumption DEF Answer, Admitted, Sound
<1>6. Sound(q)'
  BY <1>1, <1>2, <1>3, <1>4, <1>5 DEF Sound
<1>7. \A s \in Queries : s # q => cache'[s] = cache[s] /\ request'[s] = request[s]
  BY QueriesAreRequests, <1>1 DEF Answer, Replace
<1> QED BY <1>6, <1>7, OneQuerySound DEF Answer

LEMMA QueryStepSound ==
  ASSUME ClientInv, NEW q \in Queries, QueryStep(q) \/ LoseRequest(q) \/ LoseAnswer(q),
         Known => Known'
  PROVE  QueriesSound'
<1> USE DEF ClientInv
<1>1. Sound(q) /\ q \in Requests /\ cache[q] \in Query /\ cache \in [Queries -> Query]
      /\ request \in [Requests -> Places] /\ Queries \subseteq Requests /\ faults \in Nat
  BY QueriesAreRequests DEF QueriesSound, ClientTypes, AccountInv, AccountTypes
<1>2. CASE Bootstraps(q)
  <2>1. /\ request' = [request EXCEPT ![q] = request'[q]]
        /\ request'[q] \notin {"none", "lost"} /\ request[q] \in Entering
    BY <1>1, <1>2, BootstrapMoves DEF Bootstraps
  <2>2. UNCHANGED <<cache, faults, page, tracked>>
    BY <1>2 DEF Bootstraps, client_vars
  <2>3. faults = 0 => ~cache[q].loaded /\ ~cache[q].retried
    BY <1>1, <1>2, <2>1 DEF Bootstraps, Admitted, Sound, Entering
  <2>4. Sound(q)'
    BY <1>1, <2>1, <2>2, <2>3 DEF Sound, Entering, Mounted, Watching
  <2>5. \A s \in Queries : s # q => cache'[s] = cache[s] /\ request'[s] = request[s]
    BY <1>1, <2>1, <2>2
  <2> QED BY <2>2, <2>4, <2>5, OneQuerySound
<1>3. CASE Retry(q)
  <2>1. UNCHANGED <<faults, page, tracked>>
    BY <1>3 DEF Retry
  <2>2. /\ cache'[q] = [cache[q] EXCEPT !.retried = TRUE]
        /\ request'[q] = "sent"
    BY <1>1, <1>3 DEF Retry, Fetch, Replace
  <2>3. /\ cache'[q].fetch = cache[q].fetch /\ cache'[q].loaded = cache[q].loaded
        /\ cache'[q].retried /\ cache'[q].error = cache[q].error
    BY <1>1, <2>2 DEF Query
  <2>4. request[q] \in {"refused", "lost"} /\ cache[q].fetch = "asked"
    BY <1>1, <1>3 DEF Retry, Sound
  <2>5. request[q] = "refused" => Known
    BY <1>1 DEF AccountInv, RefusedOnce
  <2>6. Sound(q)'
    BY <1>1, <2>1, <2>2, <2>3, <2>4, <2>5 DEF Sound
  <2>7. \A s \in Queries : s # q => cache'[s] = cache[s] /\ request'[s] = request[s]
    BY <1>1, <1>3 DEF Retry, Fetch, Replace
  <2> QED BY <2>1, <2>6, <2>7, OneQuerySound
<1>4. CASE FailFetch(q)
  <2>1. UNCHANGED <<faults, page, tracked>>
    BY <1>4 DEF FailFetch
  <2>2. /\ cache' = [cache EXCEPT ![q] =
                      [cache[q] EXCEPT !.fetch = "idle", !.error = TRUE, !.retried = FALSE]]
        /\ request'[q] = "none"
    BY <1>1, <1>4 DEF FailFetch, Replace
  <2>3. /\ cache'[q].fetch = "idle" /\ cache'[q].loaded = cache[q].loaded
        /\ ~cache'[q].retried /\ cache'[q].error
    BY <1>1, <2>2 DEF Query
  <2>4. /\ request[q] \in {"refused", "lost"} /\ (cache[q].retried \/ ~Mounted(q))
        /\ Mounted(q)' = Mounted(q)
    BY <1>4, <2>1 DEF FailFetch, Repeats, Mounted, Watching
  <2>5. Sound(q)'
    BY <1>1, <2>1, <2>2, <2>3, <2>4 DEF Sound
  <2>6. \A s \in Queries : s # q => cache'[s] = cache[s] /\ request'[s] = request[s]
    BY <1>1, <1>4, <2>2 DEF FailFetch, Replace
  <2> QED BY <2>1, <2>5, <2>6, OneQuerySound
<1>5. CASE Current(q)
  BY <1>5, AnswerSound DEF Current, Answer
<1>6. CASE Receive(q)
  <2>1. /\ UNCHANGED <<request, faults, page, tracked>>
        /\ cache' = [cache EXCEPT ![q] = Received(cache[q])] /\ cache[q].fetch = "answered"
    BY <1>6 DEF Receive, account_vars
  <2>2. /\ cache'[q].fetch = "idle" /\ cache'[q].loaded
        /\ ~cache'[q].retried /\ ~cache'[q].error
    BY <1>1, <2>1 DEF Received, Empty
  <2>3. Sound(q)'
    BY <1>1, <2>1, <2>2 DEF Sound
  <2>4. \A s \in Queries : s # q => cache'[s] = cache[s] /\ request'[s] = request[s]
    BY <1>1, <2>1
  <2> QED BY <2>1, <2>3, <2>4, OneQuerySound
<1>7. CASE Poll(q)
  <2>1. \A s \in Queries : Mounted(s)' => Mounted(s)
    BY <1>7 DEF Poll, Mounted, Watching
  <2>2. {q} \in SUBSET Queries /\ {} \in SUBSET Queries
    OBVIOUS
  <2> QED BY <1>7, <2>1, <2>2, RefetchSound DEF Poll
<1>8. CASE LoseRequest(q)
  <2>1. /\ UNCHANGED <<cache, page, tracked>> /\ faults' = faults + 1
        /\ request' = [request EXCEPT ![q] = "lost"] /\ request[q] \in Entering
    BY <1>8 DEF LoseRequest, Lose, Rollback, Goto, client_vars
  <2>4. faults' # 0
    BY <1>1, <2>1
  <2>5. request'[q] = "lost" /\ request[q] # "none"
    BY <1>1, <2>1 DEF Entering
  <2>6. cache'[q] = cache[q]
    BY <2>1
  <2>2. Sound(q)'
    BY <1>1, <2>4, <2>5, <2>6 DEF Sound
  <2>3. \A s \in Queries : s # q => cache'[s] = cache[s] /\ request'[s] = request[s]
    BY <1>1, <2>1
  <2> QED BY <2>1, <2>2, <2>3, <2>4, OneQuerySound
<1>9. CASE LoseAnswer(q)
  <2>1. /\ UNCHANGED <<page, tracked>> /\ faults' = faults + 1
        /\ cache' = [cache EXCEPT ![q] = [cache[q] EXCEPT !.fetch = "asked", !.answer = Nothing]]
        /\ request' = [request EXCEPT ![q] = "lost"]
    BY <1>9 DEF LoseAnswer, MissAnswer, Goto
  <2>2. cache'[q].fetch = "asked" /\ cache'[q].loaded = cache[q].loaded
    BY <1>1, <2>1 DEF Query
  <2>3. faults' # 0
    BY <1>1, <2>1
  <2>4. Sound(q)'
    BY <1>1, <2>1, <2>2, <2>3 DEF Sound
  <2>5. \A s \in Queries : s # q => cache'[s] = cache[s] /\ request'[s] = request[s]
    BY <1>1, <2>1
  <2> QED BY <2>1, <2>3, <2>4, <2>5, OneQuerySound
<1> QED BY <1>2, <1>3, <1>4, <1>5, <1>6, <1>7, <1>8, <1>9 DEF QueryStep

LEMMA OthersStepSound ==
  ASSUME ClientInv, NEW r \in Others, Ask(r) \/ Bootstraps(r) \/ Return(r), Known => Known'
  PROVE  QueriesSound'
<1> USE DEF ClientInv
<1>1. r \in Requests /\ r \notin Queries /\ Queries \subseteq Requests
  BY RequestsAssumption
<1>2. UNCHANGED <<cache, page, tracked, faults>>
  BY DEF Ask, Bootstraps, Return, client_vars
<1>3. \A q \in Queries : request'[q] = request[q]
  <2>1. CASE Ask(r) \/ Return(r)
    BY <1>1, <2>1 DEF Ask, Return, Replace
  <2>2. CASE Bootstraps(r)
    <3>1. request' = [request EXCEPT ![r] = request'[r]] /\ request \in [Requests -> Places]
      BY <1>1, <2>2, BootstrapMoves DEF Bootstraps
    <3> QED BY <1>1, <3>1
  <2> QED BY <2>1, <2>2
<1> SUFFICES ASSUME NEW q \in Queries PROVE Sound(q)'
  BY DEF QueriesSound
<1>4. Mounted(q)' => Mounted(q)
  BY <1>2 DEF Mounted, Watching
<1> QED BY <1>2, <1>3, <1>4, SoundStays DEF QueriesSound

LEMMA PageStepSound ==
  ASSUME ClientInv, Known => Known',
         ReloadPage \/ RetryDocuments \/ \E p \in {"workspace", "other", "dashboard"} : Visit(p)
  PROVE  QueriesSound'
<1> USE DEF ClientInv
<1>1. {"documents"} \in SUBSET Queries /\ tracked \in SUBSET Queries /\ {} \in SUBSET Queries
      /\ Queries \subseteq Requests
  BY QueriesAreRequests DEF ClientTypes, Queries
<1>2. CASE ReloadPage
  <2> SUFFICES ASSUME NEW q \in Queries PROVE Sound(q)'
    BY DEF QueriesSound
  <2>1. Empty.fetch = "idle" /\ ~Empty.loaded /\ ~Empty.error /\ ~Empty.retried
    BY DEF Empty
  <2>2. CASE q = "documents"
    <3>1. cache'[q] = Asked(Empty)
      BY <1>2, <2>2 DEF ReloadPage
    <3>2. request'[q] = "sent"
      BY <1>1, <1>2, <2>2 DEF ReloadPage, Replace
    <3>3. /\ cache'[q].fetch = "asked" /\ ~cache'[q].retried
          /\ ~cache'[q].loaded /\ ~cache'[q].error
      BY <2>1, <3>1, EmptyIsQuery, AskedIsQuery
    <3> QED BY <3>2, <3>3 DEF Sound
  <2>3. CASE q # "documents"
    <3>1. cache'[q] = Empty
      BY <1>2, <2>3 DEF ReloadPage
    <3>2. request'[q] = "none"
      BY <1>1, <1>2, <2>3 DEF ReloadPage, Replace
    <3> QED BY <2>1, <3>1, <3>2 DEF Sound
  <2> QED BY <2>2, <2>3
<1>3. CASE RetryDocuments
  <2>1. \A q \in Queries : Mounted(q)' => Mounted(q)
    BY <1>3 DEF RetryDocuments, Mounted, Watching
  <2> QED BY <1>1, <1>3, <2>1, RefetchSound DEF RetryDocuments
<1>4. ASSUME NEW p \in {"workspace", "other", "dashboard"}, Visit(p) PROVE QueriesSound'
  <2>1. page' = p /\ tracked' = tracked /\ faults' = faults
    BY <1>4 DEF Visit
  <2>2. {"documents"} \cup tracked \in SUBSET Queries
    BY <1>1
  <2>3. CASE p = "workspace" /\ Refetch({"documents"} \cup tracked, {})
    <3>1. \A q \in Queries : Mounted(q)' => q \in {"documents"} \cup tracked
      BY <2>1 DEF Mounted, Watching
    <3> QED BY <1>1, <2>1, <2>2, <2>3, <3>1, RefetchSound
  <2>4. CASE p = "other" /\ Refetch(tracked, {})
    <3>1. \A q \in Queries : Mounted(q)' => q \in tracked
      BY <2>1, <2>4 DEF Mounted, Watching
    <3> QED BY <1>1, <2>1, <2>4, <3>1, RefetchSound
  <2>5. CASE p = "dashboard" /\ Refetch({"documents"}, {})
    <3>1. \A q \in Queries : Mounted(q)' => q \in {"documents"}
      BY <2>1, <2>5 DEF Mounted, Watching
    <3> QED BY <1>1, <2>1, <2>5, <3>1, RefetchSound
  <2>6. CASE p = "dashboard" /\ cache["documents"].loaded /\ Refetch({}, {})
    <3>1. \A q \in Queries : Mounted(q)' => cache[q].loaded
      BY <2>1, <2>6 DEF Mounted, Watching
    <3> QED BY <1>1, <2>1, <2>6, <3>1, RefetchSound
  <2> QED BY <1>4, <2>3, <2>4, <2>5, <2>6 DEF Visit
<1> QED BY <1>2, <1>3, <1>4

LEMMA DocumentStepSound ==
  ASSUME ClientInv, Known => Known', NEW d \in Documents,
         \/ Upload(d) \/ Uploaded(d) \/ UploadFails(d) \/ Announce(d)
         \/ Begin(d) \/ End(d) \/ Interrupt(d) \/ Reconcile(d)
  PROVE  QueriesSound'
<1> USE DEF ClientInv
<1>1. d \in Queries /\ {d} \in SUBSET Queries /\ {"documents"} \in SUBSET Queries
      /\ DocumentsIfMounted \in SUBSET Queries /\ {} \in SUBSET Queries
  BY DEF Queries, DocumentsIfMounted
<1>2. CASE Upload(d) \/ UploadFails(d) \/ Begin(d) \/ End(d) \/ Interrupt(d)
  <2>1. UNCHANGED <<cache, page, tracked, faults, request>>
    BY <1>2 DEF Upload, UploadFails, Begin, End, Interrupt, ServerStep, account_vars
  <2> SUFFICES ASSUME NEW q \in Queries PROVE Sound(q)'
    BY DEF QueriesSound
  <2>2. Mounted(q)' => Mounted(q)
    BY <2>1 DEF Mounted, Watching
  <2> QED BY <2>1, <2>2, SoundStays DEF QueriesSound
<1>3. CASE Uploaded(d)
  <2>1. page' = page /\ tracked' = tracked \cup {d} /\ faults' = faults
    BY <1>3 DEF Uploaded
  <2>2. CASE page = "dashboard"
    <3>1. \A q \in Queries : Mounted(q)' => Mounted(q)
      BY <2>1, <2>2 DEF Mounted, Watching
    <3>2. Refetch({}, DocumentsIfMounted)
      BY <1>3, <2>2 DEF Uploaded
    <3> QED BY <1>1, <2>1, <3>1, <3>2, RefetchSound
  <2>3. CASE page # "dashboard"
    <3>1. \A q \in Queries : Mounted(q)' => Mounted(q) \/ q \in {d}
      BY <2>1, <2>3 DEF Mounted, Watching
    <3>2. Refetch({d}, DocumentsIfMounted)
      BY <1>3, <2>3 DEF Uploaded
    <3> QED BY <1>1, <2>1, <3>1, <3>2, RefetchSound
  <2> QED BY <2>2, <2>3
<1>4. CASE Announce(d)
  <2>1. \A q \in Queries : Mounted(q)' => Mounted(q)
    BY <1>4 DEF Announce, Mounted, Watching
  <2>2. (IF page = "workspace" THEN {"documents"} ELSE {}) \in SUBSET Queries
    BY <1>1
  <2> QED BY <1>1, <1>4, <2>1, <2>2, RefetchSound DEF Announce
<1>5. CASE Reconcile(d)
  BY <1>1, <1>5, AnswerSound DEF Reconcile, Answer
<1> QED BY <1>2, <1>3, <1>4, <1>5

LEMMA ClientStarts == DocumentsInit => ClientInv
<1> SUFFICES ASSUME DocumentsInit PROVE ClientInv
  OBVIOUS
<1>1. ClientTypes
  BY EmptyIsQuery DEF DocumentsInit, ClientTypes, Nothing, Status
<1>2. QueriesSound
  BY QueriesAreRequests DEF DocumentsInit, AccountInit, QueriesSound, Sound, Empty
<1> QED BY <1>1, <1>2, AccountsStart DEF DocumentsInit, ClientInv

LEMMA ClientKeeps == ClientInv /\ [DocumentsNext]_vars => ClientInv'
<1> SUFFICES ASSUME ClientInv, [DocumentsNext]_vars PROVE ClientInv'
  OBVIOUS
<1>1. [AccountNext]_account_vars
  BY ClientStepIsAccountStep DEF ClientInv, ClientTypes, TracksDocuments
<1>2. AccountInv' /\ ClientTypes' /\ (Known => Known')
  BY <1>1, AccountsKeep, ClientTypesNext, KnownStays DEF ClientInv
<1>3. QueriesSound'
  <2>1. CASE UNCHANGED vars
    <3>1. UNCHANGED <<cache, page, tracked, faults, request, user>>
      BY <2>1 DEF vars, client_vars, account_vars, tables
    <3> SUFFICES ASSUME NEW q \in Queries PROVE Sound(q)'
      BY DEF QueriesSound
    <3>2. Mounted(q)' => Mounted(q)
      BY <3>1 DEF Mounted, Watching
    <3> QED BY <1>2, <3>1, <3>2, SoundStays DEF QueriesSound, ClientInv
  <2>2. CASE DocumentsNext
    BY <1>2, <2>2, QueryStepSound, OthersStepSound, PageStepSound, DocumentStepSound
    DEF DocumentsNext
  <2> QED BY <2>1, <2>2
<1> QED BY <1>2, <1>3 DEF ClientInv

(* The inductive invariant of the client: types, accounts, and queries     *)
(* that know what their requests can meet.                                 *)
THEOREM ClientInvariant == Spec => []ClientInv
<1> QED BY ClientStarts, ClientKeeps, PTL DEF Spec

(* providers.tsx:13: one retry is enough.  For any number of first         *)
(* requests, queries, uploads and visits, as long as nothing is lost no    *)
(* query that is on display shows an error.                                *)
THEOREM OneRetryIsEnough == Spec => []FirstPageLoads
<1>1. ClientInv => FirstPageLoads
  BY DEF ClientInv, QueriesSound, Sound, FirstPageLoads
<1> QED BY <1>1, ClientInvariant, PTL

-----------------------------------------------------------------------------
(* What was announced is shown.                                            *)

(* What has been announced is over until it begins again; the table is     *)
(* loading it, has it in its answer or on display, or shows an error.      *)
AnnouncedInv ==
  LET table == cache["documents"] IN
  \A d \in announced :
    /\ status[d] = "settled"
    /\ table.fetch = "answered" => table.answer[d] # "active"
    /\ table.loaded /\ table.fetch = "idle" => table.error \/ table.data[d] # "active"

(* Steps that neither answer nor announce.                                 *)
LEMMA AnnouncedStays ==
  ASSUME AnnouncedInv, announced' \subseteq announced,
         \A d \in announced' : status'[d] = status[d],
         \/ cache'["documents"] = cache["documents"]
         \/ cache'["documents"].fetch = "asked"
  PROVE  AnnouncedInv'
BY DEF AnnouncedInv

LEMMA RefetchOrNot ==
  ASSUME ClientTypes, NEW mounting, NEW invalid, Refetch(mounting, invalid)
  PROVE  \/ cache'["documents"] = cache["documents"]
         \/ cache'["documents"].fetch = "asked"
<1>1. "documents" \in Queries
  BY DEF Queries
<1>2. cache'["documents"] \in {cache["documents"], Asked(cache["documents"])}
  BY <1>1 DEF Refetch
<1> QED BY <1>1, <1>2, AskedIsQuery DEF ClientTypes

LEMMA AnswerAnnounced ==
  ASSUME ClientTypes, AnnouncedInv, NEW q \in Queries, Answer(q),
         \A d \in announced : status'[d] = status[d]
  PROVE  AnnouncedInv'
<1>1. announced' = announced /\ announced \subseteq Documents
  BY DEF Answer, ClientTypes
<1>2. cache' = [cache EXCEPT ![q] = [cache[q] EXCEPT !.fetch = "answered", !.answer = Read(q)]]
      /\ cache \in [Queries -> Query]
  BY DEF Answer, ClientTypes
<1>3. CASE q # "documents"
  BY <1>1, <1>2, <1>3, AnnouncedStays
<1>4. CASE q = "documents"
  <2>1. cache'[q].fetch = "answered" /\ cache'[q].answer = Read(q)
    BY <1>2 DEF Query
  <2>2. \A d \in announced : Read(q)[d] = status'[d]
    BY <1>1, <1>4 DEF Read
  <2> QED BY <1>1, <1>4, <2>1, <2>2 DEF AnnouncedInv
<1> QED BY <1>3, <1>4

LEMMA AnnouncedNext ==
  ASSUME ClientTypes, AnnouncedInv, [DocumentsNext]_vars
  PROVE  AnnouncedInv'
<1>1. CASE UNCHANGED vars
  BY <1>1, AnnouncedStays DEF vars, client_vars, server_vars
<1>2. ASSUME NEW q \in Queries, QueryStep(q) \/ LoseRequest(q) \/ LoseAnswer(q)
      PROVE  AnnouncedInv'
  <2>1. cache \in [Queries -> Query] /\ "documents" \in Queries
    BY DEF ClientTypes, Queries
  <2>2. CASE Bootstraps(q) \/ LoseRequest(q)
    BY <2>2, AnnouncedStays DEF Bootstraps, LoseRequest, client_vars, server_vars
  <2>3. CASE Retry(q)
    <3>1. cache'["documents"] = cache["documents"] \/ q = "documents"
      BY <2>1, <2>3 DEF Retry
    <3>2. q = "documents" => /\ cache'[q].fetch = cache[q].fetch /\ cache'[q].answer = cache[q].answer
                             /\ cache'[q].loaded = cache[q].loaded /\ cache'[q].error = cache[q].error
                             /\ cache'[q].data = cache[q].data
      BY <2>1, <2>3 DEF Retry, Query
    <3>3. announced' = announced /\ status' = status
      BY <2>3 DEF Retry, server_vars
    <3> QED BY <3>1, <3>2, <3>3 DEF AnnouncedInv
  <2>4. CASE FailFetch(q)
    <3>1. cache' = [cache EXCEPT ![q] =
                      [cache[q] EXCEPT !.fetch = "idle", !.error = TRUE, !.retried = FALSE]]
      BY <2>4 DEF FailFetch
    <3>2. cache'["documents"] = cache["documents"] \/ q = "documents"
      BY <2>1, <3>1
    <3>3. q = "documents" => cache'[q].fetch = "idle" /\ cache'[q].error
      BY <2>1, <3>1 DEF Query
    <3>4. announced' = announced /\ status' = status
      BY <2>4 DEF FailFetch, server_vars
    <3> QED BY <3>2, <3>3, <3>4 DEF AnnouncedInv
  <2>5. CASE Current(q)
    BY <2>5, AnswerAnnounced DEF Current
  <2>6. CASE Receive(q)
    <3>1. /\ cache' = [cache EXCEPT ![q] = Received(cache[q])] /\ cache[q].fetch = "answered"
          /\ announced' = announced /\ status' = status
      BY <2>6 DEF Receive, server_vars
    <3>2. cache'["documents"] = cache["documents"] \/ q = "documents"
      BY <2>1, <3>1
    <3>3. q = "documents" => cache'[q].fetch = "idle" /\ cache'[q].data = cache[q].answer
      BY <2>1, <3>1 DEF Received, Empty
    <3> QED BY <3>1, <3>2, <3>3 DEF AnnouncedInv
  <2>7. CASE Poll(q)
    BY <2>7, RefetchOrNot, AnnouncedStays DEF Poll, server_vars
  <2>8. CASE LoseAnswer(q)
    <3>1. cache' = [cache EXCEPT ![q] = [cache[q] EXCEPT !.fetch = "asked", !.answer = Nothing]]
      BY <2>8 DEF LoseAnswer
    <3>2. cache'["documents"] = cache["documents"] \/ cache'["documents"].fetch = "asked"
      BY <2>1, <3>1 DEF Query
    <3> QED BY <2>8, <3>2, AnnouncedStays DEF LoseAnswer, server_vars
  <2> QED BY <1>2, <2>2, <2>3, <2>4, <2>5, <2>6, <2>7, <2>8 DEF QueryStep
<1>3. ASSUME NEW r \in Others, Ask(r) \/ Bootstraps(r) \/ Return(r)
      PROVE  AnnouncedInv'
  BY <1>3, AnnouncedStays DEF Ask, Bootstraps, Return, client_vars, server_vars
<1>4. ASSUME NEW p, Visit(p) \/ RetryDocuments PROVE AnnouncedInv'
  <2>1. /\ announced' = announced /\ status' = status
        /\ \E mounting, invalid : Refetch(mounting, invalid)
    BY <1>4 DEF Visit, RetryDocuments, server_vars
  <2> QED BY <2>1, RefetchOrNot, AnnouncedStays
<1>5. CASE ReloadPage
  BY <1>5 DEF ReloadPage, AnnouncedInv
<1>6. ASSUME NEW d \in Documents,
             \/ Upload(d) \/ Uploaded(d) \/ UploadFails(d) \/ Announce(d)
             \/ Begin(d) \/ End(d) \/ Interrupt(d) \/ Reconcile(d)
      PROVE  AnnouncedInv'
  <2>1. status \in [Documents -> Status] /\ announced \subseteq Documents
    BY DEF ClientTypes
  <2>2. CASE Upload(d)
    <3>1. d \notin announced
      BY <2>2 DEF Upload, AnnouncedInv
    <3> QED BY <2>1, <2>2, <3>1, AnnouncedStays DEF Upload
  <2>3. CASE Uploaded(d)
    BY <2>3, RefetchOrNot, AnnouncedStays DEF Uploaded, server_vars
  <2>4. CASE UploadFails(d)
    BY <2>4, AnnouncedStays DEF UploadFails, server_vars
  <2>5. CASE Announce(d)
    <3>1. status' = status /\ announced' = announced \cup Witnessed(d)
      BY <2>5 DEF Announce, server_vars
    <3>2. \/ cache'["documents"] = cache["documents"]
          \/ cache'["documents"].fetch = "asked"
      BY <2>5, RefetchOrNot DEF Announce
    <3>3. CASE Witnessed(d) = {}
      BY <3>1, <3>2, <3>3, AnnouncedStays
    <3>4. CASE Witnessed(d) # {}
      <4>1. /\ page = "workspace" /\ cache["documents"].loaded /\ status[d] = "settled"
            /\ Witnessed(d) = {d}
        BY <3>4 DEF Witnessed
      <4>2. Refetch({}, {"documents"}) /\ "documents" \in Queries
        BY <2>5, <4>1 DEF Announce, Queries
      <4>3. cache'["documents"] = Asked(cache["documents"])
        BY <4>1, <4>2 DEF Refetch
      <4>4. cache'["documents"].fetch = "asked"
        BY <4>2, <4>3, AskedIsQuery DEF ClientTypes
      <4> QED BY <3>1, <4>1, <4>4 DEF AnnouncedInv
    <3> QED BY <3>3, <3>4
  <2>6. CASE Begin(d)
    BY <2>1, <2>6, AnnouncedStays DEF Begin, ServerStep
  <2>7. CASE End(d)
    <3>1. cache' = cache /\ announced' = announced /\ status' = [status EXCEPT ![d] = "settled"]
      BY <2>7 DEF End, ServerStep
    <3> QED BY <2>1, <3>1 DEF AnnouncedInv
  <2>8. CASE Interrupt(d)
    BY <2>8, AnnouncedStays DEF Interrupt, ServerStep
  <2>9. CASE Reconcile(d)
    <3>1. d \in Queries /\ d \notin announced
      BY <2>9 DEF Queries, Reconcile, AnnouncedInv
    <3>2. \A c \in announced : status'[c] = status[c]
      BY <2>1, <2>9, <3>1 DEF Reconcile
    <3> QED BY <2>9, <3>1, <3>2, AnswerAnnounced DEF Reconcile
  <2> QED BY <1>6, <2>2, <2>3, <2>4, <2>5, <2>6, <2>7, <2>8, <2>9
<1> QED BY <1>1, <1>2, <1>3, <1>4, <1>5, <1>6 DEF DocumentsNext

(* For any uploads, visits, polls, failures and runs, a table at rest does *)
(* not go on showing as processed what a watcher has said to be over.      *)
THEOREM AnnouncementsAreShown == Spec => []AnnouncedIsShown
<1>1. DocumentsInit => AnnouncedInv
  BY DEF DocumentsInit, AnnouncedInv
<1>2. ClientInv /\ AnnouncedInv /\ [DocumentsNext]_vars => AnnouncedInv'
  BY AnnouncedNext DEF ClientInv
<1>3. AnnouncedInv => AnnouncedIsShown
  BY DEF AnnouncedInv, AnnouncedIsShown
<1> QED BY <1>1, <1>2, <1>3, ClientInvariant, PTL DEF Spec

=============================================================================
