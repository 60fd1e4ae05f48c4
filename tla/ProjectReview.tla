----------------------------- MODULE ProjectReview -----------------------------
(***************************************************************************)
(* How a project gets onto the platform: routes/verification.js (requests  *)
(* and reviews) and onboardingService.js (what an approval starts), beside *)
(* owners who register one themselves.  Nothing runs in a transaction:     *)
(* every query is a step.  The CO2 verdict that an approval writes is in   *)
(* columns that nothing here reads, and is left out.                       *)
(*                                                                         *)
(* All requests are for one wallet and project name, by which approvals    *)
(* find the projects that are theirs.  A secret is named by the request    *)
(* whose approval drew it.                                                 *)
(***************************************************************************)
EXTENDS Naturals, FiniteSets

CONSTANTS Applications,   \* verification requests
          MaxProjects,    \* bound: rows of `projects`, numbered as they are inserted
          Operations,     \* admins' requests under way at once
          None

VALID_TRANSITIONS ==
  [pending |-> {"in_review", "rejected"}, in_review |-> {"approved", "rejected", "pending"},
   approved |-> {}, rejected |-> {"pending"}]

ASSUME ReviewAssumption ==
  /\ MaxProjects \in Nat
  /\ None \notin Applications \union {"owner", "review"} \union DOMAIN VALID_TRANSITIONS

VARIABLES application, \* verification_requests.status
          project,     \* projects: who listed it, its webhook secret, its checklist
          op,          \* each operation: its place and what it has read
          approved,    \* history: requests approved while nobody else was about to decide them
          mailed,      \* history: <<project, secret>> in onboarding e-mails, until two overlap
          overlapped   \* history: two onboardings were under way at once

reviewVars == <<application, project, op, approved, mailed, overlapped>>

Projects   == 1..MaxProjects
\* on: the request it decides, from then on the one whose approval drew the secret it holds
Idle       == [at |-> "idle", on |-> None, status |-> None, row |-> None]
Rows       == {r \in Projects : project[r].listed # None}
NextId     == Cardinality(Rows) + 1
Onboarding == {o \in Operations : op[o].at \in {"seek", "secret", "insert", "list", "mail"}}
NewRow     == [listed |-> "owner", secret |-> None, checklist |-> FALSE]

Steps(o, to) == op' = [op EXCEPT ![o].at = to]

-------------------------------------------------------------------------------
(* Requests and their review *)

\* POST /api/verification-requests
Applies(a) ==
  /\ application[a] = "absent"
  /\ application' = [application EXCEPT ![a] = "pending"]
  /\ UNCHANGED <<project, op, approved, mailed, overlapped>>

\* PATCH /:id/status reads the row and checks the transition
ReadsApplication(o, a) ==
  /\ op[o].at = "idle" /\ application[a] # "absent"
  /\ \E status \in VALID_TRANSITIONS[application[a]] :
       op' = [op EXCEPT ![o] = [Idle EXCEPT !.at = "decide", !.on = a, !.status = status]]
  /\ UNCHANGED <<application, project, approved, mailed, overlapped>>

\* the UPDATE, whatever the status has become
Decides(o) ==
  LET a == op[o].on  status == op[o].status IN
  /\ op[o].at = "decide"
  /\ application' = [application EXCEPT ![a] = status]
  /\ IF status = "approved"
     THEN /\ op' = [op EXCEPT ![o].at = "seek", ![o].status = None]
          /\ approved' = IF \E q \in Operations \ {o} : op[q].at = "decide" /\ op[q].on = a
                         THEN approved ELSE approved \union {a}
          /\ overlapped' = (overlapped \/ Onboarding # {})
          /\ mailed' = IF Onboarding = {} THEN mailed ELSE {}
     ELSE op' = [op EXCEPT ![o] = Idle] /\ UNCHANGED <<approved, overlapped, mailed>>
  /\ UNCHANGED project

-------------------------------------------------------------------------------
(* onboardProject *)

\* SELECT id, webhook_secret: a row of that wallet and name, if there is one
SeeksProject(o) ==
  /\ op[o].at = "seek"
  /\ \/ Rows = {} /\ Steps(o, "insert")
     \/ \E r \in Rows :
          op' = [op EXCEPT ![o].at = IF project[r].secret = None THEN "secret" ELSE "list",
                           ![o].row = r,
                           ![o].on = IF project[r].secret = None THEN @ ELSE project[r].secret]
  /\ UNCHANGED <<application, project, approved, mailed, overlapped>>

SetsSecret(o) ==
  /\ op[o].at = "secret" /\ Steps(o, "list")
  /\ project' = [project EXCEPT ![op[o].row].secret = op[o].on]
  /\ UNCHANGED <<application, approved, mailed, overlapped>>

InsertsProject(o) ==
  /\ op[o].at = "insert" /\ NextId <= MaxProjects
  /\ project' = [project EXCEPT ![NextId] = [NewRow EXCEPT !.listed = "review", !.secret = op[o].on]]
  /\ op' = [op EXCEPT ![o].at = "list", ![o].row = NextId]
  /\ UNCHANGED <<application, approved, mailed, overlapped>>

\* INSERT INTO project_onboarding ... ON CONFLICT DO NOTHING
ListsItems(o) ==
  /\ op[o].at = "list" /\ Steps(o, "mail")
  /\ project' = [project EXCEPT ![op[o].row].checklist = TRUE]
  /\ UNCHANGED <<application, approved, mailed, overlapped>>

MailsSecret(o) ==
  /\ op[o].at = "mail"
  /\ mailed' = IF overlapped THEN {} ELSE mailed \union {<<op[o].row, op[o].on>>}
  /\ op' = [op EXCEPT ![o] = Idle]
  /\ UNCHANGED <<application, project, approved, overlapped>>

\* a query or the e-mail fails, which the route only logs, or the process dies
OperationFails(o) ==
  /\ op[o].at # "idle"
  /\ op' = [op EXCEPT ![o] = Idle]
  /\ UNCHANGED <<application, project, approved, mailed, overlapped>>

\* POST /api/projects by the owner, unverified
Registers ==
  /\ NextId <= MaxProjects
  /\ project' = [project EXCEPT ![NextId] = NewRow]
  /\ UNCHANGED <<application, op, approved, mailed, overlapped>>

-------------------------------------------------------------------------------
ReviewInit ==
  /\ application = [a \in Applications |-> "absent"]
  /\ project = [r \in Projects |-> [NewRow EXCEPT !.listed = None]]
  /\ op = [o \in Operations |-> Idle]
  /\ approved = {} /\ mailed = {} /\ overlapped = FALSE

ReviewNext ==
  \/ \E a \in Applications : Applies(a)
  \/ \E o \in Operations :
       \/ \E a \in Applications : ReadsApplication(o, a)
       \/ Decides(o) \/ SeeksProject(o) \/ SetsSecret(o) \/ InsertsProject(o)
       \/ ListsItems(o) \/ MailsSecret(o) \/ OperationFails(o)
  \/ Registers

-------------------------------------------------------------------------------
(* Properties *)

\* The variables have their types.
ReviewTypeOK ==
  /\ application \in [Applications -> {"absent"} \union DOMAIN VALID_TRANSITIONS]
  /\ \A r \in Projects :
       project[r] \in [listed : {"review", "owner", None}, secret : Applications \union {None},
                       checklist : BOOLEAN]
  /\ approved \subseteq Applications /\ overlapped \in BOOLEAN

\* What a review decides stands.  An approval that nobody else was about to overrule is final.
\* Until two onboardings overlap, approvals of one wallet and name make one project, whatever
\* fails on the way and however often the organisation applies again, and an organisation that
\* has its e-mail has its checklist and the secret that deliveries are signed with.
DecisionsStand ==
  /\ \A a \in approved : application[a] = "approved"
  /\ ~overlapped =>
       /\ Cardinality({r \in Rows : project[r].listed = "review"}) <= 1
       /\ \A sent \in mailed : project[sent[1]].secret = sent[2] /\ project[sent[1]].checklist
===============================================================================
