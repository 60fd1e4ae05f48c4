----------------------------- MODULE AdminSessions -----------------------------
(***************************************************************************)
(* backend/src/middleware/auth.js and routes/admin.js, admin/sessions.js:  *)
(* refresh tokens, each of a family (a session), rotated and revoked by    *)
(* requests that run side by side.  Every query is a step.                 *)
(*                                                                         *)
(* A token is its family and its place in the family's chain.  Bound:      *)
(* MaxChain tokens of a family.                                            *)
(***************************************************************************)
EXTENDS Naturals, FiniteSets

CONSTANTS Families, MaxChain, Refreshes

ASSUME SessionAssumption == Families # {} /\ MaxChain \in Nat \ {0}

VARIABLES token,      \* refresh_tokens: absent, live, revoked, and whether expired
          refresh,    \* each POST /refresh: where it is and the token it presented
          successors  \* history: tokens issued in exchange for each token

sessionVars == <<token, refresh, successors>>

Links == 1..MaxChain
Spare == [at |-> "idle", family |-> CHOOSE f \in Families : TRUE, link |-> 1]

Issued(f) == {n \in Links : token[f][n].state # "absent"}
Active(f) == {n \in Links : token[f][n].state = "live"}

\* issueRefreshToken appends to the family
Issues(f) == token' = [token EXCEPT ![f][Cardinality(Issued(f)) + 1].state = "live"]

\* POST /login
LogsIn(f) ==
  /\ Issued(f) = {}
  /\ Issues(f)
  /\ UNCHANGED <<refresh, successors>>

\* revokeRefreshFamily: of logout, of DELETE /sessions/:family, and of a replayed token
Revoked(f) == [n \in Links |-> IF token[f][n].state = "live"
                               THEN [token[f][n] EXCEPT !.state = "revoked"] ELSE token[f][n]]
RevokeFamily(f) ==
  /\ Active(f) # {}
  /\ token' = [token EXCEPT ![f] = Revoked(f)]
  /\ UNCHANGED <<refresh, successors>>

\* revokeAllSessionsExcept
RevokeAllExcept(f) ==
  /\ token' = [g \in Families |-> IF g = f THEN token[g] ELSE Revoked(g)]
  /\ UNCHANGED <<refresh, successors>>

TokenExpires(f, n) ==
  /\ token[f][n].state # "absent" /\ ~token[f][n].expired
  /\ token' = [token EXCEPT ![f][n].expired = TRUE]
  /\ UNCHANGED <<refresh, successors>>

-------------------------------------------------------------------------------
(* rotateRefreshToken *)

\* findRefreshToken, and the checks of the row it read
FindsToken(r) ==
  \E f \in Families, n \in Links :
    /\ refresh[r].at = "idle" /\ token[f][n].state # "absent"
    /\ ~(token[f][n].state = "live" /\ token[f][n].expired)   \* 401, nothing changes
    /\ refresh' = [refresh EXCEPT ![r] =
         [at |-> IF token[f][n].state = "revoked" THEN "reused" ELSE "claim",
          family |-> f, link |-> n]]
    /\ UNCHANGED <<token, successors>>

\* Mutant: the update does not ask whether the token is revoked already.
ClaimsBlindly(r) ==
  LET f == refresh[r].family  n == refresh[r].link IN
  /\ refresh[r].at = "claim"
  /\ token' = [token EXCEPT ![f][n].state = "revoked"]
  /\ refresh' = [refresh EXCEPT ![r].at = "issue"]
  /\ UNCHANGED successors

\* UPDATE ... WHERE id = $1 AND revoked = false decides the winner
ClaimsToken(r) ==
  LET f == refresh[r].family  n == refresh[r].link IN
  /\ refresh[r].at = "claim"
  /\ IF token[f][n].state = "live"
     THEN /\ token' = [token EXCEPT ![f][n].state = "revoked"]
          /\ refresh' = [refresh EXCEPT ![r].at = "issue"]
     ELSE UNCHANGED token /\ refresh' = [refresh EXCEPT ![r].at = "reused"]
  /\ UNCHANGED successors

IssuesSuccessor(r) ==
  LET f == refresh[r].family  n == refresh[r].link IN
  /\ refresh[r].at = "issue" /\ Cardinality(Issued(f)) < MaxChain
  /\ Issues(f)
  /\ successors' = [successors EXCEPT ![f][n] = @ + 1]
  /\ refresh' = [refresh EXCEPT ![r] = Spare]

\* a spent token came back: the family is revoked
RevokesReused(r) ==
  /\ refresh[r].at = "reused"
  /\ token' = [token EXCEPT ![refresh[r].family] = Revoked(refresh[r].family)]
  /\ refresh' = [refresh EXCEPT ![r] = Spare]
  /\ UNCHANGED successors

\* the request's process dies, or a query fails: the claimed token has no successor
RefreshDies(r) ==
  /\ refresh[r].at # "idle"
  /\ refresh' = [refresh EXCEPT ![r] = Spare]
  /\ UNCHANGED <<token, successors>>

-------------------------------------------------------------------------------
SessionInit ==
  /\ token = [f \in Families |-> [n \in Links |-> [state |-> "absent", expired |-> FALSE]]]
  /\ refresh = [r \in Refreshes |-> Spare]
  /\ successors = [f \in Families |-> [n \in Links |-> 0]]

SessionNext ==
  \/ \E f \in Families : LogsIn(f) \/ RevokeFamily(f) \/ RevokeAllExcept(f)
                         \/ \E n \in Links : TokenExpires(f, n)
  \/ \E r \in Refreshes : FindsToken(r) \/ ClaimsToken(r) \/ IssuesSuccessor(r)
                          \/ RevokesReused(r) \/ RefreshDies(r)

-------------------------------------------------------------------------------
(* Properties *)

\* The variables have their types, and a session has one live token at most, so that
\* listActiveSessions shows one expiry of it.
SessionTypeOK ==
  /\ token \in [Families -> [Links -> [state : {"absent", "live", "revoked"},
                                       expired : BOOLEAN]]]
  /\ refresh \in [Refreshes -> [at : {"idle", "claim", "issue", "reused"}, family : Families,
                                link : Links]]
  /\ \A f \in Families : Cardinality(Active(f)) <= 1

\* A token is exchanged once: of requests that present it together, one gets the successor.
OneSuccessor == \A f \in Families, n \in Links : successors[f][n] <= 1
===============================================================================
