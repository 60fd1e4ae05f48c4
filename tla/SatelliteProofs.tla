---------------------------- MODULE SatelliteProofs ----------------------------
(***************************************************************************)
(* Theorems about the parts of SatelliteFamily for every value of their    *)
(* constants.  Each part has an inductive invariant of its own, with the   *)
(* lemmas that it holds at first and that the part's steps keep it; the    *)
(* last section puts them together for the family.                         *)
(***************************************************************************)
EXTENDS SatelliteFamily, SumTheorems, SequenceTheorems

\* A set whose members are all the same has one at most.
LEMMA AtMostOne ==
  ASSUME NEW S, \A a, b \in S : a = b
  PROVE  Cardinality(S) <= 1
<1>1. CASE S = {}
  BY <1>1, FS_EmptySet
<1>2. ASSUME NEW a \in S PROVE Cardinality(S) <= 1
  <2>1. S = {a}
    BY <1>2
  <2> QED BY <2>1, FS_Singleton
<1> QED BY <1>1, <1>2

\* Sets that gain a member, lose one, or lose some.
LEMMA GainsOne ==
  ASSUME NEW S, IsFiniteSet(S), NEW T, NEW x, \A y \in T : y \in S \/ y = x
  PROVE  IsFiniteSet(T) /\ Cardinality(T) \in Nat /\ Cardinality(T) <= Cardinality(S) + 1
<1> DEFINE U == S \cup {x}
<1>1. IsFiniteSet(U) /\ Cardinality(U) <= Cardinality(S) + 1 /\ Cardinality(S) \in Nat
  BY FS_AddElement, FS_CardinalityType
<1>2. T \subseteq U
  OBVIOUS
<1> HIDE DEF U
<1>3. IsFiniteSet(T) /\ Cardinality(T) <= Cardinality(U) /\ Cardinality(U) \in Nat
  BY <1>1, <1>2, FS_Subset, FS_CardinalityType
<1> QED BY <1>1, <1>3, FS_CardinalityType

LEMMA LosesOne ==
  ASSUME NEW S, IsFiniteSet(S), NEW T, NEW x \in S, \A y \in T : y \in S /\ y # x
  PROVE  IsFiniteSet(T) /\ Cardinality(T) \in Nat /\ Cardinality(T) <= Cardinality(S) - 1
<1> DEFINE U == S \ {x}
<1>1. IsFiniteSet(U) /\ Cardinality(U) = Cardinality(S) - 1 /\ Cardinality(S) \in Nat
  BY FS_RemoveElement, FS_CardinalityType
<1>2. T \subseteq U
  OBVIOUS
<1> HIDE DEF U
<1>3. IsFiniteSet(T) /\ Cardinality(T) <= Cardinality(U)
  BY <1>1, <1>2, FS_Subset
<1> QED BY <1>1, <1>3, FS_CardinalityType

LEMMA LosesSome ==
  ASSUME NEW S, IsFiniteSet(S), NEW T, \A y \in T : y \in S
  PROVE  IsFiniteSet(T) /\ Cardinality(T) \in Nat /\ Cardinality(T) <= Cardinality(S)
<1>1. T \subseteq S
  OBVIOUS
<1> QED BY <1>1, FS_Subset, FS_CardinalityType

\* Of places that are filled in order, the first that is free comes after all that are not.
LEMMA FirstFree ==
  ASSUME NEW N \in Nat, NEW I \in SUBSET (1 .. N), Cardinality(I) < N,
         \A m, n \in 1 .. N : m < n /\ n \in I => m \in I
  PROVE  LET k == Cardinality(I) + 1
         IN  /\ k \in 1 .. N /\ k \notin I
             /\ \A m \in 1 .. N : m < k => m \in I
             /\ \A m \in 1 .. N : k < m => m \notin I
<1> DEFINE k == Cardinality(I) + 1
<1>1. IsFiniteSet(I) /\ Cardinality(I) \in Nat
  <2>1. IsFiniteSet(1 .. N)
    BY FS_Interval
  <2> QED BY <2>1, FS_Subset, FS_CardinalityType
<1>2. ASSUME NEW n \in I PROVE n <= Cardinality(I)
  <2>1. n \in Nat \ {0} /\ 1 .. n \subseteq I
    OBVIOUS
  <2>2. Cardinality(1 .. n) = n
    BY <2>1, FS_Interval
  <2>3. Cardinality(1 .. n) <= Cardinality(I)
    BY <1>1, <2>1, FS_Subset
  <2> QED BY <2>2, <2>3
<1>3. ASSUME NEW n \in (1 .. N) \ I PROVE n > Cardinality(I)
  <2>1. n \in Nat \ {0} /\ n - 1 \in Nat
    OBVIOUS
  <2> DEFINE J == 1 .. n - 1
  <2>2. I \subseteq J
    OBVIOUS
  <2>3. IsFiniteSet(J) /\ Cardinality(J) = n - 1
    BY <2>1, FS_Interval
  <2> HIDE DEF J
  <2>4. Cardinality(I) <= n - 1
    BY <2>2, <2>3, FS_Subset
  <2> QED BY <1>1, <2>1, <2>4
<1>4. k \in 1 .. N /\ k \notin I
  BY <1>1, <1>2
<1>5. \A m \in 1 .. N : m < k => m \in I
  BY <1>1, <1>3
<1>6. \A m \in 1 .. N : k < m => m \notin I
  BY <1>1, <1>2
<1> QED BY <1>4, <1>5, <1>6

-------------------------------------------------------------------------------
(* AdminSessions: a family is a chain whose tokens are issued in order; of *)
(* one live token and requests that are to issue one there is one at most. *)

Issuing(f) == {r \in Refreshes : refresh[r].at = "issue" /\ refresh[r].family = f}

TokenRows == [state : {"absent", "live", "revoked"}, expired : BOOLEAN]
Requests == [at : {"idle", "claim", "issue", "reused"}, family : Families, link : Links]

TokenTyped ==
  /\ token \in [Families -> [Links -> TokenRows]]
  /\ refresh \in [Refreshes -> Requests]
  /\ successors \in [Families -> [Links -> Nat]]

SessionInv ==
  /\ TokenTyped
  /\ \A f \in Families :
       /\ \A m, n \in Links : m < n /\ token[f][n].state # "absent" =>
                                token[f][m].state # "absent"
       /\ \A m, n \in Active(f) : m = n
       /\ \A r, q \in Issuing(f) : r = q
       /\ Issuing(f) # {} => Active(f) = {}
       /\ \A n \in Links : /\ successors[f][n] <= 1
                           /\ successors[f][n] > 0 => token[f][n].state = "revoked"
  /\ \A r \in Refreshes : refresh[r].at = "issue" =>
       /\ token[refresh[r].family][refresh[r].link].state = "revoked"
       /\ successors[refresh[r].family][refresh[r].link] = 0

\* What a step writes to one row of the tokens, and to one request.
LEMMA RowWritten ==
  ASSUME TokenTyped, NEW f \in Families, NEW n \in Links,
         NEW s \in {"absent", "live", "revoked"}, token' = [token EXCEPT ![f][n].state = s]
  PROVE  /\ token' \in [Families -> [Links -> TokenRows]]
         /\ token'[f][n].state = s
         /\ \A m \in Links \ {n} : token'[f][m] = token[f][m]
         /\ \A g \in Families \ {f} : token'[g] = token[g]
<1> DEFINE entry == [token[f][n] EXCEPT !.state = s]
<1>1. entry \in TokenRows /\ entry.state = s
  BY DEF TokenTyped, TokenRows
<1>2. token' = [token EXCEPT ![f][n] = entry]
  OBVIOUS
<1> HIDE DEF entry
<1>3. token \in [Families -> [Links -> TokenRows]]
  BY DEF TokenTyped
<1> QED BY <1>1, <1>2, <1>3

LEMMA RequestMoved ==
  ASSUME TokenTyped, NEW r \in Refreshes, NEW s \in {"idle", "claim", "issue", "reused"},
         refresh' = [refresh EXCEPT ![r].at = s]
  PROVE  /\ refresh' \in [Refreshes -> Requests]
         /\ refresh'[r].at = s /\ refresh'[r].family = refresh[r].family
         /\ refresh'[r].link = refresh[r].link
         /\ \A q \in Refreshes \ {r} : refresh'[q] = refresh[q]
<1> DEFINE entry == [refresh[r] EXCEPT !.at = s]
<1>1. /\ entry \in Requests /\ entry.at = s /\ entry.family = refresh[r].family
      /\ entry.link = refresh[r].link
  BY DEF TokenTyped, Requests
<1>2. refresh' = [refresh EXCEPT ![r] = entry]
  OBVIOUS
<1> HIDE DEF entry
<1>3. refresh \in [Refreshes -> Requests]
  BY DEF TokenTyped
<1> QED BY <1>1, <1>2, <1>3

LEMMA RequestFields ==
  TokenTyped => \A r \in Refreshes : /\ refresh[r] \in Requests
                                     /\ refresh[r].family \in Families
                                     /\ refresh[r].link \in Links
BY DEF TokenTyped, Requests

\* The next token of a family goes to the first place that is free.
LEMMA NextLink ==
  ASSUME SessionInv, NEW f \in Families, Cardinality(Issued(f)) < MaxChain
  PROVE  LET k == Cardinality(Issued(f)) + 1
         IN  /\ k \in Links /\ token[f][k].state = "absent"
             /\ \A m \in Links : m < k => token[f][m].state # "absent"
             /\ \A m \in Links : k < m => token[f][m].state = "absent"
<1> DEFINE I == Issued(f)
<1>1. MaxChain \in Nat /\ I \in SUBSET (1 .. MaxChain) /\ Cardinality(I) < MaxChain
  BY SessionAssumption DEF Issued, Links
<1>2. \A m, n \in 1 .. MaxChain : m < n /\ n \in I => m \in I
  BY DEF Issued, SessionInv, Links
<1>3. \A m \in Links : (m \in I) = (token[f][m].state # "absent")
  BY DEF Issued
<1> HIDE DEF I
<1>4. LET k == Cardinality(I) + 1
      IN  /\ k \in Links /\ k \notin I
          /\ \A m \in Links : m < k => m \in I
          /\ \A m \in Links : k < m => m \notin I
  BY <1>1, <1>2, FirstFree DEF Links
<1> QED BY <1>3, <1>4 DEF I

LEMMA SessionStart == SessionInit => SessionInv
<1> SUFFICES ASSUME SessionInit PROVE SessionInv
  OBVIOUS
<1>1. Spare \in Requests
  BY SessionAssumption DEF Spare, Links, Requests
<1>2. TokenTyped
  BY <1>1 DEF SessionInit, TokenTyped, TokenRows
<1>3. \A f \in Families : Active(f) = {} /\ Issuing(f) = {}
  BY DEF SessionInit, Active, Issuing, Spare
<1> QED BY <1>2, <1>3 DEF SessionInit, SessionInv, Spare

\* A step that only revokes tokens, or lets them expire, and starts nothing.
LEMMA RevocationKeeps ==
  ASSUME SessionInv, TokenTyped', successors' = successors,
         \A f \in Families, n \in Links :
           \/ token'[f][n].state = token[f][n].state
           \/ token[f][n].state = "live" /\ token'[f][n].state = "revoked",
         \A r \in Refreshes :
           \/ refresh'[r] = refresh[r]
           \/ refresh'[r].at # "issue"
  PROVE  SessionInv'
<1>1. \A f \in Families : Issuing(f)' \subseteq Issuing(f) /\ Active(f)' \subseteq Active(f)
  BY DEF Issuing, Active
<1>2. ASSUME NEW f \in Families
      PROVE  /\ \A m, n \in Links : m < n /\ token'[f][n].state # "absent" =>
                                      token'[f][m].state # "absent"
             /\ \A n \in Links : /\ successors'[f][n] <= 1
                                 /\ successors'[f][n] > 0 => token'[f][n].state = "revoked"
  <2>1. \A n \in Links : (token'[f][n].state = "absent") = (token[f][n].state = "absent")
    OBVIOUS
  <2> QED BY <2>1 DEF SessionInv
<1>3. ASSUME NEW r \in Refreshes, refresh'[r].at = "issue"
      PROVE  /\ token'[refresh'[r].family][refresh'[r].link].state = "revoked"
             /\ successors'[refresh'[r].family][refresh'[r].link] = 0
  <2>1. refresh'[r] = refresh[r]
    BY <1>3
  <2>2. refresh[r].family \in Families /\ refresh[r].link \in Links
    BY RequestFields DEF SessionInv
  <2> QED BY <1>3, <2>1, <2>2 DEF SessionInv
<1>4. ASSUME NEW f \in Families
      PROVE  /\ \A m, n \in Active(f)' : m = n
             /\ \A r, q \in Issuing(f)' : r = q
             /\ Issuing(f)' # {} => Active(f)' = {}
  BY <1>1 DEF SessionInv
<1> QED BY <1>2, <1>3, <1>4 DEF SessionInv

\* The states that Revoked(f) leaves.
LEMMA RevokedStates ==
  ASSUME TokenTyped, NEW f \in Families
  PROVE  /\ Revoked(f) \in [Links -> TokenRows]
         /\ \A n \in Links : Revoked(f)[n].state =
              IF token[f][n].state = "live" THEN "revoked" ELSE token[f][n].state
<1>1. \A n \in Links : token[f][n] \in TokenRows
  BY DEF TokenTyped
<1> QED BY <1>1 DEF Revoked, TokenRows

LEMMA FamilyRevoked ==
  ASSUME SessionInv, NEW F \in SUBSET Families, successors' = successors,
         token' = [g \in Families |-> IF g \in F THEN Revoked(g) ELSE token[g]],
         refresh' \in [Refreshes -> Requests],
         \A r \in Refreshes : refresh'[r] = refresh[r] \/ refresh'[r].at # "issue"
  PROVE  SessionInv'
<1>0. TokenTyped
  BY DEF SessionInv
<1>1. TokenTyped'
  BY <1>0, RevokedStates DEF TokenTyped
<1>2. \A f \in Families, n \in Links :
        \/ token'[f][n].state = token[f][n].state
        \/ token[f][n].state = "live" /\ token'[f][n].state = "revoked"
  BY <1>0, RevokedStates
<1> QED BY <1>1, <1>2, RevocationKeeps

\* A token that is issued: nothing of the family was live, and nobody issues another.
LEMMA IssueKeeps ==
  ASSUME SessionInv, NEW f \in Families, Issues(f), Cardinality(Issued(f)) < MaxChain,
         Active(f) = {}, Issuing(f)' = {}, TokenTyped',
         \A r \in Refreshes : refresh'[r] = refresh[r] \/ refresh'[r].at # "issue",
         \/ successors' = successors
         \/ \E n \in Links : /\ token[f][n].state = "revoked" /\ successors[f][n] = 0
                             /\ successors' = [successors EXCEPT ![f][n] = @ + 1]
  PROVE  SessionInv'
<1> DEFINE k == Cardinality(Issued(f)) + 1
<1>0. /\ k \in Links /\ token[f][k].state = "absent"
      /\ \A m \in Links : m < k => token[f][m].state # "absent"
      /\ \A m \in Links : k < m => token[f][m].state = "absent"
  BY NextLink
<1>1. token' = [token EXCEPT ![f][k].state = "live"]
  BY DEF Issues
<1> HIDE DEF k
<1>2. /\ token'[f][k].state = "live"
      /\ \A n \in Links \ {k} : token'[f][n] = token[f][n]
      /\ \A g \in Families \ {f} : token'[g] = token[g]
  BY <1>0, <1>1 DEF SessionInv, TokenTyped
<1>3. /\ \A g \in Families \ {f}, n \in Links : successors'[g][n] = successors[g][n]
      /\ \A n \in Links :
           \/ successors'[f][n] = successors[f][n]
           \/ /\ token[f][n].state = "revoked" /\ successors[f][n] = 0
              /\ successors'[f][n] = 1
  BY DEF SessionInv, TokenTyped
<1>4. /\ \A g \in Families : Issuing(g)' \subseteq Issuing(g)
      /\ \A g \in Families \ {f} : Active(g)' = Active(g)
      /\ Active(f)' = {k}
  BY <1>0, <1>2 DEF Issuing, Active
<1>5. ASSUME NEW g \in Families
      PROVE  /\ \A m, n \in Active(g)' : m = n
             /\ \A r, q \in Issuing(g)' : r = q
             /\ Issuing(g)' # {} => Active(g)' = {}
  BY <1>4 DEF SessionInv
<1>6. ASSUME NEW g \in Families, NEW m \in Links, NEW n \in Links, m < n,
             token'[g][n].state # "absent"
      PROVE  token'[g][m].state # "absent"
  <2>1. CASE g # f
    BY <1>2, <1>6, <2>1 DEF SessionInv
  <2>2. CASE g = f /\ m = k
    BY <1>2, <2>2
  <2>3. CASE g = f /\ m # k /\ n = k
    BY <1>0, <1>2, <1>6, <2>3
  <2>4. CASE g = f /\ m # k /\ n # k
    BY <1>2, <1>6, <2>4 DEF SessionInv
  <2> QED BY <2>1, <2>2, <2>3, <2>4
<1>7. ASSUME NEW g \in Families, NEW n \in Links
      PROVE  /\ successors'[g][n] <= 1
             /\ successors'[g][n] > 0 => token'[g][n].state = "revoked"
  <2>1. CASE g # f
    BY <1>2, <1>3, <2>1 DEF SessionInv
  <2>2. CASE g = f /\ n = k
    BY <1>0, <1>3, <2>2 DEF SessionInv, TokenTyped
  <2>3. CASE g = f /\ n # k
    BY <1>2, <1>3, <2>3 DEF SessionInv
  <2> QED BY <2>1, <2>2, <2>3
<1>8. ASSUME NEW r \in Refreshes, refresh'[r].at = "issue"
      PROVE  /\ token'[refresh'[r].family][refresh'[r].link].state = "revoked"
             /\ successors'[refresh'[r].family][refresh'[r].link] = 0
  <2>1. /\ refresh'[r] = refresh[r] /\ refresh[r].family \in Families
        /\ refresh[r].link \in Links
    BY <1>8, RequestFields DEF SessionInv
  <2>2. refresh[r].family # f
    BY <1>8, <2>1 DEF Issuing
  <2> QED BY <1>2, <1>3, <1>8, <2>1, <2>2 DEF SessionInv
<1> QED BY <1>5, <1>6, <1>7, <1>8 DEF SessionInv

\* A request that claims its token: the family has no live token then.
LEMMA ClaimKeeps ==
  ASSUME SessionInv, TokenTyped', successors' = successors,
         NEW r \in Refreshes, NEW f \in Families, NEW n \in Links,
         refresh[r].family = f, refresh[r].link = n, refresh'[r].family = f,
         refresh'[r].link = n, refresh[r].at = "claim", refresh'[r].at = "issue",
         \A q \in Refreshes \ {r} : refresh'[q] = refresh[q],
         token[f][n].state = "live", token'[f][n].state = "revoked",
         \A m \in Links \ {n} : token'[f][m] = token[f][m],
         \A g \in Families \ {f} : token'[g] = token[g]
  PROVE  SessionInv'
<1>1. n \in Active(f) /\ \A m \in Active(f) : m = n
  BY DEF Active, SessionInv
<1>2. Active(f)' = {} /\ \A g \in Families \ {f} : Active(g)' = Active(g)
  <2>1. ASSUME NEW m \in Active(f)' PROVE FALSE
    <3>1. m \in Links /\ token'[f][m].state = "live"
      BY <2>1 DEF Active
    <3>2. m # n
      BY <3>1
    <3>3. m \in Active(f)
      BY <3>1, <3>2 DEF Active
    <3> QED BY <1>1, <3>2, <3>3
  <2>2. ASSUME NEW g \in Families \ {f} PROVE Active(g)' = Active(g)
    BY DEF Active
  <2> QED BY <2>1, <2>2
<1>3. Issuing(f) = {}
  BY <1>1 DEF SessionInv
<1>4. \A q \in Issuing(f)' : q = r
  BY <1>3 DEF Issuing
<1>5. \A g \in Families \ {f} : Issuing(g)' = Issuing(g)
  BY DEF Issuing
<1>6. ASSUME NEW g \in Families
      PROVE  /\ \A m, k \in Active(g)' : m = k
             /\ \A q, p \in Issuing(g)' : q = p
             /\ Issuing(g)' # {} => Active(g)' = {}
  <2>1. CASE g = f
    BY <1>2, <1>4, <2>1
  <2>2. CASE g # f
    BY <1>2, <1>5, <2>2 DEF SessionInv
  <2> QED BY <2>1, <2>2
<1>7. ASSUME NEW g \in Families, NEW m \in Links
      PROVE  /\ (token'[g][m].state = "absent") = (token[g][m].state = "absent")
             /\ token[g][m].state = "revoked" => token'[g][m].state = "revoked"
  OBVIOUS
<1>8. ASSUME NEW g \in Families
      PROVE  /\ \A m, k \in Links : m < k /\ token'[g][k].state # "absent" =>
                                      token'[g][m].state # "absent"
             /\ \A m \in Links : /\ successors'[g][m] <= 1
                                 /\ successors'[g][m] > 0 => token'[g][m].state = "revoked"
  BY <1>7 DEF SessionInv
<1>9. successors[f][n] = 0
  <2>1. successors[f][n] \in Nat
    BY DEF SessionInv, TokenTyped
  <2>2. ~(successors[f][n] > 0)
    BY DEF SessionInv
  <2> QED BY <2>1, <2>2
<1>10. ASSUME NEW q \in Refreshes, refresh'[q].at = "issue"
       PROVE  /\ token'[refresh'[q].family][refresh'[q].link].state = "revoked"
              /\ successors'[refresh'[q].family][refresh'[q].link] = 0
  <2>1. CASE q = r
    BY <1>9, <2>1
  <2>2. CASE q # r
    <3>1. /\ refresh'[q] = refresh[q]
          /\ refresh[q].family \in Families /\ refresh[q].link \in Links
      BY <2>2, RequestFields DEF SessionInv
    <3>2. /\ token[refresh[q].family][refresh[q].link].state = "revoked"
          /\ successors[refresh[q].family][refresh[q].link] = 0
      BY <1>10, <3>1 DEF SessionInv
    <3> QED BY <1>7, <3>1, <3>2
  <2> QED BY <2>1, <2>2
<1> QED BY <1>6, <1>8, <1>10 DEF SessionInv

\* A request that ends: it presents no token any more.
LEMMA RequestEnds ==
  ASSUME TokenTyped, NEW r \in Refreshes, refresh' = [refresh EXCEPT ![r] = Spare]
  PROVE  /\ refresh' \in [Refreshes -> Requests] /\ refresh'[r].at = "idle"
         /\ \A q \in Refreshes \ {r} : refresh'[q] = refresh[q]
<1>1. Spare \in Requests /\ Spare.at = "idle"
  BY SessionAssumption DEF Spare, Links, Requests
<1> QED BY <1>1 DEF TokenTyped

\* A token that is issued leaves the rows what they are.
LEMMA IssueTyped ==
  ASSUME SessionInv, NEW f \in Families, Issues(f), Cardinality(Issued(f)) < MaxChain
  PROVE  token' \in [Families -> [Links -> TokenRows]]
<1> DEFINE k == Cardinality(Issued(f)) + 1
<1>1. k \in Links
  BY NextLink
<1>2. token' = [token EXCEPT ![f][k].state = "live"]
  BY DEF Issues
<1> HIDE DEF k
<1> QED BY <1>1, <1>2, RowWritten DEF SessionInv, TokenTyped

LEMMA SessionKeeps == SessionInv /\ [SessionNext]_sessionVars => SessionInv'
<1> SUFFICES ASSUME SessionInv, [SessionNext]_sessionVars PROVE SessionInv'
  OBVIOUS
<1>0. TokenTyped
  BY DEF SessionInv
<1>1. ASSUME NEW f \in Families, LogsIn(f) PROVE SessionInv'
  <2>1. /\ Issued(f) = {} /\ Issues(f) /\ refresh' = refresh /\ successors' = successors
    BY <1>1 DEF LogsIn
  <2>2. Cardinality(Issued(f)) < MaxChain
    <3>1. Cardinality(Issued(f)) = 0
      BY <2>1, FS_EmptySet
    <3> QED BY <3>1, SessionAssumption
  <2>3. Active(f) = {}
    BY <2>1 DEF Active, Issued
  <2>4. Issuing(f)' = {}
    <3>1. ASSUME NEW r \in Issuing(f)' PROVE FALSE
      <4>1. refresh[r].at = "issue" /\ refresh[r].family = f /\ r \in Refreshes
        BY <2>1, <3>1 DEF Issuing
      <4>2. refresh[r].link \in Links
        BY <1>0, <4>1, RequestFields
      <4>3. token[f][refresh[r].link].state = "revoked"
        BY <4>1 DEF SessionInv
      <4> QED BY <2>1, <4>2, <4>3 DEF Issued
    <3> QED BY <3>1
  <2>5. TokenTyped'
    BY <1>0, <2>1, <2>2, IssueTyped DEF TokenTyped
  <2>6. \A r \in Refreshes : refresh'[r] = refresh[r] \/ refresh'[r].at # "issue"
    BY <2>1
  <2> QED BY <2>1, <2>2, <2>3, <2>4, <2>5, <2>6, IssueKeeps
<1>2. ASSUME NEW f \in Families, RevokeFamily(f) PROVE SessionInv'
  <2>1. token' = [g \in Families |-> IF g \in {f} THEN Revoked(g) ELSE token[g]]
    BY <1>0, <1>2 DEF RevokeFamily, TokenTyped
  <2> QED BY <1>0, <1>2, <2>1, FamilyRevoked DEF RevokeFamily, TokenTyped
<1>3. ASSUME NEW f \in Families, RevokeAllExcept(f) PROVE SessionInv'
  <2>1. token' = [g \in Families |-> IF g \in Families \ {f} THEN Revoked(g) ELSE token[g]]
    BY <1>3 DEF RevokeAllExcept
  <2> QED BY <1>0, <1>3, <2>1, FamilyRevoked DEF RevokeAllExcept, TokenTyped
<1>4. ASSUME NEW f \in Families, NEW n \in Links, TokenExpires(f, n) PROVE SessionInv'
  <2> DEFINE entry == [token[f][n] EXCEPT !.expired = TRUE]
  <2>1. entry \in TokenRows /\ entry.state = token[f][n].state
    <3>1. token[f][n] \in TokenRows
      BY <1>0 DEF TokenTyped
    <3> QED BY <3>1 DEF TokenRows
  <2>2. token' = [token EXCEPT ![f][n] = entry] /\ refresh' = refresh /\ successors' = successors
    BY <1>4 DEF TokenExpires
  <2> HIDE DEF entry
  <2>3. TokenTyped'
    BY <1>0, <2>1, <2>2 DEF TokenTyped
  <2>4. \A g \in Families, m \in Links : token'[g][m].state = token[g][m].state
    BY <1>0, <2>1, <2>2 DEF TokenTyped
  <2> QED BY <2>2, <2>3, <2>4, RevocationKeeps
<1>5. ASSUME NEW r \in Refreshes, FindsToken(r) PROVE SessionInv'
  <2>1. PICK f \in Families, n \in Links :
          refresh' = [refresh EXCEPT ![r] =
            [at |-> IF token[f][n].state = "revoked" THEN "reused" ELSE "claim",
             family |-> f, link |-> n]]
    BY <1>5, Zenon DEF FindsToken
  <2>2. TokenTyped' /\ refresh'[r].at # "issue" /\ token' = token /\ successors' = successors
    BY <1>0, <1>5, <2>1 DEF FindsToken, TokenTyped, Requests
  <2>3. \A q \in Refreshes \ {r} : refresh'[q] = refresh[q]
    BY <1>0, <2>1 DEF TokenTyped
  <2> QED BY <2>2, <2>3, RevocationKeeps
<1>6. ASSUME NEW r \in Refreshes, ClaimsToken(r) PROVE SessionInv'
  <2> DEFINE f == refresh[r].family
             n == refresh[r].link
  <2>0. f \in Families /\ n \in Links
    BY <1>0, RequestFields
  <2>1. refresh[r].at = "claim" /\ successors' = successors
    BY <1>6 DEF ClaimsToken
  <2>2. CASE token[f][n].state # "live"
    <3>1. token' = token /\ refresh' = [refresh EXCEPT ![r].at = "reused"]
      BY <1>6, <2>2 DEF ClaimsToken
    <3>2. /\ refresh' \in [Refreshes -> Requests] /\ refresh'[r].at # "issue"
          /\ \A q \in Refreshes \ {r} : refresh'[q] = refresh[q]
      BY <1>0, <3>1, RequestMoved DEF TokenTyped
    <3> QED BY <1>0, <2>1, <3>1, <3>2, RevocationKeeps DEF TokenTyped
  <2>3. CASE token[f][n].state = "live"
    <3>1. /\ token' = [token EXCEPT ![f][n].state = "revoked"]
          /\ refresh' = [refresh EXCEPT ![r].at = "issue"]
      BY <1>6, <2>3 DEF ClaimsToken
    <3> HIDE DEF f, n
    <3>2. /\ token' \in [Families -> [Links -> TokenRows]] /\ token'[f][n].state = "revoked"
          /\ \A m \in Links \ {n} : token'[f][m] = token[f][m]
          /\ \A g \in Families \ {f} : token'[g] = token[g]
      BY <1>0, <2>0, <3>1, RowWritten DEF TokenTyped
    <3>3. /\ refresh' \in [Refreshes -> Requests] /\ refresh'[r].at = "issue"
          /\ refresh'[r].family = f /\ refresh'[r].link = n
          /\ refresh[r].family = f /\ refresh[r].link = n
          /\ \A q \in Refreshes \ {r} : refresh'[q] = refresh[q]
      BY <1>0, <3>1, RequestMoved DEF TokenTyped, f, n
    <3>4. TokenTyped'
      BY <1>0, <2>1, <3>2, <3>3 DEF TokenTyped
    <3> QED BY <2>0, <2>1, <2>3, <3>2, <3>3, <3>4, ClaimKeeps
  <2> QED BY <2>2, <2>3
<1>7. ASSUME NEW r \in Refreshes, IssuesSuccessor(r) PROVE SessionInv'
  <2>0. PICK f \in Families, n \in Links : refresh[r].family = f /\ refresh[r].link = n
    BY <1>0, RequestFields
  <2>1. /\ refresh[r].at = "issue" /\ Cardinality(Issued(f)) < MaxChain /\ Issues(f)
        /\ successors' = [successors EXCEPT ![f][n] = @ + 1]
        /\ refresh' = [refresh EXCEPT ![r] = Spare]
    BY <1>7, <2>0 DEF IssuesSuccessor
  <2>2. /\ r \in Issuing(f) /\ token[f][n].state = "revoked" /\ successors[f][n] = 0
    BY <2>0, <2>1 DEF Issuing, SessionInv
  <2>3. /\ refresh' \in [Refreshes -> Requests] /\ refresh'[r].at = "idle"
        /\ \A q \in Refreshes \ {r} : refresh'[q] = refresh[q]
    BY <1>0, <2>1, RequestEnds
  <2>4. Active(f) = {} /\ \A q \in Issuing(f) : q = r
    BY <2>0, <2>2 DEF SessionInv
  <2>5. Issuing(f)' = {}
    <3>1. ASSUME NEW q \in Issuing(f)' PROVE FALSE
      <4>1. q \in Refreshes /\ q # r /\ refresh'[q].at = "issue" /\ refresh'[q].family = f
        BY <2>3, <3>1 DEF Issuing
      <4>2. q \in Issuing(f)
        BY <2>3, <4>1 DEF Issuing
      <4> QED BY <2>4, <4>1, <4>2
    <3> QED BY <3>1
  <2>6. successors' \in [Families -> [Links -> Nat]]
    BY <1>0, <2>0, <2>1 DEF TokenTyped
  <2>7. TokenTyped'
    BY <2>0, <2>1, <2>3, <2>6, IssueTyped DEF TokenTyped
  <2>8. \A q \in Refreshes : refresh'[q] = refresh[q] \/ refresh'[q].at # "issue"
    BY <2>3
  <2>9. \E m \in Links : /\ token[f][m].state = "revoked" /\ successors[f][m] = 0
                         /\ successors' = [successors EXCEPT ![f][m] = @ + 1]
    BY <2>0, <2>1, <2>2
  <2> QED BY <2>0, <2>1, <2>4, <2>5, <2>7, <2>8, <2>9, IssueKeeps
<1>8. ASSUME NEW r \in Refreshes, RevokesReused(r) PROVE SessionInv'
  <2> DEFINE f == refresh[r].family
  <2>0. f \in Families
    BY <1>0, RequestFields
  <2>1. /\ token' = [token EXCEPT ![f] = Revoked(f)]
        /\ successors' = successors /\ refresh' = [refresh EXCEPT ![r] = Spare]
    BY <1>8 DEF RevokesReused
  <2> HIDE DEF f
  <2>2. token' = [g \in Families |-> IF g \in {f} THEN Revoked(g) ELSE token[g]]
    BY <1>0, <2>1 DEF TokenTyped
  <2>3. /\ refresh' \in [Refreshes -> Requests]
        /\ \A q \in Refreshes : refresh'[q] = refresh[q] \/ refresh'[q].at # "issue"
    BY <1>0, <2>1, RequestEnds
  <2>4. {f} \in SUBSET Families
    BY <2>0
  <2>5. successors' = successors
    BY <2>1
  <2> QED BY <2>2, <2>3, <2>4, <2>5, FamilyRevoked
<1>9. ASSUME NEW r \in Refreshes, RefreshDies(r) PROVE SessionInv'
  <2>1. /\ token' = token /\ successors' = successors
        /\ refresh' = [refresh EXCEPT ![r] = Spare]
    BY <1>9 DEF RefreshDies
  <2>2. /\ refresh' \in [Refreshes -> Requests]
        /\ \A q \in Refreshes : refresh'[q] = refresh[q] \/ refresh'[q].at # "issue"
    BY <1>0, <2>1, RequestEnds
  <2> QED BY <1>0, <2>1, <2>2, RevocationKeeps DEF TokenTyped
<1>10. CASE UNCHANGED sessionVars
  <2>1. TokenTyped'
    BY <1>0, <1>10 DEF TokenTyped, sessionVars
  <2> QED BY <1>10, <2>1, RevocationKeeps DEF sessionVars
<1> QED BY <1>1, <1>2, <1>3, <1>4, <1>5, <1>6, <1>7, <1>8, <1>9, <1>10 DEF SessionNext

LEMMA SessionSuffices == SessionInv => SessionTypeOK /\ OneSuccessor
<1> SUFFICES ASSUME SessionInv PROVE SessionTypeOK /\ OneSuccessor
  OBVIOUS
<1>1. \A f \in Families : Cardinality(Active(f)) <= 1
  <2>1. \A f \in Families : \A m, n \in Active(f) : m = n
    BY DEF SessionInv
  <2> QED BY <2>1, AtMostOne
<1> QED BY <1>1 DEF SessionInv, TokenTyped, TokenRows, Requests, SessionTypeOK, OneSuccessor

-------------------------------------------------------------------------------
(* AuditLog: whoever writes links to the entry it read; while no write raced *)
(* the rows that are left are linked to each other, and while no prune is  *)
(* under way or died the oldest of them is linked to the anchor.           *)

LogRows == [id : Int, prev : 0 .. MaxRows]

AuditInv ==
  /\ log \in Seq(LogRows)
  /\ \A n \in 1 .. Len(log) : log[n].id = written - Len(log) + n
  /\ anchor \in 0 .. MaxRows /\ writer \in [Writers -> 0 .. Unread]
  /\ pruning \in {"idle", "deleted"} /\ written \in 0 .. MaxRows
  /\ raced \in BOOLEAN /\ unanchored \in BOOLEAN
  /\ ~raced => \A n \in 2 .. Len(log) : log[n].prev = log[n - 1].id
  /\ ~raced /\ ~unanchored /\ pruning = "idle" /\ log # <<>> => log[1].prev = anchor

LEMMA AuditStart == AuditInit => AuditInv
<1> SUFFICES ASSUME AuditInit PROVE AuditInv
  OBVIOUS
<1>1. log = <<>> /\ log \in Seq(LogRows) /\ Len(log) = 0
  BY EmptySeq DEF AuditInit
<1>2. 0 \in 0 .. MaxRows /\ Unread \in 0 .. Unread
  BY AuditAssumption DEF Unread
<1>3. 1 .. Len(log) = {} /\ 2 .. Len(log) = {}
  BY <1>1
<1>4. writer \in [Writers -> 0 .. Unread]
  BY <1>2 DEF AuditInit
<1> QED BY <1>1, <1>2, <1>3, <1>4 DEF AuditInit, AuditInv, Genesis

\* The hash of the last row is one of a row that was written.
LEMMA LastWritten == AuditInv => LastHash = IF log = <<>> THEN 0 ELSE written
<1> SUFFICES ASSUME AuditInv, log # <<>> PROVE log[Len(log)].id = written
  BY DEF LastHash, Genesis
<1>1. Len(log) \in Nat \ {0} /\ Len(log) \in 1 .. Len(log)
  BY EmptySeq, LenProperties DEF AuditInv
<1> QED BY <1>1 DEF AuditInv

LEMMA AuditKeeps == AuditInv /\ [AuditNext]_auditVars => AuditInv'
<1> SUFFICES ASSUME AuditInv, [AuditNext]_auditVars PROVE AuditInv'
  OBVIOUS
<1> USE AuditAssumption
<1>0. /\ log \in Seq(LogRows) /\ Len(log) \in Nat
      /\ \A n \in 1 .. Len(log) : log[n] \in LogRows
  BY LenProperties, ElementOfSeq DEF AuditInv
<1>1. ASSUME NEW w \in Writers, ReadsPrev(w) PROVE AuditInv'
  <2>1. LastHash \in 0 .. Unread
    BY LastWritten DEF AuditInv, Unread
  <2>2. /\ writer' \in [Writers -> 0 .. Unread]
        /\ UNCHANGED <<log, anchor, pruning, written, raced, unanchored>>
    BY <1>1, <2>1 DEF ReadsPrev, AuditInv
  <2> QED BY <2>2 DEF AuditInv
<1>2. ASSUME NEW w \in Writers, Appends(w) PROVE AuditInv'
  <2>0. /\ writer[w] \in 0 .. MaxRows /\ written < MaxRows
        /\ UNCHANGED <<anchor, pruning, unanchored>>
    <3>1. writer[w] \in 0 .. MaxRows + 1 /\ writer[w] # MaxRows + 1
      BY <1>2 DEF Appends, AuditInv, Unread
    <3> QED BY <1>2, <3>1 DEF Appends
  <2>1. writer' \in [Writers -> 0 .. Unread]
    <3>1. writer' = [writer EXCEPT ![w] = Unread] /\ Unread \in 0 .. Unread
      BY <1>2 DEF Appends, Unread
    <3> QED BY <3>1 DEF AuditInv
  <2>2. CASE UNCHANGED <<log, written, raced>>
    BY <2>0, <2>1, <2>2 DEF AuditInv
  <2>3. ASSUME log' = Append(log, [id |-> written + 1, prev |-> writer[w]]),
               written' = written + 1,
               raced' = (raced \/ writer[w] # IF log = <<>> THEN anchor ELSE LastHash)
        PROVE  AuditInv'
    <3> DEFINE entry == [id |-> written + 1, prev |-> writer[w]]
    <3>1. entry \in LogRows /\ entry.id = written + 1 /\ entry.prev = writer[w]
      BY <2>0 DEF LogRows, AuditInv
    <3> HIDE DEF entry
    <3>2. log' = Append(log, entry)
      BY <2>3 DEF entry
    <3>3. /\ log' \in Seq(LogRows) /\ log' # <<>> /\ Len(log') = Len(log) + 1
          /\ \A n \in 1 .. Len(log) : log'[n] = log[n]
          /\ log'[Len(log) + 1] = entry
      BY <1>0, <3>1, <3>2, AppendProperties
    <3>4. \A n \in 1 .. Len(log') : log'[n].id = written' - Len(log') + n
      <4>1. ASSUME NEW n \in 1 .. Len(log) + 1 PROVE log'[n].id = written' - Len(log') + n
        <5>1. CASE n \in 1 .. Len(log)
          BY <1>0, <2>3, <3>3, <5>1 DEF AuditInv
        <5>2. CASE n = Len(log) + 1
          BY <1>0, <2>3, <3>1, <3>3, <5>2 DEF AuditInv
        <5> QED BY <1>0, <5>1, <5>2
      <4> QED BY <3>3, <4>1
    <3>5. written' \in 0 .. MaxRows /\ raced' \in BOOLEAN
      BY <2>0, <2>3 DEF AuditInv
    <3>6. ASSUME ~raced' PROVE ~raced /\ writer[w] = IF log = <<>> THEN anchor ELSE written
      BY <2>3, <3>6, LastWritten
    <3>7. ASSUME ~raced', NEW n \in 2 .. Len(log') PROVE log'[n].prev = log'[n - 1].id
      <4>1. CASE n \in 2 .. Len(log)
        <5>1. n \in 1 .. Len(log) /\ n - 1 \in 1 .. Len(log)
          BY <1>0, <4>1
        <5> QED BY <3>3, <3>6, <3>7, <4>1, <5>1 DEF AuditInv
      <4>2. CASE n = Len(log) + 1
        <5>1. n - 1 = Len(log) /\ Len(log) \in 1 .. Len(log) /\ log # <<>>
          BY <1>0, <3>3, <3>7, <4>2, EmptySeq
        <5>2. log'[n - 1].id = written
          <6>1. log'[Len(log)] = log[Len(log)]
            BY <1>0, <3>3, <5>1
          <6>2. log[Len(log)].id = written
            BY <1>0, <5>1 DEF AuditInv
          <6> QED BY <5>1, <6>1, <6>2
        <5> QED BY <3>1, <3>3, <3>6, <3>7, <4>2, <5>1, <5>2
      <4> QED BY <1>0, <3>3, <3>7, <4>1, <4>2
    <3>8. ASSUME ~raced', ~unanchored', pruning' = "idle" PROVE log'[1].prev = anchor'
      <4>1. CASE log = <<>>
        BY <2>0, <3>1, <3>3, <3>6, <3>8, <4>1, EmptySeq
      <4>2. CASE log # <<>>
        <5>1. 1 \in 1 .. Len(log)
          BY <1>0, <4>2, EmptySeq
        <5> QED BY <2>0, <3>3, <3>6, <3>8, <4>2, <5>1 DEF AuditInv
      <4> QED BY <4>1, <4>2
    <3> QED BY <2>0, <2>1, <3>3, <3>4, <3>5, <3>7, <3>8 DEF AuditInv
  <2> QED BY <1>2, <2>2, <2>3 DEF Appends
<1>3. ASSUME NEW n \in 1 .. MaxRows, Prunes(n) PROVE AuditInv'
  <2>1. /\ n \in 1 .. Len(log) /\ log' = SubSeq(log, n + 1, Len(log)) /\ pruning' = "deleted"
        /\ UNCHANGED <<anchor, writer, written, raced, unanchored>>
    BY <1>3 DEF Prunes
  <2>2. /\ log' \in Seq(LogRows)
        /\ Len(log') = Len(log) - n
        /\ \A i \in 1 .. Len(log) - n : log'[i] = log[i + n]
    <3>1. \A i \in n + 1 .. Len(log) : log[i] \in LogRows
      BY <1>0
    <3>2. n + 1 \in Int /\ Len(log) \in Int
      BY <1>0
    <3>3. /\ log' \in Seq(LogRows)
          /\ Len(log') = IF n + 1 <= Len(log) THEN Len(log) - (n + 1) + 1 ELSE 0
          /\ \A i \in 1 .. Len(log) - (n + 1) + 1 : log'[i] = log[n + 1 + i - 1]
      BY <2>1, <3>1, <3>2, SubSeqProperties
    <3>4. Len(log') = Len(log) - n
      BY <1>0, <2>1, <3>3
    <3>5. ASSUME NEW i \in 1 .. Len(log) - n PROVE log'[i] = log[i + n]
      <4>1. i \in 1 .. Len(log) - (n + 1) + 1 /\ n + 1 + i - 1 = i + n
        BY <1>0
      <4> QED BY <3>3, <4>1
    <3> QED BY <3>3, <3>4, <3>5
  <2>3. \A i \in 1 .. Len(log') : log'[i].id = written - Len(log') + i
    <3>1. ASSUME NEW i \in 1 .. Len(log) - n PROVE log'[i].id = written - (Len(log) - n) + i
      <4>1. i + n \in 1 .. Len(log)
        BY <1>0
      <4>2. log'[i].id = written - Len(log) + (i + n)
        BY <2>2, <4>1 DEF AuditInv
      <4>3. written \in Int
        BY DEF AuditInv
      <4> QED BY <1>0, <4>2, <4>3
    <3> QED BY <2>2, <3>1
  <2>4. ASSUME ~raced, NEW i \in 2 .. Len(log') PROVE log'[i].prev = log'[i - 1].id
    <3>1. /\ i + n \in 2 .. Len(log) /\ i \in 1 .. Len(log) - n
          /\ i - 1 \in 1 .. Len(log) - n /\ (i - 1) + n = (i + n) - 1
      BY <1>0, <2>2, <2>4
    <3> QED BY <2>2, <2>4, <3>1 DEF AuditInv
  <2> QED BY <2>1, <2>2, <2>3, <2>4 DEF AuditInv
<1>4. CASE Anchors
  <2>1. /\ anchor' = SurvivorPrev /\ pruning' = "idle"
        /\ UNCHANGED <<log, writer, written, raced, unanchored>>
    BY <1>4 DEF Anchors
  <2>2. CASE log = <<>>
    BY <2>1, <2>2 DEF SurvivorPrev, Genesis, AuditInv
  <2>3. CASE log # <<>>
    <3>1. log[1].prev \in 0 .. MaxRows
      <4>1. 1 \in 1 .. Len(log)
        BY <1>0, <2>3, EmptySeq
      <4> QED BY <1>0, <4>1 DEF LogRows
    <3> QED BY <2>1, <2>3, <3>1 DEF SurvivorPrev, AuditInv
  <2> QED BY <2>2, <2>3
<1>5. CASE PruneDies
  BY <1>5 DEF PruneDies, AuditInv
<1>6. CASE UNCHANGED auditVars
  BY <1>6 DEF auditVars, AuditInv
<1> QED BY <1>1, <1>2, <1>3, <1>4, <1>5, <1>6 DEF AuditNext

LEMMA AuditSuffices == AuditInv => AuditTypeOK /\ ChainVerifies
<1> SUFFICES ASSUME AuditInv PROVE AuditTypeOK /\ ChainVerifies
  OBVIOUS
<1>1. Len(log) \in Nat /\ \A n \in 1 .. Len(log) : log[n] \in LogRows
  BY LenProperties, ElementOfSeq DEF AuditInv
<1>2. AuditTypeOK
  BY <1>1 DEF AuditInv, AuditTypeOK, LogRows
<1>3. ASSUME ~raced, ~unanchored, pruning = "idle", NEW n \in 1 .. Len(log)
      PROVE  log[n].prev = IF n = 1 THEN anchor ELSE log[n - 1].id
  <2>1. log # <<>>
    BY <1>1, EmptySeq
  <2>2. n # 1 => n \in 2 .. Len(log)
    BY <1>1
  <2> QED BY <1>3, <2>1, <2>2 DEF AuditInv
<1> QED BY <1>2, <1>3 DEF ChainVerifies, Linked

-------------------------------------------------------------------------------
(* AdvisoryCycles: the lock is in one session at most, and a cycle that    *)
(* runs is on the session that has it.                                     *)

CycleTyped ==
  /\ locks \in [Place -> 0 .. MaxDepth]
  /\ using \in [Place -> {"free", "asking", "running", "severed"}]
  /\ executing \in [Replicas -> Sessions \union {NoSession}]
  /\ drain \in [Replicas -> {"starting", "running", "draining", "drained"}]
  /\ overran \subseteq Replicas

CycleInv ==
  /\ CycleTyped
  /\ \A s \in Place : using[s] = "running" => locks[s] > 0
  /\ \A s, t \in Place : locks[s] > 0 /\ locks[t] > 0 => s = t
  /\ \A s \in Place : using[s] # "free" /\ drain[s[1]] = "drained" => s[1] \in overran

LEMMA CycleStart == CycleInit => CycleInv
<1> SUFFICES ASSUME CycleInit PROVE CycleInv
  OBVIOUS
<1>1. CycleTyped
  BY CycleAssumption DEF CycleInit, CycleTyped
<1> QED BY <1>1 DEF CycleInit, CycleInv

\* What a step does to one session, its replica no more drained than it was.
LEMMA SessionMoves ==
  ASSUME CycleInv, CycleTyped', NEW s \in Place,
         \A t \in Place \ {s} : using'[t] = using[t] /\ locks'[t] = locks[t],
         using'[s] = "running" => locks'[s] > 0,
         locks'[s] > 0 => \A t \in Place : locks[t] > 0 => t = s,
         \A r \in Replicas : drain'[r] = "drained" => drain[r] = "drained",
         using'[s] # "free" /\ drain[s[1]] = "drained" => using[s] # "free",
         overran' = overran
  PROVE  CycleInv'
<1>1. ASSUME NEW t \in Place PROVE using'[t] = "running" => locks'[t] > 0
  BY DEF CycleInv
<1>2. ASSUME NEW t \in Place, NEW u \in Place, locks'[t] > 0, locks'[u] > 0 PROVE t = u
  <2>1. CASE t # s /\ u # s
    BY <1>2, <2>1 DEF CycleInv
  <2>2. CASE t = s \/ u = s
    BY <1>2, <2>2
  <2> QED BY <2>1, <2>2
<1>3. ASSUME NEW t \in Place, using'[t] # "free", drain'[t[1]] = "drained"
      PROVE  t[1] \in overran'
  <2>1. t[1] \in Replicas
    BY DEF Place
  <2>2. using[t] # "free" /\ drain[t[1]] = "drained"
    BY <1>3, <2>1
  <2> QED BY <2>2 DEF CycleInv
<1> QED BY <1>1, <1>2, <1>3 DEF CycleInv

\* release() gives the session back, whatever it holds.
LEMMA ReleaseTyped ==
  ASSUME CycleTyped, NEW s \in Place, Releases(s)
  PROVE  /\ using' \in [Place -> {"free", "asking", "running", "severed"}]
         /\ executing' \in [Replicas -> Sessions \union {NoSession}]
         /\ using'[s] = "free" /\ \A t \in Place \ {s} : using'[t] = using[t]
<1>1. s[1] \in Replicas
  BY DEF Place
<1>2. using' \in [Place -> {"free", "asking", "running", "severed"}]
      /\ using'[s] = "free" /\ \A t \in Place \ {s} : using'[t] = using[t]
  BY DEF Releases, CycleTyped
<1>3. executing' \in [Replicas -> Sessions \union {NoSession}]
  BY <1>1 DEF Releases, CycleTyped
<1> QED BY <1>2, <1>3

LEMMA CycleKeeps == CycleInv /\ [CycleNext]_cycleVars => CycleInv'
<1> SUFFICES ASSUME CycleInv, [CycleNext]_cycleVars PROVE CycleInv'
  OBVIOUS
<1>0. CycleTyped /\ MaxDepth \in Nat \ {0}
  BY CycleAssumption DEF CycleInv
<1>1. ASSUME NEW s \in Place, FirstCycle(s) PROVE CycleInv'
  <2>1. s[1] \in Replicas
    BY DEF Place
  <2>2. /\ CycleTyped' /\ \A t \in Place \ {s} : using'[t] = using[t]
        /\ using'[s] = "asking" /\ locks' = locks /\ overran' = overran
        /\ drain[s[1]] = "starting" /\ drain'[s[1]] = "running"
        /\ \A r \in Replicas \ {s[1]} : drain'[r] = drain[r]
    BY <1>0, <1>1, <2>1 DEF FirstCycle, CycleTyped
  <2> QED BY <2>2, SessionMoves DEF CycleInv
<1>2. ASSUME NEW s \in Place, Tick(s) PROVE CycleInv'
  <2>1. s[1] \in Replicas /\ s[2] \in Sessions
    BY DEF Place
  <2>2. /\ CycleTyped' /\ \A t \in Place \ {s} : using'[t] = using[t]
        /\ using'[s] = "asking" /\ locks' = locks /\ overran' = overran
        /\ drain[s[1]] = "running" /\ drain' = drain
    BY <1>0, <1>2, <2>1 DEF Tick, CycleTyped
  <2> QED BY <2>2, SessionMoves DEF CycleInv
<1>3. ASSUME NEW s \in Place, TriesLock(s) PROVE CycleInv'
  <2>1. using[s] = "asking" /\ drain' = drain /\ overran' = overran
    BY <1>3 DEF TriesLock
  <2>2. CASE Grants(s)
    <3>1. /\ CycleTyped'
          /\ \A t \in Place \ {s} : using'[t] = using[t] /\ locks'[t] = locks[t]
          /\ using'[s] = "running" /\ locks'[s] = locks[s] + 1 /\ locks[s] \in Nat
      BY <1>0, <1>3, <2>2 DEF TriesLock, CycleTyped
    <3>2. \A t \in Place : locks[t] > 0 => t = s
      BY <2>2 DEF Grants, Held
    <3>3. locks'[s] > 0
      BY <3>1
    <3> QED BY <2>1, <3>1, <3>2, <3>3, SessionMoves
  <2>3. CASE ~Grants(s)
    <3>1. Releases(s) /\ locks' = locks
      BY <1>3, <2>3 DEF TriesLock
    <3>2. CycleTyped' /\ using'[s] = "free" /\ \A t \in Place \ {s} : using'[t] = using[t]
      BY <1>0, <2>1, <3>1, ReleaseTyped DEF CycleTyped
    <3> QED BY <2>1, <3>1, <3>2, SessionMoves DEF CycleInv
  <2> QED BY <2>2, <2>3
<1>4. ASSUME NEW s \in Place, Unlocks(s) PROVE CycleInv'
  <2>1. using[s] = "running" /\ Releases(s) /\ drain' = drain /\ overran' = overran
    BY <1>4 DEF Unlocks
  <2>2. locks[s] > 0 /\ \A t \in Place : locks[t] > 0 => t = s
    BY <2>1 DEF CycleInv
  <2>3. locks' \in [Place -> 0 .. MaxDepth] /\ \A t \in Place \ {s} : locks'[t] = locks[t]
    BY <1>0, <1>4, <2>2 DEF Unlocks, CycleTyped
  <2>4. CycleTyped' /\ using'[s] = "free" /\ \A t \in Place \ {s} : using'[t] = using[t]
    BY <1>0, <2>1, <2>3, ReleaseTyped DEF CycleTyped
  <2> QED BY <2>1, <2>2, <2>3, <2>4, SessionMoves
<1>5. ASSUME NEW s \in Place, SessionEnds(s) PROVE CycleInv'
  <2>1. /\ CycleTyped' /\ locks'[s] = 0 /\ drain' = drain /\ overran' = overran
        /\ \A t \in Place \ {s} : using'[t] = using[t] /\ locks'[t] = locks[t]
        /\ using'[s] # "running" /\ (using'[s] # "free" => using[s] # "free")
    BY <1>0, <1>5 DEF SessionEnds, CycleTyped
  <2> QED BY <2>1, SessionMoves
<1>6. ASSUME NEW s \in Place, SeveredEnds(s) PROVE CycleInv'
  <2>1. Releases(s) /\ UNCHANGED <<locks, drain, overran>>
    BY <1>6 DEF SeveredEnds
  <2>2. CycleTyped' /\ using'[s] = "free" /\ \A t \in Place \ {s} : using'[t] = using[t]
    BY <1>0, <2>1, ReleaseTyped DEF CycleTyped
  <2> QED BY <2>1, <2>2, SessionMoves DEF CycleInv
<1>7. ASSUME NEW r \in Replicas, BeginDrain(r) PROVE CycleInv'
  BY <1>0, <1>7 DEF BeginDrain, CycleInv, CycleTyped, Place
<1>8. ASSUME NEW r \in Replicas, Drains(r) PROVE CycleInv'
  BY <1>0, <1>8 DEF Drains, InFlight, CycleInv, CycleTyped, Place
<1>9. ASSUME NEW r \in Replicas, GraceExpires(r) PROVE CycleInv'
  BY <1>0, <1>9 DEF GraceExpires, CycleInv, CycleTyped, Place
<1>10. CASE UNCHANGED cycleVars
  BY <1>10 DEF cycleVars, CycleInv, CycleTyped, Place
<1> QED BY <1>1, <1>2, <1>3, <1>4, <1>5, <1>6, <1>7, <1>8, <1>9, <1>10 DEF CycleNext

LEMMA CycleSuffices == CycleInv => CycleTypeOK /\ OneCycle
<1> SUFFICES ASSUME CycleInv PROVE CycleTypeOK /\ OneCycle
  OBVIOUS
<1>1. CycleTypeOK
  BY DEF CycleInv, CycleTyped, CycleTypeOK, InFlight, Place
<1> DEFINE running == {s \in Place : using[s] = "running"}
<1>2. \A s, t \in running : s = t
  BY DEF CycleInv
<1>3. Cardinality(running) <= 1
  BY <1>2, AtMostOne
<1> QED BY <1>1, <1>3 DEF CycleInv, OneCycle

-------------------------------------------------------------------------------
(* PostgresFailover, the daemons: who is to write the Lease as it read it  *)
(* found it free for it, and nobody has written since; a daemon that has   *)
(* created its Job is on no way to another before a healthy probe.         *)

Rounds == [at : {"sleep", "renew", "renewing", "seek", "seizing", "create"},
           fails : 0 .. Threshold, aliased : BOOLEAN, initiated : BOOLEAN,
           current : BOOLEAN, retries : 0 .. 1]

DaemonInv ==
  /\ daemon \in [Daemons -> Rounds]
  /\ primaryLease \in [holder : Daemons \union {Nobody, Alias}, fresh : BOOLEAN]
  /\ created \in [Daemons -> Nat] /\ stolen = FALSE
  /\ \A d \in Daemons :
       /\ daemon[d].at \in {"renewing", "seizing"} /\ daemon[d].current =>
            primaryLease.holder \in {Nobody, Name(d)} \/ ~primaryLease.fresh
       /\ daemon[d].at \in {"seek", "seizing", "create"} => ~daemon[d].initiated
       /\ created[d] <= 1
       /\ ~daemon[d].initiated => created[d] = 0

LEMMA DaemonStart == DaemonInit => DaemonInv
<1> SUFFICES ASSUME DaemonInit PROVE DaemonInv
  OBVIOUS
<1>1. Started \in Rounds /\ Started.at = "sleep" /\ Started.initiated = FALSE
  BY FailoverAssumption DEF Started, Rounds
<1>2. primaryLease \in [holder : Daemons \union {Nobody, Alias}, fresh : BOOLEAN]
  BY DEF DaemonInit
<1> QED BY <1>1, <1>2 DEF DaemonInit, DaemonInv

\* A step of one daemon that leaves the Lease alone.
LEMMA RoundMoves ==
  ASSUME DaemonInv, NEW d \in Daemons, NEW to \in Rounds,
         daemon' = [daemon EXCEPT ![d] = to], created' \in [Daemons -> Nat],
         \A e \in Daemons \ {d} : created'[e] = created[e],
         primaryLease' = primaryLease, stolen' = stolen,
         to.at \in {"renewing", "seizing"} /\ to.current =>
           primaryLease.holder \in {Nobody, Name(d)'} \/ ~primaryLease.fresh,
         to.at \in {"seek", "seizing", "create"} => ~to.initiated,
         created'[d] <= 1, ~to.initiated => created'[d] = 0
  PROVE  DaemonInv'
<1>1. /\ daemon' \in [Daemons -> Rounds] /\ daemon'[d] = to
      /\ \A e \in Daemons \ {d} : daemon'[e] = daemon[e] /\ created'[e] = created[e]
  BY DEF DaemonInv
<1>2. \A e \in Daemons \ {d} : Name(e)' = Name(e)
  BY <1>1 DEF Name
<1> QED BY <1>1, <1>2 DEF DaemonInv

LEMMA DaemonKeeps == DaemonInv /\ [DaemonNext]_daemonVars => DaemonInv'
<1> SUFFICES ASSUME DaemonInv, [DaemonNext]_daemonVars PROVE DaemonInv'
  OBVIOUS
<1>0. /\ daemon \in [Daemons -> Rounds] /\ created \in [Daemons -> Nat]
      /\ Threshold \in Nat \ {0}
      /\ \A d \in Daemons : daemon[d] \in Rounds /\ created[d] \in Nat /\ created[d] <= 1
  BY FailoverAssumption DEF DaemonInv
<1>1. ASSUME NEW d \in Daemons, HealthyProbe(d) PROVE DaemonInv'
  <2> DEFINE to == [daemon[d] EXCEPT !.at = "renew", !.fails = 0, !.initiated = FALSE,
                                     !.retries = 0]
  <2>0. daemon[d] \in Rounds /\ 0 \in 0 .. Threshold /\ 0 \in 0 .. 1
    BY <1>0
  <2>1. to \in Rounds /\ to.at = "renew"
    BY <2>0, Zenon DEF Rounds
  <2>2. /\ daemon' = [daemon EXCEPT ![d] = to]
        /\ primaryLease' = primaryLease /\ stolen' = stolen
    BY <1>1 DEF HealthyProbe
  <2> HIDE DEF to
  <2>3. /\ created' \in [Daemons -> Nat] /\ created'[d] = 0
        /\ \A e \in Daemons \ {d} : created'[e] = created[e]
    BY <1>0, <1>1 DEF HealthyProbe
  <2>4. created'[d] <= 1
    BY <2>3
  <2> QED BY <2>1, <2>2, <2>3, <2>4, RoundMoves, Zenon
<1>2. ASSUME NEW d \in Daemons, FailedProbe(d) PROVE DaemonInv'
  <2>0. /\ daemon[d].at = "sleep" /\ created' = created /\ primaryLease' = primaryLease
        /\ stolen' = stolen
    BY <1>2 DEF FailedProbe
  <2>1. CASE daemon[d].fails + 1 < Threshold /\ daemon' = [daemon EXCEPT ![d].fails = @ + 1]
    <3> DEFINE to == [daemon[d] EXCEPT !.fails = @ + 1]
    <3>1. to \in Rounds /\ to.at = "sleep" /\ to.initiated = daemon[d].initiated
      BY <1>0, <2>0, <2>1 DEF Rounds
    <3>2. daemon' = [daemon EXCEPT ![d] = to]
      BY <2>1
    <3> HIDE DEF to
    <3> QED BY <1>0, <2>0, <3>1, <3>2, RoundMoves DEF DaemonInv
  <2>2. CASE daemon' = [daemon EXCEPT ![d].fails = 0]
    <3> DEFINE to == [daemon[d] EXCEPT !.fails = 0]
    <3>1. to \in Rounds /\ to.at = "sleep" /\ to.initiated = daemon[d].initiated
      BY <1>0, <2>0 DEF Rounds
    <3>2. daemon' = [daemon EXCEPT ![d] = to]
      BY <2>2
    <3> HIDE DEF to
    <3> QED BY <1>0, <2>0, <3>1, <3>2, RoundMoves DEF DaemonInv
  <2>3. CASE /\ ~daemon[d].initiated
             /\ daemon' = [daemon EXCEPT ![d].at = "seek", ![d].retries = 0,
                                         ![d].fails = IF @ < Threshold THEN @ + 1 ELSE @]
    <3> DEFINE to == [daemon[d] EXCEPT !.at = "seek", !.retries = 0,
                                       !.fails = IF @ < Threshold THEN @ + 1 ELSE @]
    <3>0. daemon[d] \in Rounds /\ ~daemon[d].initiated
      BY <1>0, <2>3
    <3>1. to \in Rounds /\ to.at = "seek" /\ ~to.initiated
      <4>1. /\ (IF daemon[d].fails < Threshold THEN daemon[d].fails + 1 ELSE daemon[d].fails)
                 \in 0 .. Threshold
            /\ 0 \in 0 .. 1
        BY <1>0, <3>0 DEF Rounds
      <4> QED BY <3>0, <4>1, Zenon DEF Rounds
    <3>2. daemon' = [daemon EXCEPT ![d] = to]
      BY <2>3
    <3> HIDE DEF to
    <3> QED BY <1>0, <2>0, <3>0, <3>1, <3>2, RoundMoves DEF DaemonInv
  <2> QED BY <1>2, <2>1, <2>2, <2>3 DEF FailedProbe
\* what a round ends with, or leads to, when the Lease is not written
<1>3. ASSUME NEW d \in Daemons, daemon' = Denied(d) \/ daemon' = Throws(d),
             daemon[d].at \in {"renew", "renewing", "seek", "seizing"},
             created' = created, primaryLease' = primaryLease, stolen' = stolen
      PROVE  DaemonInv'
  <2>1. PICK to \in Rounds : /\ daemon' = [daemon EXCEPT ![d] = to] /\ to.at = "sleep"
                             /\ ~to.initiated => ~daemon[d].initiated
    <3> DEFINE aliased == [daemon[d] EXCEPT !.at = "sleep", !.aliased = TRUE]
               begun   == [daemon[d] EXCEPT !.at = "sleep", !.initiated = TRUE, !.fails = 0]
               thrown  == [daemon[d] EXCEPT !.at = "sleep"]
    <3>1. /\ aliased \in Rounds /\ begun \in Rounds /\ thrown \in Rounds
          /\ aliased.at = "sleep" /\ begun.at = "sleep" /\ thrown.at = "sleep"
          /\ aliased.initiated = daemon[d].initiated /\ begun.initiated
          /\ thrown.initiated = daemon[d].initiated
      <4>1. daemon[d] \in Rounds /\ 0 \in 0 .. Threshold
        BY <1>0
      <4> QED BY <4>1, Zenon DEF Rounds
    <3>2. \/ daemon' = [daemon EXCEPT ![d] = aliased] \/ daemon' = [daemon EXCEPT ![d] = begun]
          \/ daemon' = [daemon EXCEPT ![d] = thrown]
      BY <1>3 DEF Denied, Throws
    <3> HIDE DEF aliased, begun, thrown
    <3> QED BY <3>1, <3>2
  <2> QED BY <1>0, <1>3, <2>1, RoundMoves DEF DaemonInv
<1>4. ASSUME NEW d \in Daemons, GetsLease(d) PROVE DaemonInv'
  <2>0. /\ daemon[d].at \in {"renew", "seek"} /\ primaryLease' = primaryLease
        /\ created' = created /\ stolen' = stolen
    BY <1>4 DEF GetsLease
  <2>1. CASE /\ primaryLease.holder \in {Nobody, Name(d)} \/ ~primaryLease.fresh
             /\ daemon' = [daemon EXCEPT ![d].at = IF @ = "renew" THEN "renewing" ELSE "seizing",
                                         ![d].current = TRUE]
    <3> DEFINE to == [daemon[d] EXCEPT !.at = IF @ = "renew" THEN "renewing" ELSE "seizing",
                                       !.current = TRUE]
    <3>1. /\ to \in Rounds /\ to.at = IF daemon[d].at = "renew" THEN "renewing" ELSE "seizing"
          /\ to.aliased = daemon[d].aliased /\ to.initiated = daemon[d].initiated
      BY <1>0, <2>0 DEF Rounds
    <3>2. daemon' = [daemon EXCEPT ![d] = to]
      BY <2>1
    <3> HIDE DEF to
    <3>3. Name(d)' = Name(d)
      BY <1>0, <2>0, <3>1, <3>2 DEF Name
    <3>4. to.at \in {"seek", "seizing", "create"} => ~to.initiated
      BY <2>0, <3>1 DEF DaemonInv
    <3>5. ~to.initiated => created[d] = 0
      BY <3>1 DEF DaemonInv
    <3>6. primaryLease.holder \in {Nobody, Name(d)'} \/ ~primaryLease.fresh
      BY <2>1, <3>3
    <3> QED BY <1>0, <2>0, <3>1, <3>2, <3>4, <3>5, <3>6, RoundMoves
  <2>2. CASE daemon' = Denied(d) \/ daemon' = Throws(d)
    BY <1>3, <2>0, <2>2
  <2> QED BY <1>4, <2>1, <2>2 DEF GetsLease
<1>5. ASSUME NEW d \in Daemons, PutsLease(d) PROVE DaemonInv'
  <2>0. daemon[d].at \in {"renewing", "seizing"} /\ created' = created
    BY <1>5 DEF PutsLease
  <2>1. ASSUME daemon[d].current, Lands(d), NEW to \in Rounds, ~to.initiated => ~daemon[d].initiated,
               to.at = "create" => daemon[d].at = "seizing" /\ to.initiated = daemon[d].initiated,
               to.at \in {"sleep", "create"},
               daemon' = Overwritten([daemon EXCEPT ![d] = to])
        PROVE  DaemonInv'
    <3>1. /\ primaryLease' \in [holder : Daemons \union {Nobody, Alias}, fresh : BOOLEAN]
          /\ stolen' = FALSE
      BY <2>0, <2>1 DEF Lands, Name, DaemonInv
    <3>2. \A e \in Daemons : [daemon[e] EXCEPT !.current = FALSE] \in Rounds
                             /\ [to EXCEPT !.current = FALSE] \in Rounds
      BY <1>0 DEF Rounds
    <3>3. \A e \in Daemons : daemon'[e] = IF e = d THEN [to EXCEPT !.current = FALSE]
                                          ELSE [daemon[e] EXCEPT !.current = FALSE]
      BY <1>0, <2>1 DEF Overwritten
    <3>4. daemon' \in [Daemons -> Rounds]
      <4>1. daemon' = [e \in Daemons |-> daemon'[e]]
        BY <2>1 DEF Overwritten
      <4> QED BY <3>2, <3>3, <4>1
    <3>5. ASSUME NEW e \in Daemons
          PROVE  /\ daemon'[e].current = FALSE
                 /\ e # d => daemon'[e].at = daemon[e].at
                             /\ daemon'[e].initiated = daemon[e].initiated
                 /\ e = d => daemon'[e].at = to.at /\ daemon'[e].initiated = to.initiated
      BY <1>0, <3>3 DEF Rounds
    <3>6. ASSUME NEW e \in Daemons
          PROVE  /\ daemon'[e].at \in {"seek", "seizing", "create"} => ~daemon'[e].initiated
                 /\ ~daemon'[e].initiated => created[e] = 0
      BY <2>0, <2>1, <3>5 DEF DaemonInv
    <3> QED BY <1>0, <2>0, <3>1, <3>4, <3>5, <3>6 DEF DaemonInv
  <2>2. CASE /\ daemon[d].current /\ Lands(d)
             /\ daemon' = Overwritten(IF daemon[d].at = "renewing"
                                      THEN [daemon EXCEPT ![d].at = "sleep", ![d].aliased = FALSE]
                                      ELSE [daemon EXCEPT ![d].at = "create"])
    <3> DEFINE slept == [daemon[d] EXCEPT !.at = "sleep", !.aliased = FALSE]
               goes  == [daemon[d] EXCEPT !.at = "create"]
    <3>1. /\ slept \in Rounds /\ goes \in Rounds /\ slept.at = "sleep" /\ goes.at = "create"
          /\ slept.initiated = daemon[d].initiated /\ goes.initiated = daemon[d].initiated
      BY <1>0 DEF Rounds
    <3>2. /\ [daemon EXCEPT ![d].at = "sleep", ![d].aliased = FALSE] = [daemon EXCEPT ![d] = slept]
          /\ [daemon EXCEPT ![d].at = "create"] = [daemon EXCEPT ![d] = goes]
      OBVIOUS
    <3> HIDE DEF slept, goes
    <3>3. CASE daemon[d].at = "renewing"
      <4>1. daemon' = Overwritten([daemon EXCEPT ![d] = slept])
        BY <2>2, <3>2, <3>3
      <4> QED BY <2>1, <2>2, <3>1, <4>1
    <3>4. CASE daemon[d].at = "seizing"
      <4>1. daemon' = Overwritten([daemon EXCEPT ![d] = goes])
        BY <2>2, <3>2, <3>4
      <4> QED BY <2>1, <2>2, <3>1, <3>4, <4>1
    <3> QED BY <2>0, <3>3, <3>4
  <2>3. CASE daemon[d].current /\ Lands(d) /\ daemon' = Overwritten(Throws(d))
    <3> DEFINE slept == [daemon[d] EXCEPT !.at = "sleep"]
    <3>1. slept \in Rounds /\ slept.at = "sleep" /\ slept.initiated = daemon[d].initiated
      BY <1>0 DEF Rounds
    <3>2. Throws(d) = [daemon EXCEPT ![d] = slept]
      BY DEF Throws
    <3> HIDE DEF slept
    <3>3. daemon' = Overwritten([daemon EXCEPT ![d] = slept])
      BY <2>3, <3>2
    <3> QED BY <2>1, <2>3, <3>1, <3>3
  <2>4. CASE /\ UNCHANGED <<primaryLease, stolen>>
             /\ daemon' = Throws(d) \/ daemon' = Denied(d)
    BY <1>3, <2>0, <2>4
  <2>5. CASE /\ UNCHANGED <<primaryLease, stolen>> /\ ~daemon[d].current
             /\ daemon' = [daemon EXCEPT ![d].at = IF @ = "renewing" THEN "renew" ELSE "seek",
                                         ![d].retries = 1]
    <3> DEFINE to == [daemon[d] EXCEPT !.at = IF @ = "renewing" THEN "renew" ELSE "seek",
                                       !.retries = 1]
    <3>1. /\ to \in Rounds /\ to.at = IF daemon[d].at = "renewing" THEN "renew" ELSE "seek"
          /\ to.initiated = daemon[d].initiated
      <4>1. daemon[d] \in Rounds /\ 1 \in 0 .. 1
        BY <1>0
      <4> QED BY <4>1, Zenon DEF Rounds
    <3>2. daemon' = [daemon EXCEPT ![d] = to] /\ primaryLease' = primaryLease /\ stolen' = stolen
      BY <2>5
    <3> HIDE DEF to
    <3>3. to.at \in {"seek", "seizing", "create"} => ~to.initiated
      BY <2>0, <3>1 DEF DaemonInv
    <3>4. ~to.initiated => created[d] = 0
      BY <3>1 DEF DaemonInv
    <3>5. to.at \notin {"renewing", "seizing"}
      BY <3>1
    <3> QED BY <1>0, <2>0, <3>1, <3>2, <3>3, <3>4, <3>5, RoundMoves
  <2> QED BY <1>5, <2>2, <2>3, <2>4, <2>5 DEF PutsLease
<1>6. ASSUME NEW d \in Daemons, CreatesJob(d) PROVE DaemonInv'
  <2> DEFINE to == [daemon[d] EXCEPT !.at = "sleep", !.initiated = TRUE, !.fails = 0]
  <2>0. daemon[d] \in Rounds /\ 0 \in 0 .. Threshold
    BY <1>0
  <2>1. to \in Rounds /\ to.at = "sleep" /\ to.initiated
    BY <2>0, Zenon DEF Rounds
  <2>2. /\ daemon' = [daemon EXCEPT ![d] = to] /\ primaryLease' = primaryLease /\ stolen' = stolen
        /\ daemon[d].at = "create"
    BY <1>6 DEF CreatesJob
  <2> HIDE DEF to
  <2>3. created[d] = 0
    BY <2>2 DEF DaemonInv
  <2>4. /\ created' \in [Daemons -> Nat] /\ created'[d] <= 1
        /\ \A e \in Daemons \ {d} : created'[e] = created[e]
    BY <1>0, <1>6, <2>3 DEF CreatesJob
  <2> QED BY <2>1, <2>2, <2>4, RoundMoves
<1>7. CASE LeaseTermEnds
  <2>1. /\ primaryLease' \in [holder : Daemons \union {Nobody, Alias}, fresh : BOOLEAN]
        /\ ~primaryLease'.fresh
        /\ UNCHANGED <<daemon, created, stolen>>
    BY <1>7 DEF LeaseTermEnds, DaemonInv
  <2> QED BY <2>1 DEF DaemonInv
<1>8. ASSUME NEW d \in Daemons, DaemonRestarts(d) PROVE DaemonInv'
  <2>1. Started \in Rounds /\ Started.at = "sleep"
    BY <1>0 DEF Started, Rounds
  <2>2. /\ daemon' = [daemon EXCEPT ![d] = Started]
        /\ primaryLease' = primaryLease /\ stolen' = stolen
    BY <1>8 DEF DaemonRestarts
  <2>3. /\ created' \in [Daemons -> Nat] /\ created'[d] = 0
        /\ \A e \in Daemons \ {d} : created'[e] = created[e]
    BY <1>0, <1>8 DEF DaemonRestarts
  <2>4. created'[d] <= 1
    BY <2>3
  <2> QED BY <2>1, <2>2, <2>3, <2>4, RoundMoves, Zenon
<1>9. CASE UNCHANGED daemonVars
  BY <1>9 DEF daemonVars, DaemonInv, Name
<1> QED BY <1>1, <1>2, <1>4, <1>5, <1>6, <1>7, <1>8, <1>9 DEF DaemonNext

-------------------------------------------------------------------------------
(* PostgresFailover, the Jobs: until a lock is reclaimed, the pod that is  *)
(* past it made it; and who turns the Services has promoted or was blind.  *)

PodRows == [at : {"none", "started", "free", "taken", "reclaim", "locked", "promoted",
                  "half", "routed", "ended"}, again : BOOLEAN]
Locks   == [by : Pods \union {NoPod}, fresh : BOOLEAN]
Past    == {"promoted", "half", "routed"}

Able    == promoted \/ blind

PodInv ==
  /\ pod \in [Pods -> PodRows] /\ lock \in Locks
  /\ promoted \in BOOLEAN /\ seized \in BOOLEAN /\ blind \in BOOLEAN
  /\ routed \subseteq {"postgres-svc", "postgres-primary-svc"}
  /\ ~seized => \A j \in Pods : InLock(j) => lock.by = j
  /\ \A j \in Pods : pod[j].at \in Past => Able
  /\ routed # {} => Able

LEMMA PodStart == JobInit => PodInv
<1> SUFFICES ASSUME JobInit PROVE PodInv
  OBVIOUS
<1>1. [at |-> "none", again |-> FALSE] \in PodRows /\ NoLock \in Locks
  BY DEF PodRows, NoLock, Locks
<1> QED BY <1>1 DEF JobInit, PodInv, InLock, Past, Able

\* A step of one pod.
LEMMA PodMoves ==
  ASSUME PodInv, NEW j \in Pods, NEW to \in PodRows, pod' = [pod EXCEPT ![j] = to],
         lock' \in Locks, promoted' \in BOOLEAN, seized' \in BOOLEAN, blind' \in BOOLEAN,
         routed' \subseteq {"postgres-svc", "postgres-primary-svc"},
         ~seized' => /\ ~seized
                     /\ to.at \in {"locked", "promoted", "half", "routed"} => lock'.by = j
                     /\ \A i \in Pods \ {j} : InLock(i) => lock'.by = i,
         Able => Able',
         to.at \in Past \/ routed' # routed => Able'
  PROVE  PodInv'
<1>1. /\ pod' \in [Pods -> PodRows] /\ pod'[j] = to
      /\ \A i \in Pods \ {j} : pod'[i] = pod[i]
  BY DEF PodInv
<1>2. \A i \in Pods \ {j} : InLock(i)' = InLock(i)
  BY <1>1 DEF InLock
<1>3. InLock(j)' = (to.at \in {"locked", "promoted", "half", "routed"})
  BY <1>1 DEF InLock
<1>4. ~seized' => \A i \in Pods : InLock(i)' => lock'.by = i
  BY <1>2, <1>3
<1>5. \A i \in Pods : pod'[i].at \in Past => Able'
  BY <1>1 DEF PodInv
<1>6. routed' # {} => Able'
  BY DEF PodInv
<1> QED BY <1>1, <1>4, <1>5, <1>6 DEF PodInv

\* A pod that fails is past nothing any more.
LEMMA FailedPod ==
  ASSUME PodInv, NEW j \in Pods
  PROVE  \E to \in PodRows : PodFails(j) = [pod EXCEPT ![j] = to] /\ to.at \in {"started", "ended"}
<1> DEFINE ended == [pod[j] EXCEPT !.at = "ended"]
           again == [at |-> "started", again |-> TRUE]
<1>1. ended \in PodRows /\ ended.at = "ended" /\ again \in PodRows /\ again.at = "started"
  BY DEF PodInv, PodRows
<1>2. PodFails(j) = [pod EXCEPT ![j] = IF pod[j].again THEN ended ELSE again]
  BY DEF PodFails
<1> HIDE DEF ended, again
<1> QED BY <1>1, <1>2

\* A pod that goes to another place in the script.
LEMMA PodGoes ==
  ASSUME PodInv, NEW j \in Pods,
         NEW at \in {"started", "free", "taken", "reclaim", "locked", "promoted", "half", "routed",
                     "ended"},
         pod' = [pod EXCEPT ![j].at = at]
  PROVE  \E to \in PodRows : pod' = [pod EXCEPT ![j] = to] /\ to.at = at
<1> DEFINE to == [pod[j] EXCEPT !.at = at]
<1>1. to \in PodRows /\ to.at = at
  BY DEF PodInv, PodRows
<1>2. pod' = [pod EXCEPT ![j] = to]
  OBVIOUS
<1> HIDE DEF to
<1> QED BY <1>1, <1>2

LEMMA PodKeeps == PodInv /\ [JobNext]_jobVars => PodInv'
<1> SUFFICES ASSUME PodInv, [JobNext]_jobVars PROVE PodInv'
  OBVIOUS
<1>0. /\ NoPod \notin Pods /\ NoLock \in Locks /\ lock \in Locks
      /\ promoted \in BOOLEAN /\ seized \in BOOLEAN /\ blind \in BOOLEAN
      /\ routed \subseteq {"postgres-svc", "postgres-primary-svc"}
      /\ \A i, j \in Pods : ~seized /\ InLock(i) => lock.by = i
  BY FailoverAssumption DEF PodInv, Locks, NoLock
\* of a pod that is not past the lock and leaves everything else alone
<1>1. ASSUME NEW j \in Pods, UNCHANGED <<lock, promoted, routed, seized, blind>>,
             NEW to \in PodRows, pod' = [pod EXCEPT ![j] = to],
             to.at \notin {"locked", "promoted", "half", "routed"}
      PROVE  PodInv'
  BY <1>0, <1>1, PodMoves DEF Past, Able
<1>2. ASSUME NEW j \in Pods, JobStarts(j) PROVE PodInv'
  <2>1. UNCHANGED <<lock, promoted, routed, seized, blind>> /\ pod' = [pod EXCEPT ![j].at = "started"]
    BY <1>2 DEF JobStarts
  <2>2. \E to \in PodRows : pod' = [pod EXCEPT ![j] = to] /\ to.at = "started"
    BY <2>1, PodGoes
  <2> QED BY <1>1, <2>1, <2>2
<1>3. ASSUME NEW j \in Pods, ChecksLock(j) PROVE PodInv'
  <2>1. /\ UNCHANGED <<lock, promoted, routed, seized, blind>>
        /\ \E at \in {"free", "taken"} : pod' = [pod EXCEPT ![j].at = at]
    BY <1>3 DEF ChecksLock
  <2>2. \E to \in PodRows : pod' = [pod EXCEPT ![j] = to] /\ to.at \in {"free", "taken"}
    <3>1. PICK at \in {"free", "taken"} : pod' = [pod EXCEPT ![j].at = at]
      BY <2>1
    <3>2. ASSUME pod' = [pod EXCEPT ![j].at = "free"]
          PROVE  \E to \in PodRows : pod' = [pod EXCEPT ![j] = to] /\ to.at = "free"
      BY <3>2, PodGoes
    <3>3. ASSUME pod' = [pod EXCEPT ![j].at = "taken"]
          PROVE  \E to \in PodRows : pod' = [pod EXCEPT ![j] = to] /\ to.at = "taken"
      BY <3>3, PodGoes
    <3>4. pod' = [pod EXCEPT ![j].at = "free"] \/ pod' = [pod EXCEPT ![j].at = "taken"]
      BY <3>1
    <3> QED BY <3>2, <3>3, <3>4
  <2> QED BY <1>1, <2>1, <2>2
<1>4. ASSUME NEW j \in Pods, ReadsLock(j) PROVE PodInv'
  <2>1. /\ UNCHANGED <<lock, promoted, routed, seized, blind>>
        /\ pod' = PodFails(j) \/ pod' = [pod EXCEPT ![j].at = "reclaim"]
    BY <1>4 DEF ReadsLock
  <2>2. \E to \in PodRows : /\ pod' = [pod EXCEPT ![j] = to]
                            /\ to.at \in {"reclaim", "started", "ended"}
    BY <2>1, PodGoes, FailedPod
  <2> QED BY <1>1, <2>1, <2>2
<1>5. ASSUME NEW j \in Pods, Reclaims(j) PROVE PodInv'
  <2>1. /\ UNCHANGED <<promoted, routed, blind>>
        /\ \E to \in PodRows : pod' = [pod EXCEPT ![j] = to] /\ to.at \in {"free", "started", "ended"}
    <3>1. /\ UNCHANGED <<promoted, routed, blind>>
          /\ pod' = PodFails(j) \/ pod' = [pod EXCEPT ![j].at = "free"]
      BY <1>5 DEF Reclaims
    <3> QED BY <3>1, PodGoes, FailedPod
  <2>2. CASE lock' = NoLock /\ seized' = TRUE
    BY <1>0, <2>1, <2>2, PodMoves DEF Past, Able
  <2>3. CASE UNCHANGED <<lock, seized>>
    BY <1>1, <2>1, <2>3
  <2> QED BY <1>5, <2>2, <2>3 DEF Reclaims
<1>6. ASSUME NEW j \in Pods, CreatesLock(j) PROVE PodInv'
  <2>1. UNCHANGED <<promoted, routed, seized, blind>>
    BY <1>6 DEF CreatesLock
  <2>2. CASE /\ lock = NoLock /\ lock' = [by |-> j, fresh |-> TRUE]
             /\ pod' = [pod EXCEPT ![j].at = "locked"] \/ pod' = PodFails(j)
    <3>1. lock' \in Locks /\ lock'.by = j
      BY <2>2 DEF Locks
    <3>2. ~seized => \A i \in Pods : ~InLock(i)
      BY <1>0, <2>2 DEF NoLock
    <3>3. \E to \in PodRows : /\ pod' = [pod EXCEPT ![j] = to]
                              /\ to.at \in {"locked", "started", "ended"}
      <4>1. pod' = PodFails(j) \/ pod' = [pod EXCEPT ![j].at = "locked"]
        BY <2>2
      <4> QED BY <4>1, PodGoes, FailedPod
    <3> QED BY <1>0, <2>1, <3>1, <3>2, <3>3, PodMoves DEF Past, Able
  <2>3. CASE UNCHANGED lock /\ pod' = PodFails(j)
    BY <1>1, <2>1, <2>3, FailedPod
  <2> QED BY <1>6, <2>2, <2>3 DEF CreatesLock
<1>7. ASSUME NEW j \in Pods, Promotes(j) PROVE PodInv'
  <2>1. /\ pod[j].at = "locked" /\ pod' = [pod EXCEPT ![j].at = "promoted"]
        /\ UNCHANGED <<lock, routed, seized>>
    BY <1>7 DEF Promotes
  <2>2. /\ promoted' \in BOOLEAN /\ blind' \in BOOLEAN /\ Able'
    BY <1>0, <1>7 DEF Promotes, Able
  <2>3. InLock(j) /\ UNCHANGED <<lock, routed, seized>>
    BY <2>1 DEF InLock
  <2>4. PICK to \in PodRows : pod' = [pod EXCEPT ![j] = to] /\ to.at = "promoted"
    BY <2>1, PodGoes
  <2>5. ~seized' => /\ ~seized /\ lock'.by = j
                    /\ \A i \in Pods \ {j} : InLock(i) => lock'.by = i
    BY <1>0, <2>3
  <2>6. /\ lock' \in Locks /\ seized' \in BOOLEAN
        /\ routed' \subseteq {"postgres-svc", "postgres-primary-svc"}
    BY <1>0, <2>3
  <2> QED BY <2>2, <2>4, <2>5, <2>6, PodMoves
<1>8. ASSUME NEW j \in Pods, PatchesService(j) PROVE PodInv'
  <2>1. /\ pod[j].at \in {"promoted", "half"} /\ UNCHANGED <<lock, promoted, seized, blind>>
        /\ routed' \subseteq {"postgres-svc", "postgres-primary-svc"}
    BY <1>0, <1>8 DEF PatchesService
  <2>2. \E at \in {"half", "routed"} : pod' = [pod EXCEPT ![j].at = at]
    BY <1>8 DEF PatchesService
  <2>3. InLock(j) /\ (Able)
    BY <2>1 DEF InLock, PodInv, Past
  <2>4. PICK to \in PodRows : pod' = [pod EXCEPT ![j] = to] /\ to.at \in {"half", "routed"}
    <3>1. ASSUME pod' = [pod EXCEPT ![j].at = "half"]
          PROVE  \E to \in PodRows : pod' = [pod EXCEPT ![j] = to] /\ to.at = "half"
      BY <3>1, PodGoes
    <3>2. ASSUME pod' = [pod EXCEPT ![j].at = "routed"]
          PROVE  \E to \in PodRows : pod' = [pod EXCEPT ![j] = to] /\ to.at = "routed"
      BY <3>2, PodGoes
    <3> QED BY <2>2, <3>1, <3>2
  <2> QED BY <1>0, <2>1, <2>3, <2>4, PodMoves DEF Past, Able
\* the lock is let go by the pod that made it, or stays
<1>9. ASSUME NEW j \in Pods, InLock(j), Unlocking, UNCHANGED <<promoted, routed, seized, blind>>,
             NEW to \in PodRows, pod' = [pod EXCEPT ![j] = to], to.at \in {"started", "ended"}
      PROVE  PodInv'
  <2>1. lock' \in Locks
    BY <1>0, <1>9 DEF Unlocking
  <2>2. ASSUME ~seized, NEW i \in Pods \ {j}, InLock(i) PROVE FALSE
    BY <1>0, <1>9, <2>2
  <2> QED BY <1>0, <1>9, <2>1, <2>2, PodMoves DEF Past, Able
<1>10. ASSUME NEW j \in Pods, Completes(j) PROVE PodInv'
  <2>1. /\ InLock(j) /\ Unlocking /\ UNCHANGED <<promoted, routed, seized, blind>>
        /\ pod' = [pod EXCEPT ![j].at = "ended"]
    BY <1>10 DEF Completes, InLock
  <2> QED BY <1>9, <2>1, PodGoes
<1>11. ASSUME NEW j \in Pods, Aborts(j) PROVE PodInv'
  BY <1>9, <1>11, FailedPod DEF Aborts
<1>12. ASSUME NEW j \in Pods, PodDies(j) PROVE PodInv'
  BY <1>1, <1>12, FailedPod DEF PodDies
<1>13. CASE LockExpires
  <2>1. lock' \in Locks /\ lock'.by = lock.by /\ UNCHANGED <<pod, promoted, routed, seized, blind>>
    BY <1>0, <1>13 DEF LockExpires, Locks
  <2> QED BY <2>1 DEF PodInv, InLock, Able
<1>14. CASE UNCHANGED jobVars
  BY <1>14 DEF jobVars, PodInv, InLock, Able
<1> QED BY <1>2, <1>3, <1>4, <1>5, <1>6, <1>7, <1>8, <1>10, <1>11, <1>12, <1>13, <1>14 DEF JobNext

LEMMA FailoverSuffices ==
  DaemonInv /\ PodInv => FailoverTypeOK /\ LeaseHonoured /\ OnePromoter
BY DEF DaemonInv, PodInv, Rounds, PodRows, Locks, FailoverTypeOK, LeaseHonoured, OnePromoter, Able

-------------------------------------------------------------------------------
(* ProjectReview: an approval that nobody was about to overrule has nobody *)
(* about to overrule it; until two onboardings overlap there is one, which *)
(* knows what it found, and the mails that were sent say what the rows do. *)

Statuses == DOMAIN VALID_TRANSITIONS
Started1 == {"seek", "secret", "insert", "list", "mail"}
OpRows   == [at : {"idle", "decide"} \union Started1, on : Applications \union {None},
             status : Statuses \union {None}, row : Projects \union {None}]
ProjectRows == [listed : {"review", "owner", None}, secret : Applications \union {None},
                checklist : BOOLEAN]

Reviewed   == {r \in Rows : project[r].listed = "review"}
Sent(sent) == /\ sent \in Rows \X Applications
              /\ project[sent[1]].secret = sent[2] /\ project[sent[1]].checklist

ReviewTyped ==
  /\ application \in [Applications -> {"absent"} \union Statuses]
  /\ project \in [Projects -> ProjectRows] /\ op \in [Operations -> OpRows]
  /\ approved \subseteq Applications /\ overlapped \in BOOLEAN

\* what an operation has read, and what is so of it as long as no other came between
OpFine(o) ==
  /\ op[o].at = "decide" => op[o].on \in Applications \ approved /\ op[o].status \in Statuses
  /\ op[o].at \in Started1 => op[o].on \in Applications
  /\ op[o].at \in {"secret", "list", "mail"} => op[o].row \in Rows

OpAlone(o) ==
  /\ op[o].at = "insert" => Reviewed = {}
  /\ op[o].at = "secret" => project[op[o].row].secret = None
  /\ op[o].at \in {"list", "mail"} => project[op[o].row].secret = op[o].on
  /\ op[o].at = "mail" => project[op[o].row].checklist

ReviewInv ==
  /\ ReviewTyped
  /\ \A m, n \in Projects : m < n /\ n \in Rows => m \in Rows
  /\ \A a \in approved : application[a] = "approved"
  /\ \A o \in Operations : OpFine(o)
  /\ ~overlapped => /\ \A o, q \in Onboarding : o = q
                    /\ \A o \in Operations : OpAlone(o)
                    /\ \A r, s \in Reviewed : r = s
                    /\ \A sent \in mailed : Sent(sent)

LEMMA ReviewStart == ReviewInit => ReviewInv
<1> SUFFICES ASSUME ReviewInit PROVE ReviewInv
  OBVIOUS
<1>1. [NewRow EXCEPT !.listed = None] \in ProjectRows /\ Idle \in OpRows
  BY DEF NewRow, ProjectRows, Idle, OpRows
<1>2. ReviewTyped
  BY <1>1 DEF ReviewInit, ReviewTyped
<1>3. Rows = {} /\ Reviewed = {} /\ Onboarding = {} /\ \A o \in Operations : op[o].at = "idle"
  BY DEF ReviewInit, Rows, Reviewed, Onboarding, NewRow, Idle
<1> QED BY <1>2, <1>3 DEF ReviewInit, ReviewInv, OpFine, OpAlone, Started1

\* A step of one operation that leaves requests and projects alone.
LEMMA OpMoves ==
  ASSUME ReviewInv, NEW o \in Operations, NEW to \in OpRows, op' = [op EXCEPT ![o] = to],
         UNCHANGED <<application, project, approved, overlapped>>,
         to.at = "decide" => to.on \in Applications \ approved /\ to.status \in Statuses,
         to.at \in Started1 => op[o].at \in Started1 /\ to.on \in Applications,
         to.at \in {"secret", "list", "mail"} => to.row \in Rows,
         ~overlapped =>
           /\ to.at = "insert" => Reviewed = {}
           /\ to.at = "secret" => project[to.row].secret = None
           /\ to.at \in {"list", "mail"} => project[to.row].secret = to.on
           /\ to.at = "mail" => project[to.row].checklist
           /\ \A sent \in mailed' : Sent(sent)
  PROVE  ReviewInv'
<1>1. /\ op' \in [Operations -> OpRows] /\ op'[o] = to
      /\ \A q \in Operations \ {o} : op'[q] = op[q]
  BY DEF ReviewInv, ReviewTyped
<1>2. Rows' = Rows /\ Reviewed' = Reviewed /\ \A sent : Sent(sent)' = Sent(sent)
  BY DEF Rows, Reviewed, Sent
<1>3. ASSUME NEW q \in Operations PROVE OpFine(q)'
  <2>1. CASE q = o
    BY <1>1, <1>2, <2>1 DEF OpFine
  <2>2. CASE q # o
    BY <1>1, <1>2, <2>2 DEF ReviewInv, OpFine
  <2> QED BY <2>1, <2>2
<1>4. ASSUME ~overlapped, NEW q \in Operations PROVE OpAlone(q)'
  <2>1. CASE q = o
    BY <1>1, <1>2, <1>4, <2>1 DEF OpAlone
  <2>2. CASE q # o
    BY <1>1, <1>2, <1>4, <2>2 DEF ReviewInv, OpAlone
  <2> QED BY <2>1, <2>2
<1>5. \A q \in Onboarding' : q \in Onboarding
  BY <1>1 DEF Onboarding, Started1
<1>6. ReviewTyped'
  BY <1>1 DEF ReviewInv, ReviewTyped
<1>7. /\ \A m, n \in Projects : m < n /\ n \in Rows' => m \in Rows'
      /\ \A a \in approved' : application'[a] = "approved"
  BY <1>2 DEF ReviewInv
<1>8. ASSUME ~overlapped'
      PROVE  /\ \A p, q \in Onboarding' : p = q
             /\ \A q \in Operations : OpAlone(q)'
             /\ \A r, s \in Reviewed' : r = s
             /\ \A sent \in mailed' : Sent(sent)'
  BY <1>2, <1>4, <1>5, <1>8 DEF ReviewInv
<1> QED BY <1>3, <1>6, <1>7, <1>8 DEF ReviewInv

\* A step that writes one row of the projects, and no request.
LEMMA RowMoves ==
  ASSUME ReviewInv, NEW r \in Projects, NEW new \in ProjectRows,
         project' = [project EXCEPT ![r] = new], op' \in [Operations -> OpRows],
         UNCHANGED <<application, approved, mailed, overlapped>>,
         r \in Rows \/ \A m \in Projects : (m < r) = (m \in Rows),
         new.listed # None,
         \A q \in Operations : OpFine(q)',
         \A q \in Onboarding' : q \in Onboarding,
         ~overlapped => /\ \A q \in Operations : OpAlone(q)'
                        /\ \A s, t \in Reviewed' : s = t
                        /\ r \in Rows => \/ project[r].secret = None
                                         \/ new.secret = project[r].secret /\ new.checklist
  PROVE  ReviewInv'
<1>1. /\ project' \in [Projects -> ProjectRows] /\ project'[r] = new
      /\ \A s \in Projects \ {r} : project'[s] = project[s]
  BY DEF ReviewInv, ReviewTyped
<1>2. Rows' = Rows \union {r}
  BY <1>1 DEF Rows
<1>3. \A m, n \in Projects : m < n /\ n \in Rows' => m \in Rows'
  BY <1>2 DEF ReviewInv, Projects
<1>4. ASSUME ~overlapped, NEW sent \in mailed PROVE Sent(sent)'
  <2>1. Sent(sent)
    BY <1>4 DEF ReviewInv
  <2>2. sent[1] \in Rows /\ sent[2] \in Applications /\ None \notin Applications
        /\ sent[1] \in Projects
    BY <2>1, ReviewAssumption DEF Sent, Rows
  <2>3. CASE sent[1] = r
    BY <1>1, <1>2, <1>4, <2>1, <2>2, <2>3 DEF Sent
  <2>4. CASE sent[1] # r
    BY <1>1, <1>2, <2>1, <2>2, <2>4 DEF Sent
  <2> QED BY <2>3, <2>4
<1>5. ReviewTyped'
  BY <1>1 DEF ReviewInv, ReviewTyped
<1>6. \A a \in approved' : application'[a] = "approved"
  BY DEF ReviewInv
<1>7. ASSUME ~overlapped'
      PROVE  /\ \A p, q \in Onboarding' : p = q
             /\ \A q \in Operations : OpAlone(q)'
             /\ \A s, t \in Reviewed' : s = t
             /\ \A sent \in mailed' : Sent(sent)'
  BY <1>4, <1>7 DEF ReviewInv
<1> QED BY <1>3, <1>5, <1>6, <1>7 DEF ReviewInv

\* The row that is inserted is the first that is free.
LEMMA NextRow ==
  ASSUME ReviewInv, NextId <= MaxProjects
  PROVE  /\ NextId \in Projects \ Rows
         /\ \A m \in Projects : (m < NextId) = (m \in Rows)
<1>1. /\ MaxProjects \in Nat /\ Rows \in SUBSET (1 .. MaxProjects)
  BY ReviewAssumption DEF Rows, Projects
<1>2. \A m, n \in 1 .. MaxProjects : m < n /\ n \in Rows => m \in Rows
  BY DEF ReviewInv, Projects
<1>3. Cardinality(Rows) \in Nat
  <2>1. IsFiniteSet(1 .. MaxProjects)
    BY <1>1, FS_Interval
  <2> QED BY <1>1, <2>1, FS_Subset, FS_CardinalityType
<1>4. Cardinality(Rows) < MaxProjects
  BY <1>1, <1>3 DEF NextId
<1>5. /\ NextId \in 1 .. MaxProjects /\ NextId \notin Rows
      /\ \A m \in 1 .. MaxProjects : m < NextId => m \in Rows
      /\ \A m \in 1 .. MaxProjects : NextId < m => m \notin Rows
  BY <1>1, <1>2, <1>4, FirstFree DEF NextId
<1> QED BY <1>1, <1>5 DEF Projects

LEMMA ReviewKeeps == ReviewInv /\ [ReviewNext]_reviewVars => ReviewInv'
<1> SUFFICES ASSUME ReviewInv, [ReviewNext]_reviewVars PROVE ReviewInv'
  OBVIOUS
<1>0. /\ ReviewTyped /\ application \in [Applications -> {"absent"} \union Statuses]
      /\ project \in [Projects -> ProjectRows] /\ op \in [Operations -> OpRows]
      /\ \A o \in Operations : op[o] \in OpRows /\ OpFine(o)
      /\ \A o \in Operations : ~overlapped => OpAlone(o)
      /\ Idle \in OpRows /\ Idle.at = "idle"
      /\ None \notin Applications /\ None \notin Statuses /\ None \notin {"owner", "review"}
      /\ ~overlapped => \A sent \in mailed : Sent(sent)
  BY ReviewAssumption DEF ReviewInv, ReviewTyped, Idle, OpRows, Statuses
<1>1. ASSUME NEW a \in Applications, Applies(a) PROVE ReviewInv'
  <2>1. /\ application[a] = "absent" /\ application' = [application EXCEPT ![a] = "pending"]
        /\ UNCHANGED <<project, op, approved, mailed, overlapped>>
    BY <1>1 DEF Applies
  <2>2. /\ application' \in [Applications -> {"absent"} \union Statuses]
        /\ \A b \in Applications \ {a} : application'[b] = application[b]
    BY <1>0, <2>1 DEF Statuses, VALID_TRANSITIONS
  <2>3. a \notin approved
    BY <2>1 DEF ReviewInv
  <2>4. approved \subseteq Applications
    BY <1>0 DEF ReviewTyped
  <2> QED BY <1>0, <2>1, <2>2, <2>3, <2>4
      DEF ReviewInv, ReviewTyped, Rows, Reviewed, Sent, Onboarding, OpFine, OpAlone
<1>2. ASSUME NEW o \in Operations, NEW a \in Applications, ReadsApplication(o, a)
      PROVE  ReviewInv'
  <2>1. PICK status \in VALID_TRANSITIONS[application[a]] :
          op' = [op EXCEPT ![o] = [Idle EXCEPT !.at = "decide", !.on = a, !.status = status]]
    BY <1>2, Zenon DEF ReadsApplication
  <2>2. /\ application[a] \in Statuses /\ UNCHANGED <<application, project, approved, mailed, overlapped>>
    BY <1>0, <1>2 DEF ReadsApplication
  <2>3. status \in Statuses /\ application[a] # "approved"
    BY <2>2 DEF Statuses, VALID_TRANSITIONS
  <2>4. a \in Applications \ approved
    BY <2>3 DEF ReviewInv
  <2> DEFINE to == [Idle EXCEPT !.at = "decide", !.on = a, !.status = status]
  <2>5. to \in OpRows /\ to.at = "decide" /\ to.on = a /\ to.status = status
    BY <1>0, <2>3 DEF OpRows, Idle
  <2>6. op' = [op EXCEPT ![o] = to]
    BY <2>1
  <2> HIDE DEF to
  <2> QED BY <1>0, <2>2, <2>3, <2>4, <2>5, <2>6, OpMoves DEF Started1
<1>3. ASSUME NEW o \in Operations, Decides(o) PROVE ReviewInv'
  <2> DEFINE a == op[o].on
             status == op[o].status
  <2>1. /\ op[o].at = "decide" /\ a \in Applications \ approved /\ status \in Statuses
        /\ project' = project
        /\ application' = [application EXCEPT ![a] = status]
    BY <1>0, <1>3 DEF Decides, OpFine
  <2>2. /\ application' \in [Applications -> {"absent"} \union Statuses]
        /\ \A b \in Applications \ {a} : application'[b] = application[b]
        /\ application'[a] = status
    BY <1>0, <2>1
  <2>3. Rows' = Rows /\ Reviewed' = Reviewed /\ \A sent : Sent(sent)' = Sent(sent)
    BY <2>1 DEF Rows, Reviewed, Sent
  <2>4. \A m, n \in Projects : m < n /\ n \in Rows' => m \in Rows'
    BY <2>3 DEF ReviewInv
  <2>5. CASE status = "approved"
    <3> DEFINE to == [op[o] EXCEPT !.at = "seek", !.status = None]
    <3>1. op[o] \in OpRows
      BY <1>0
    <3>2. to \in OpRows /\ to.at = "seek" /\ to.on = a
      BY <3>1, Zenon DEF OpRows, Started1
    <3>3. op' = [op EXCEPT ![o] = to]
      BY <1>3, <2>5 DEF Decides
    <3>4. /\ approved' = IF \E q \in Operations \ {o} : op[q].at = "decide" /\ op[q].on = a
                         THEN approved ELSE approved \union {a}
          /\ overlapped' = (overlapped \/ Onboarding # {})
          /\ mailed' = IF Onboarding = {} THEN mailed ELSE {}
      BY <1>3, <2>5 DEF Decides
    <3> HIDE DEF to, a, status
    <3>5. /\ op' \in [Operations -> OpRows] /\ op'[o] = to
          /\ \A q \in Operations \ {o} : op'[q] = op[q]
      BY <1>0, <3>2, <3>3
    <3>6. /\ approved' \subseteq Applications /\ overlapped' \in BOOLEAN
          /\ approved \subseteq Applications
      BY <1>0, <2>1, <3>4 DEF ReviewTyped
    <3>7. ASSUME NEW b \in approved' PROVE application'[b] = "approved"
      BY <2>1, <2>2, <2>5, <3>4, <3>6, <3>7 DEF ReviewInv
    <3>8. ASSUME NEW q \in Operations PROVE OpFine(q)'
      <4>1. CASE q = o
        BY <2>1, <2>3, <3>2, <3>5, <4>1 DEF OpFine
      <4>2. CASE q # o
        <5>1. op'[q] = op[q] /\ OpFine(q)
          BY <1>0, <3>5, <4>2
        <5>2. op[q].at = "decide" => op[q].on \notin approved'
          BY <3>4, <4>2, <5>1 DEF OpFine
        <5> QED BY <2>3, <5>1, <5>2 DEF OpFine
      <4> QED BY <4>1, <4>2
    <3>9. ASSUME ~overlapped'
          PROVE  /\ \A p, q \in Onboarding' : p = q
                 /\ \A q \in Operations : OpAlone(q)'
                 /\ \A r, s \in Reviewed' : r = s
                 /\ \A sent \in mailed' : Sent(sent)'
      <4>1. ~overlapped /\ Onboarding = {} /\ mailed' = mailed
        BY <3>4, <3>9
      <4>2. \A q \in Onboarding' : q = o
        BY <3>5, <4>1 DEF Onboarding
      <4>3. ASSUME NEW q \in Operations PROVE OpAlone(q)'
        <5>1. CASE q = o
          BY <3>2, <3>5, <5>1 DEF OpAlone
        <5>2. CASE q # o
          <6>1. op'[q] = op[q] /\ OpAlone(q)
            BY <1>0, <3>5, <4>1, <5>2
          <6> QED BY <2>1, <2>3, <6>1 DEF OpAlone
        <5> QED BY <5>1, <5>2
      <4> QED BY <1>0, <2>3, <4>1, <4>2, <4>3 DEF ReviewInv
    <3>10. ReviewTyped'
      BY <1>0, <2>1, <2>2, <3>5, <3>6 DEF ReviewTyped
    <3> QED BY <2>4, <3>7, <3>8, <3>9, <3>10 DEF ReviewInv
  <2>6. CASE status # "approved"
    <3>1. op' = [op EXCEPT ![o] = Idle] /\ UNCHANGED <<approved, overlapped, mailed>>
      BY <1>3, <2>6 DEF Decides
    <3>2. /\ op' \in [Operations -> OpRows] /\ op'[o] = Idle
          /\ \A q \in Operations \ {o} : op'[q] = op[q]
      BY <1>0, <3>1
    <3> HIDE DEF a, status
    <3>3. \A b \in approved' : application'[b] = "approved"
      BY <1>0, <2>1, <2>2, <3>1 DEF ReviewInv, ReviewTyped
    <3>4. ASSUME NEW q \in Operations PROVE OpFine(q)'
      <4>1. CASE q = o
        BY <1>0, <3>2, <4>1 DEF OpFine, Started1
      <4>2. CASE q # o
        BY <1>0, <2>3, <3>1, <3>2, <4>2 DEF OpFine
      <4> QED BY <4>1, <4>2
    <3>5. ASSUME ~overlapped, NEW q \in Operations PROVE OpAlone(q)'
      <4>1. CASE q = o
        BY <1>0, <3>2, <4>1 DEF OpAlone
      <4>2. CASE q # o
        BY <1>0, <2>1, <2>3, <3>2, <3>5, <4>2 DEF OpAlone
      <4> QED BY <4>1, <4>2
    <3>6. \A q \in Onboarding' : q \in Onboarding
      BY <1>0, <3>2 DEF Onboarding
    <3>7. ReviewTyped'
      BY <1>0, <2>1, <2>2, <3>1, <3>2 DEF ReviewTyped
    <3>8. ASSUME ~overlapped'
          PROVE  /\ \A p, q \in Onboarding' : p = q
                 /\ \A q \in Operations : OpAlone(q)'
                 /\ \A r, s \in Reviewed' : r = s
                 /\ \A sent \in mailed' : Sent(sent)'
      BY <1>0, <2>3, <3>1, <3>5, <3>6, <3>8 DEF ReviewInv
    <3> QED BY <2>4, <3>3, <3>4, <3>7, <3>8 DEF ReviewInv
  <2> QED BY <2>5, <2>6
<1>4. ASSUME NEW o \in Operations, SeeksProject(o) PROVE ReviewInv'
  <2>1. /\ op[o].at = "seek" /\ op[o].on \in Applications /\ op[o] \in OpRows
        /\ UNCHANGED <<application, project, approved, mailed, overlapped>>
    BY <1>0, <1>4 DEF SeeksProject, OpFine, Started1
  <2>2. CASE Rows = {} /\ Steps(o, "insert")
    <3> DEFINE to == [op[o] EXCEPT !.at = "insert"]
    <3>1. to \in OpRows /\ to.at = "insert" /\ to.on = op[o].on
      BY <2>1, Zenon DEF OpRows, Started1
    <3>2. op' = [op EXCEPT ![o] = to]
      BY <2>2 DEF Steps
    <3> HIDE DEF to
    <3>3. Reviewed = {}
      BY <2>2 DEF Reviewed
    <3> QED BY <1>0, <2>1, <3>1, <3>2, <3>3, OpMoves DEF Started1
  <2>3. ASSUME NEW r \in Rows,
               op' = [op EXCEPT ![o].at = IF project[r].secret = None THEN "secret" ELSE "list",
                                ![o].row = r,
                                ![o].on = IF project[r].secret = None THEN @ ELSE project[r].secret]
        PROVE  ReviewInv'
    <3> DEFINE none == project[r].secret = None
               at == IF none THEN "secret" ELSE "list"
               on == IF none THEN op[o].on ELSE project[r].secret
               to == [op[o] EXCEPT !.at = at, !.row = r, !.on = on]
    <3>1. op' = [op EXCEPT ![o] = to]
      BY <2>3
    <3>2. r \in Projects /\ project[r].secret \in Applications \union {None}
      BY <1>0 DEF Rows, ProjectRows
    <3>3. /\ at \in {"secret", "list"} /\ on \in Applications
          /\ at = "secret" => project[r].secret = None
          /\ at = "list" => project[r].secret = on
      BY <2>1, <3>2
    <3> HIDE DEF at, on
    <3>4. to \in OpRows /\ to.at = at /\ to.on = on /\ to.row = r
      <4>1. at \in {"idle", "decide"} \union Started1 /\ on \in Applications \union {None}
            /\ r \in Projects \union {None}
        BY <3>2, <3>3 DEF Started1
      <4> QED BY <2>1, <4>1, Zenon DEF OpRows
    <3> HIDE DEF to
    <3> QED BY <1>0, <2>1, <3>1, <3>3, <3>4, OpMoves DEF Started1
  <2> QED BY <1>4, <2>2, <2>3, Zenon DEF SeeksProject
<1>5. ASSUME NEW o \in Operations, SetsSecret(o) PROVE ReviewInv'
  <2> DEFINE r == op[o].row
             new == [project[r] EXCEPT !.secret = op[o].on]
             to == [op[o] EXCEPT !.at = "list"]
  <2>1. /\ op[o].at = "secret" /\ r \in Rows /\ r \in Projects /\ op[o].on \in Applications
        /\ op[o] \in OpRows /\ project[r] \in ProjectRows /\ project[r].listed # None
        /\ UNCHANGED <<application, approved, mailed, overlapped>>
    BY <1>0, <1>5 DEF SetsSecret, OpFine, Started1, Rows
  <2>2. /\ to \in OpRows /\ to.at = "list" /\ to.on = op[o].on /\ to.row = r
        /\ new \in ProjectRows /\ new.secret = op[o].on /\ new.listed = project[r].listed
    BY <2>1, Zenon DEF OpRows, Started1, ProjectRows
  <2>3. op' = [op EXCEPT ![o] = to] /\ project' = [project EXCEPT ![r] = new]
    BY <1>5 DEF SetsSecret, Steps
  <2> HIDE DEF to, new
  <2>4. /\ op' \in [Operations -> OpRows] /\ op'[o] = to
        /\ \A q \in Operations \ {o} : op'[q] = op[q]
        /\ project'[r] = new /\ \A s \in Projects \ {r} : project'[s] = project[s]
    BY <1>0, <2>1, <2>2, <2>3
  <2>5. Rows' = Rows /\ Reviewed' = Reviewed
    BY <2>1, <2>2, <2>4 DEF Rows, Reviewed
  <2>6. /\ \A q \in Operations : OpFine(q)'
        /\ \A q \in Onboarding' : q \in Onboarding
    BY <1>0, <2>1, <2>2, <2>4, <2>5 DEF OpFine, Onboarding, Started1
  <2>7. ASSUME ~overlapped
        PROVE  /\ \A q \in Operations : OpAlone(q)'
               /\ \A s, t \in Reviewed' : s = t
               /\ project[r].secret = None
    <3>1. \A q \in Operations \ {o} : op[q].at \notin Started1
      BY <2>1, <2>7 DEF ReviewInv, Onboarding, Started1
    <3>2. \A q \in Operations : OpAlone(q)'
      BY <2>1, <2>2, <2>4, <3>1 DEF OpAlone, Started1
    <3>3. project[r].secret = None
      BY <1>0, <2>1, <2>7 DEF OpAlone
    <3> QED BY <2>5, <2>7, <3>2, <3>3 DEF ReviewInv
  <2>8. r \in Projects /\ new \in ProjectRows /\ new.listed # None /\ r \in Rows
    BY <2>1, <2>2
  <2> HIDE DEF r
  <2> QED BY <2>1, <2>3, <2>4, <2>6, <2>7, <2>8, RowMoves
<1>6. ASSUME NEW o \in Operations, InsertsProject(o) PROVE ReviewInv'
  <2> DEFINE new == [NewRow EXCEPT !.listed = "review", !.secret = op[o].on]
             to == [op[o] EXCEPT !.at = "list", !.row = NextId]
  <2>1. /\ op[o].at = "insert" /\ op[o].on \in Applications /\ op[o] \in OpRows
        /\ NextId <= MaxProjects /\ UNCHANGED <<application, approved, mailed, overlapped>>
    BY <1>0, <1>6 DEF InsertsProject, OpFine, Started1
  <2>2. PICK r \in Projects \ Rows : r = NextId /\ \A m \in Projects : (m < r) = (m \in Rows)
    BY <2>1, NextRow
  <2>3. /\ to \in OpRows /\ to.at = "list" /\ to.on = op[o].on /\ to.row = r
        /\ new \in ProjectRows /\ new.secret = op[o].on /\ new.listed = "review"
    BY <2>1, <2>2, Zenon DEF OpRows, Started1, ProjectRows, NewRow
  <2>4. op' = [op EXCEPT ![o] = to] /\ project' = [project EXCEPT ![r] = new]
    BY <1>6, <2>2 DEF InsertsProject
  <2> HIDE DEF to, new
  <2>5. /\ op' \in [Operations -> OpRows] /\ op'[o] = to
        /\ \A q \in Operations \ {o} : op'[q] = op[q]
        /\ project'[r] = new /\ \A s \in Projects \ {r} : project'[s] = project[s]
    BY <1>0, <2>1, <2>2, <2>3, <2>4
  <2>6. Rows' = Rows \union {r} /\ Reviewed' = Reviewed \union {r} /\ new.listed # None
    BY <1>0, <2>2, <2>3, <2>5 DEF Rows, Reviewed
  <2>7. /\ \A q \in Operations : OpFine(q)'
        /\ \A q \in Onboarding' : q \in Onboarding
    BY <1>0, <2>1, <2>3, <2>5, <2>6 DEF OpFine, Onboarding, Started1
  <2>8. ASSUME ~overlapped
        PROVE  /\ \A q \in Operations : OpAlone(q)'
               /\ \A s, t \in Reviewed' : s = t
    <3>1. \A q \in Operations \ {o} : op[q].at \notin Started1
      BY <2>1, <2>8 DEF ReviewInv, Onboarding, Started1
    <3>2. \A q \in Operations : OpAlone(q)'
      BY <2>1, <2>3, <2>5, <3>1 DEF OpAlone, Started1
    <3>3. Reviewed = {}
      BY <1>0, <2>1, <2>8 DEF OpAlone
    <3> QED BY <2>6, <3>2, <3>3
  <2> QED BY <2>1, <2>2, <2>3, <2>4, <2>5, <2>6, <2>7, <2>8, RowMoves
<1>7. ASSUME NEW o \in Operations, ListsItems(o) PROVE ReviewInv'
  <2> DEFINE r == op[o].row
             new == [project[r] EXCEPT !.checklist = TRUE]
             to == [op[o] EXCEPT !.at = "mail"]
  <2>1. /\ op[o].at = "list" /\ r \in Rows /\ r \in Projects /\ op[o].on \in Applications
        /\ op[o] \in OpRows /\ project[r] \in ProjectRows /\ project[r].listed # None
        /\ UNCHANGED <<application, approved, mailed, overlapped>>
    BY <1>0, <1>7 DEF ListsItems, OpFine, Started1, Rows
  <2>2. /\ to \in OpRows /\ to.at = "mail" /\ to.on = op[o].on /\ to.row = r
        /\ new \in ProjectRows /\ new.secret = project[r].secret /\ new.checklist
        /\ new.listed = project[r].listed
    BY <2>1, Zenon DEF OpRows, Started1, ProjectRows
  <2>3. op' = [op EXCEPT ![o] = to] /\ project' = [project EXCEPT ![r] = new]
    BY <1>7 DEF ListsItems, Steps
  <2> HIDE DEF to, new
  <2>4. /\ op' \in [Operations -> OpRows] /\ op'[o] = to
        /\ \A q \in Operations \ {o} : op'[q] = op[q]
        /\ project'[r] = new /\ \A s \in Projects \ {r} : project'[s] = project[s]
    BY <1>0, <2>1, <2>2, <2>3
  <2>5. Rows' = Rows /\ Reviewed' = Reviewed
    BY <2>1, <2>2, <2>4 DEF Rows, Reviewed
  <2>6. /\ \A q \in Operations : OpFine(q)'
        /\ \A q \in Onboarding' : q \in Onboarding
    BY <1>0, <2>1, <2>2, <2>4, <2>5 DEF OpFine, Onboarding, Started1
  <2>7. ASSUME ~overlapped
        PROVE  /\ \A q \in Operations : OpAlone(q)'
               /\ \A s, t \in Reviewed' : s = t
    <3>1. \A q \in Operations \ {o} : op[q].at \notin Started1
      BY <2>1, <2>7 DEF ReviewInv, Onboarding, Started1
    <3>2. project[r].secret = op[o].on
      BY <1>0, <2>1, <2>7 DEF OpAlone
    <3>3. \A q \in Operations : OpAlone(q)'
      BY <2>1, <2>2, <2>4, <3>1, <3>2 DEF OpAlone, Started1
    <3> QED BY <2>5, <2>7, <3>3 DEF ReviewInv
  <2>8. r \in Projects /\ new \in ProjectRows /\ new.listed # None /\ r \in Rows
        /\ new.secret = project[r].secret /\ new.checklist
    BY <2>1, <2>2
  <2> HIDE DEF r
  <2> QED BY <2>1, <2>3, <2>4, <2>6, <2>7, <2>8, RowMoves
<1>8. ASSUME NEW o \in Operations, MailsSecret(o) PROVE ReviewInv'
  <2>1. /\ op[o].at = "mail" /\ op' = [op EXCEPT ![o] = Idle]
        /\ mailed' = IF overlapped THEN {} ELSE mailed \union {<<op[o].row, op[o].on>>}
        /\ UNCHANGED <<application, project, approved, overlapped>>
    BY <1>8 DEF MailsSecret
  <2>2. ASSUME ~overlapped PROVE Sent(<<op[o].row, op[o].on>>)
    BY <1>0, <2>1, <2>2 DEF OpFine, OpAlone, Sent, Started1
  <2>3. ~overlapped => \A sent \in mailed' : Sent(sent)
    BY <1>0, <2>1, <2>2
  <2> QED BY <1>0, <2>1, <2>3, OpMoves DEF Started1
<1>9. ASSUME NEW o \in Operations, OperationFails(o) PROVE ReviewInv'
  <2>1. /\ op' = [op EXCEPT ![o] = Idle]
        /\ UNCHANGED <<application, project, approved, mailed, overlapped>>
    BY <1>9 DEF OperationFails
  <2> QED BY <1>0, <2>1, OpMoves DEF Started1
<1>10. CASE Registers
  <2>1. /\ NextId <= MaxProjects /\ project' = [project EXCEPT ![NextId] = NewRow]
        /\ UNCHANGED <<application, op, approved, mailed, overlapped>>
    BY <1>10 DEF Registers
  <2>2. PICK r \in Projects \ Rows : r = NextId /\ \A m \in Projects : (m < r) = (m \in Rows)
    BY <2>1, NextRow
  <2>3. NewRow \in ProjectRows /\ NewRow.listed = "owner" /\ NewRow.listed # None
    BY <1>0 DEF NewRow, ProjectRows
  <2>4. project' = [project EXCEPT ![r] = NewRow]
    BY <2>1, <2>2
  <2>5. project'[r] = NewRow /\ \A s \in Projects \ {r} : project'[s] = project[s]
    BY <1>0, <2>4
  <2>6. Rows' = Rows \union {r} /\ Reviewed' = Reviewed
    BY <1>0, <2>2, <2>3, <2>5 DEF Rows, Reviewed
  <2>7. /\ \A q \in Operations : OpFine(q)'
        /\ \A q \in Onboarding' : q \in Onboarding
    BY <1>0, <2>1, <2>6 DEF OpFine, Onboarding
  <2>8. ASSUME ~overlapped, NEW q \in Operations PROVE OpAlone(q)'
    <3>1. op'[q] = op[q] /\ OpAlone(q) /\ OpFine(q)
      BY <1>0, <2>1, <2>8
    <3>2. op[q].at \in {"secret", "list", "mail"} => project'[op[q].row] = project[op[q].row]
      BY <2>2, <2>5, <3>1 DEF OpFine, Rows
    <3> QED BY <2>6, <3>1, <3>2 DEF OpAlone
  <2>9. ~overlapped => \A s, t \in Reviewed' : s = t
    BY <2>6 DEF ReviewInv
  <2> QED BY <1>0, <2>1, <2>2, <2>3, <2>4, <2>7, <2>8, <2>9, RowMoves
<1>11. CASE UNCHANGED reviewVars
  BY <1>11 DEF reviewVars, ReviewInv, ReviewTyped, Rows, Reviewed, Sent, Onboarding, OpFine, OpAlone
<1> QED BY <1>1, <1>2, <1>3, <1>4, <1>5, <1>6, <1>7, <1>8, <1>9, <1>10, <1>11 DEF ReviewNext

LEMMA ReviewSuffices == ReviewInv => ReviewTypeOK /\ DecisionsStand
<1> SUFFICES ASSUME ReviewInv PROVE ReviewTypeOK /\ DecisionsStand
  OBVIOUS
<1>1. ReviewTypeOK
  BY DEF ReviewInv, ReviewTyped, ReviewTypeOK, ProjectRows, Statuses
<1>2. ASSUME ~overlapped PROVE Cardinality({r \in Rows : project[r].listed = "review"}) <= 1
  <2>1. \A r, s \in Reviewed : r = s
    BY <1>2 DEF ReviewInv
  <2> QED BY <2>1, AtMostOne DEF Reviewed
<1> QED BY <1>1, <1>2 DEF ReviewInv, DecisionsStand, Sent

-------------------------------------------------------------------------------
(* AttestationContract: the aggregates are those of the records, counted   *)
(* by status over the ids of a donor or of a chain.                        *)

AttStatuses == {"Pending", "Verified", "Revoked"}
Attestations == [chain : Chains, tx : TxHashes, donor : Givers, status : AttStatuses]
Aggregates == [total : Nat, pending : Nat, verified : Nat, revoked : Nat]

\* How many of the ids S of the records rec have a status.
WithStatus(rec, S, status) == Cardinality({i \in S : rec[i].status = status})

\* What the aggregate of the ids S of rec should say: Tally, of records of any state.
TallyOf(rec, S) ==
  [total |-> Cardinality(S), pending |-> WithStatus(rec, S, "Pending"),
   verified |-> WithStatus(rec, S, "Verified"), revoked |-> WithStatus(rec, S, "Revoked")]

OfGiver(rec, g) == {i \in DOMAIN rec : rec[i].donor = g}
OfChain(rec, c) == {i \in DOMAIN rec : rec[i].chain = c}
GiverTallies(rec) == [g \in Givers |-> TallyOf(rec, OfGiver(rec, g))]
ChainTallies(rec) == [c \in Chains |-> TallyOf(rec, OfChain(rec, c))]

AttInv ==
  /\ relayerSet \in BOOLEAN /\ attPaused \in BOOLEAN /\ allowListed \in BOOLEAN
  /\ allowed \subseteq Chains /\ (allowed # {} => allowListed)
  /\ record \in Seq(Attestations) /\ Len(record) <= MaxRecords
  /\ DOMAIN upgradeAtt = {"pending", "effective", "last", "since"}
  /\ upgradeAtt.pending \in AttWasms \cup {NoAttWasm}
  /\ donorAgg = GiverTallies(record)
  /\ chainAgg = ChainTallies(record)
  /\ counts \in Aggregates /\ counts.total = Len(record)
  /\ counts.pending = WithStatus(record, DOMAIN record, "Pending")
  /\ AttestedOnce

LEMMA AttestationSuffices == AttInv => AttTypeOK /\ AggregatesMatch /\ AttestedOnce
<1> SUFFICES ASSUME AttInv PROVE AttTypeOK /\ AggregatesMatch /\ AttestedOnce
  OBVIOUS
<1>1. \A S : Tally(S) = TallyOf(record, S)
  BY DEF Tally, TallyOf, WithStatus
<1>2. AggregatesMatch
  BY <1>1 DEF AttInv, AggregatesMatch, GiverTallies, ChainTallies, OfGiver, OfChain,
                 TallyOf
<1>3. seen \subseteq Chains \X TxHashes
  <2>1. \A i \in DOMAIN record : record[i] \in Attestations
    BY DEF AttInv
  <2> QED BY <2>1 DEF AttInv, AttestedOnce, Attestations
<1> QED BY <1>2, <1>3 DEF AttInv, AttTypeOK

LEMMA AttestationStart == AttInit => AttInv
<1> SUFFICES ASSUME AttInit PROVE AttInv
  OBVIOUS
<1>1. record = <<>> /\ DOMAIN record = {} /\ record \in Seq(Attestations) /\ Len(record) = 0
  BY DEF AttInit
<1>2. TallyOf(record, {}) = NoneYet
  BY FS_EmptySet DEF TallyOf, WithStatus, NoneYet
<1>3. /\ \A g : OfGiver(record, g) = {}
      /\ \A c : OfChain(record, c) = {}
  BY <1>1 DEF OfGiver, OfChain
<1>4. /\ donorAgg = GiverTallies(record)
      /\ chainAgg = ChainTallies(record)
  BY <1>2, <1>3, Zenon DEF AttInit, GiverTallies, ChainTallies
<1>5. WithStatus(record, DOMAIN record, "Pending") = 0
  BY <1>1, FS_EmptySet DEF WithStatus
<1>6. /\ DOMAIN upgradeAtt = {"pending", "effective", "last", "since"}
      /\ upgradeAtt.pending \in AttWasms \cup {NoAttWasm}
  BY DEF AttInit, AttUpgrades!NoUpgrade
<1>7. counts \in Aggregates /\ counts.total = Len(record) /\ counts.pending = 0
  BY <1>1 DEF AttInit, NoneYet, Aggregates
<1>8. AttestedOnce
  <2>1. {<<record[i].chain, record[i].tx>> : i \in DOMAIN record} = {}
    BY <1>1
  <2>2. seen = {}
    BY DEF AttInit
  <2>3. DOMAIN record = {}
    BY <1>1
  <2>4. \A i \in DOMAIN record : FALSE
    BY <2>3
  <2>5. seen = {<<record[i].chain, record[i].tx>> : i \in DOMAIN record}
    BY <2>1, <2>2, Zenon
  <2>6. \A i, j \in DOMAIN record :
          record[i].chain = record[j].chain /\ record[i].tx = record[j].tx => i = j
    BY <2>4
  <2> QED BY <2>5, <2>6, Zenon DEF AttestedOnce
<1>9. /\ relayerSet \in BOOLEAN /\ attPaused \in BOOLEAN /\ allowListed \in BOOLEAN
      /\ allowed \subseteq Chains /\ (allowed # {} => allowListed)
  BY DEF AttInit
<1>10. Len(record) <= MaxRecords
  BY <1>1, AttestationAssumption
<1>11. counts.pending = WithStatus(record, DOMAIN record, "Pending")
  BY <1>5, <1>7
<1>12. record \in Seq(Attestations)
  BY <1>1
<1> QED BY <1>4, <1>6, <1>7, <1>8, <1>9, <1>10, <1>11, <1>12, Zenon DEF AttInv

\* What Adds makes of an aggregate, field by field.
LEMMA AddsFields ==
  ASSUME NEW agg \in Aggregates, NEW n \in Nat
  PROVE  Adds(agg, n) = [total |-> agg.total + n, pending |-> agg.pending + n,
                         verified |-> agg.verified, revoked |-> agg.revoked]
<1> DEFINE more == [agg EXCEPT !.total = agg.total + n]
<1>1. more = [total |-> agg.total + n, pending |-> agg.pending, verified |-> agg.verified,
              revoked |-> agg.revoked]
  BY DEF Aggregates
<1>2. Adds(agg, n) = [more EXCEPT !.pending = @ + n]
  BY DEF Adds
<1> HIDE DEF more
<1> QED BY <1>1, <1>2

\* A set moved up by n has as many members.
LEMMA ShiftedUp ==
  ASSUME NEW n \in Nat, NEW S \in SUBSET Nat, IsFiniteSet(S),
         NEW T, T = {n + i : i \in S}
  PROVE  IsFiniteSet(T) /\ Cardinality(T) = Cardinality(S)
<1> DEFINE up == [i \in S |-> n + i]
<1>1. up \in Surjection(S, T)
  BY DEF Surjection
<1>2. up \in Injection(S, T)
  <2>1. \A i, j \in S : up[i] = up[j] => i = j
    OBVIOUS
  <2>2. up \in [S -> T]
    BY <1>1 DEF Surjection
  <2> HIDE DEF up
  <2> QED BY <2>1, <2>2 DEF Injection, IsInjective
<1> HIDE DEF up
<1> QED BY <1>1, <1>2, FS_Surjection

\* Ids, those of one status among them included, are finitely many.
LEMMA IdsCount ==
  ASSUME NEW rec \in Seq(Attestations), NEW S \in SUBSET DOMAIN rec
  PROVE  /\ IsFiniteSet(S) /\ Cardinality(S) \in Nat
         /\ \A st : /\ IsFiniteSet({i \in S : rec[i].status = st})
                    /\ WithStatus(rec, S, st) \in Nat
<1>1. IsFiniteSet(DOMAIN rec)
  BY FS_Interval DEF Seq
<1>2. IsFiniteSet(S) /\ Cardinality(S) \in Nat
  BY <1>1, FS_Subset, FS_CardinalityType
<1>3. ASSUME NEW st
      PROVE  IsFiniteSet({i \in S : rec[i].status = st}) /\ WithStatus(rec, S, st) \in Nat
  <2> DEFINE T == {i \in S : rec[i].status = st}
  <2>1. T \in SUBSET S
    OBVIOUS
  <2>2. WithStatus(rec, S, st) = Cardinality(T)
    BY DEF WithStatus
  <2> HIDE DEF T
  <2>3. IsFiniteSet(T) /\ Cardinality(T) \in Nat
    BY <1>2, <2>1, FS_Subset, FS_CardinalityType
  <2> QED BY <2>2, <2>3 DEF T
<1> QED BY <1>2, <1>3

LEMMA TalliesCount ==
  ASSUME NEW rec \in Seq(Attestations), NEW S \in SUBSET DOMAIN rec
  PROVE  TallyOf(rec, S) \in Aggregates
BY IdsCount DEF TallyOf, Aggregates


\* The members of two sets apart are those of the one and those of the other.
LEMMA CountApart ==
  ASSUME NEW P, NEW D, IsFiniteSet(P), IsFiniteSet(D), P \cap D = {}, NEW T, T = P \cup D
  PROVE  IsFiniteSet(T) /\ Cardinality(T) = Cardinality(P) + Cardinality(D)
<1>1. /\ IsFiniteSet(P \cup D)
      /\ Cardinality(P \cup D) = Cardinality(P) + Cardinality(D) - Cardinality(P \cap D)
  BY FS_Union
<1>2. Cardinality(P \cap D) = 0
  BY FS_EmptySet
<1>3. Cardinality(P) \in Nat /\ Cardinality(D) \in Nat
  BY FS_CardinalityType
<1> QED BY <1>1, <1>2, <1>3

\* Records that are added, all pending, add to the aggregate of the ids they belong to.
LEMMA RecordsJoin ==
  ASSUME NEW rec \in Seq(Attestations), NEW b \in Seq(Attestations),
         \A i \in DOMAIN b : b[i].status = "Pending",
         NEW A \in SUBSET DOMAIN rec, NEW B \in SUBSET DOMAIN b,
         NEW C, C = A \cup {Len(rec) + i : i \in B}
  PROVE  TallyOf(rec \o b, C) = Adds(TallyOf(rec, A), Cardinality(B))
<1> DEFINE n == Len(rec)
           new == rec \o b
           D == {n + i : i \in B}
<1>1. /\ n \in Nat /\ Len(b) \in Nat /\ DOMAIN rec = 1 .. n /\ DOMAIN b = 1 .. Len(b)
      /\ \A i \in DOMAIN rec : new[i] = rec[i]
      /\ \A i \in DOMAIN b : new[n + i] = b[i]
  OBVIOUS
<1>2. C = A \cup D /\ A \cap D = {} /\ B \in SUBSET Nat
  BY <1>1
<1>3. \A i \in D : new[i].status = "Pending"
  BY <1>1
<1>4. \A i \in A : new[i].status = rec[i].status
  BY <1>1
<1>5. /\ IsFiniteSet(A) /\ Cardinality(A) \in Nat
      /\ IsFiniteSet(B) /\ Cardinality(B) \in Nat
      /\ \A st : /\ IsFiniteSet({i \in A : rec[i].status = st})
                 /\ WithStatus(rec, A, st) \in Nat
  BY IdsCount
<1>6. IsFiniteSet(D) /\ Cardinality(D) = Cardinality(B)
  <2>1. n \in Nat /\ B \in SUBSET Nat /\ IsFiniteSet(B) /\ D = {n + i : i \in B}
    BY <1>1, <1>2, <1>5
  <2> HIDE DEF D, n
  <2> QED BY <2>1, ShiftedUp
<1> HIDE DEF new, D
<1>7. Cardinality(C) = Cardinality(A) + Cardinality(B)
  <2>1. IsFiniteSet(A) /\ IsFiniteSet(D) /\ A \cap D = {} /\ C = A \cup D
    BY <1>2, <1>5, <1>6
  <2>2. Cardinality(C) = Cardinality(A) + Cardinality(D)
    BY <2>1, CountApart
  <2> QED BY <1>6, <2>2
<1>8. WithStatus(new, C, "Pending") = WithStatus(rec, A, "Pending") + Cardinality(B)
  <2> DEFINE P == {i \in A : rec[i].status = "Pending"}
  <2>1. {i \in C : new[i].status = "Pending"} = P \cup D
    BY <1>2, <1>3, <1>4
  <2>2. P \cap D = {} /\ IsFiniteSet(P) /\ Cardinality(P) \in Nat
    BY <1>2, <1>5 DEF WithStatus
  <2>3. WithStatus(new, C, "Pending") = Cardinality(P \cup D)
    BY <2>1 DEF WithStatus
  <2>4. WithStatus(rec, A, "Pending") = Cardinality(P)
    BY DEF WithStatus
  <2> HIDE DEF P
  <2>5. Cardinality(P \cup D) = Cardinality(P) + Cardinality(D)
    BY <1>6, <2>2, CountApart
  <2> QED BY <1>6, <2>3, <2>4, <2>5
<1>9. ASSUME NEW st, st # "Pending"
      PROVE  WithStatus(new, C, st) = WithStatus(rec, A, st)
  <2>1. {i \in C : new[i].status = st} = {i \in A : rec[i].status = st}
    BY <1>2, <1>3, <1>4, <1>9
  <2> QED BY <2>1 DEF WithStatus
<1>10. /\ WithStatus(new, C, "Verified") = WithStatus(rec, A, "Verified")
       /\ WithStatus(new, C, "Revoked") = WithStatus(rec, A, "Revoked")
  BY <1>9
<1>11. TallyOf(new, C) =
         [total |-> Cardinality(A) + Cardinality(B),
          pending |-> WithStatus(rec, A, "Pending") + Cardinality(B),
          verified |-> WithStatus(rec, A, "Verified"), revoked |-> WithStatus(rec, A, "Revoked")]
  BY <1>7, <1>8, <1>10 DEF TallyOf
<1> DEFINE agg == TallyOf(rec, A)
           k == Cardinality(B)
<1>12. agg \in Aggregates /\ k \in Nat
  BY <1>5, TalliesCount
<1>13. /\ agg.total = Cardinality(A) /\ agg.pending = WithStatus(rec, A, "Pending")
       /\ agg.verified = WithStatus(rec, A, "Verified")
       /\ agg.revoked = WithStatus(rec, A, "Revoked")
  BY DEF TallyOf
<1>14. Adds(agg, k) = [total |-> agg.total + k, pending |-> agg.pending + k,
                       verified |-> agg.verified, revoked |-> agg.revoked]
  <2> HIDE DEF agg, k
  <2> QED BY <1>12, AddsFields
<1> HIDE DEF agg
<1> QED BY <1>11, <1>13, <1>14 DEF new, agg

Turned(rec, id, st) == [rec EXCEPT ![id].status = st]

\* A change of status moves a record from one count to another, where it is counted.
LEMMA StatusMoves ==
  ASSUME NEW rec \in Seq(Attestations), NEW S \in SUBSET DOMAIN rec, NEW id \in S,
         NEW st, rec[id].status # st
  PROVE  LET old == rec[id].status
             new == Turned(rec, id, st)
         IN
         /\ WithStatus(rec, S, old) \in Nat \ {0}
         /\ WithStatus(new, S, old) = WithStatus(rec, S, old) - 1
         /\ WithStatus(rec, S, st) \in Nat
         /\ WithStatus(new, S, st) = WithStatus(rec, S, st) + 1
         /\ \A other : other # old /\ other # st =>
              WithStatus(new, S, other) = WithStatus(rec, S, other)
<1> DEFINE old == rec[id].status
           new == Turned(rec, id, st)
<1> DEFINE With(s) == {i \in S : rec[i].status = s}
           Now(s) == {i \in S : new[i].status = s}
<1>1. new[id].status = st /\ \A i \in S \ {id} : new[i] = rec[i]
  BY DEF Attestations, Turned
<1>2. \A s : /\ IsFiniteSet(With(s)) /\ Cardinality(With(s)) \in Nat
             /\ WithStatus(rec, S, s) = Cardinality(With(s))
             /\ WithStatus(new, S, s) = Cardinality(Now(s))
  BY IdsCount DEF WithStatus
<1>3. /\ id \in With(old) /\ id \notin With(st)
      /\ Now(old) = With(old) \ {id} /\ Now(st) = With(st) \cup {id}
      /\ \A other : other # old /\ other # st => Now(other) = With(other)
  BY <1>1
<1> DEFINE P == With(old)
           Q == With(st)
<1>4. IsFiniteSet(P) /\ Cardinality(P) \in Nat /\ IsFiniteSet(Q) /\ Cardinality(Q) \in Nat
  BY <1>2
<1>5. id \in P /\ id \notin Q
  BY <1>3
<1> HIDE DEF With, Now
<1>6. /\ WithStatus(rec, S, old) = Cardinality(P)
      /\ WithStatus(new, S, old) = Cardinality(P \ {id})
      /\ WithStatus(rec, S, st) = Cardinality(Q)
      /\ WithStatus(new, S, st) = Cardinality(Q \cup {id})
  BY <1>2, <1>3
<1>7. \A other : other # old /\ other # st =>
        WithStatus(new, S, other) = WithStatus(rec, S, other)
  BY <1>2, <1>3
<1> HIDE DEF P, Q
<1>8. Cardinality(P \ {id}) = Cardinality(P) - 1 /\ Cardinality(Q \cup {id}) = Cardinality(Q) + 1
  BY <1>4, <1>5, FS_AddElement, FS_RemoveElement
<1>9. Cardinality(P) # 0
  BY <1>4, <1>5, FS_EmptySet
<1> QED BY <1>4, <1>6, <1>7, <1>8, <1>9

\* What is counted elsewhere stays, and a record keeps its donor and chain.
LEMMA StatusStays ==
  ASSUME NEW rec \in Seq(Attestations), NEW id \in DOMAIN rec, NEW st \in AttStatuses,
         NEW new, new = Turned(rec, id, st)
  PROVE  /\ new \in Seq(Attestations) /\ Len(new) = Len(rec) /\ DOMAIN new = DOMAIN rec
         /\ \A i \in DOMAIN rec : /\ new[i].chain = rec[i].chain /\ new[i].tx = rec[i].tx
                                  /\ new[i].donor = rec[i].donor
         /\ \A g : OfGiver(new, g) = OfGiver(rec, g)
         /\ \A c : OfChain(new, c) = OfChain(rec, c)
         /\ \A S \in SUBSET DOMAIN rec : id \notin S => TallyOf(new, S) = TallyOf(rec, S)
<1>1. rec[id] \in Attestations /\ [rec[id] EXCEPT !.status = st] \in Attestations
  <2>1. rec[id] \in Attestations
    OBVIOUS
  <2> QED BY <2>1 DEF Attestations
<1>2. new \in Seq(Attestations) /\ Len(new) = Len(rec) /\ DOMAIN new = DOMAIN rec
  BY <1>1 DEF Turned
<1>3. /\ \A i \in DOMAIN rec \ {id} : new[i] = rec[i]
      /\ new[id] = [rec[id] EXCEPT !.status = st]
  BY DEF Turned
<1>4. \A i \in DOMAIN rec : /\ new[i].chain = rec[i].chain /\ new[i].tx = rec[i].tx
                            /\ new[i].donor = rec[i].donor
  BY <1>1, <1>3 DEF Attestations
<1>5. /\ \A g : OfGiver(new, g) = OfGiver(rec, g)
      /\ \A c : OfChain(new, c) = OfChain(rec, c)
  BY <1>2, <1>4 DEF OfGiver, OfChain
<1>6. ASSUME NEW S \in SUBSET DOMAIN rec, id \notin S
      PROVE  TallyOf(new, S) = TallyOf(rec, S)
  <2>1. \A s : {i \in S : new[i].status = s} = {i \in S : rec[i].status = s}
    BY <1>3, <1>6
  <2>2. \A s : WithStatus(new, S, s) = WithStatus(rec, S, s)
    BY <2>1 DEF WithStatus
  <2> QED BY <2>2 DEF TallyOf
<1> QED BY <1>2, <1>4, <1>5, <1>6


\* The records of a batch, from the relayer's input.
LEMMA RecordKeepsAttestations ==
  ASSUME AttInv, NEW chain \in Chains, NEW batch \in Batches, RecordAttestations(chain, batch)
  PROVE  AttInv'
<1> DEFINE b == [i \in DOMAIN batch |-> [chain |-> chain, tx |-> batch[i].tx,
                                         donor |-> batch[i].donor, status |-> "Pending"]]
           n == Len(record)
           new == record \o b
<1>1. /\ batch \in Seq([tx : TxHashes, donor : Givers]) /\ Len(batch) \in Nat
      /\ DOMAIN batch = 1 .. Len(batch)
  <2> DEFINE Input == [tx : TxHashes, donor : Givers]
  <2>1. (\E x \in Input : batch = <<x>>) \/ (\E x, y \in Input : batch = <<x, y>>)
    BY DEF Batches
  <2> HIDE DEF Input
  <2>2. batch \in Seq(Input) /\ Len(batch) \in Nat /\ DOMAIN batch = 1 .. Len(batch)
    <3>1. ASSUME NEW x \in Input, batch = <<x>> PROVE batch \in Seq(Input)
      BY <3>1
    <3>2. ASSUME NEW x \in Input, NEW y \in Input, batch = <<x, y>> PROVE batch \in Seq(Input)
      BY <3>2
    <3>3. batch \in Seq(Input)
      BY <2>1, <3>1, <3>2
    <3> QED BY <3>3
  <2> QED BY <2>2 DEF Input
<1>2. b \in Seq(Attestations) /\ Len(b) = Len(batch) /\ DOMAIN b = DOMAIN batch
      /\ \A i \in DOMAIN batch : /\ b[i].chain = chain /\ b[i].tx = batch[i].tx
                                 /\ b[i].donor = batch[i].donor /\ b[i].status = "Pending"
  <2>1. \A i \in DOMAIN batch : b[i] \in Attestations
    <3>1. \A i \in DOMAIN batch : batch[i] \in [tx : TxHashes, donor : Givers]
      <4> DEFINE Input == [tx : TxHashes, donor : Givers]
      <4>1. batch \in Seq(Input)
        BY <1>1
      <4> HIDE DEF Input
      <4>2. \A i \in DOMAIN batch : batch[i] \in Input
        BY <4>1
      <4> QED BY <4>2 DEF Input
    <3> QED BY <3>1 DEF Attestations, AttStatuses
  <2>2. b \in [1 .. Len(batch) -> Attestations]
    BY <1>1, <2>1
  <2>3. b \in Seq(Attestations) /\ Len(b) = Len(batch)
    BY <1>1, <2>2, SeqDef
  <2> QED BY <2>3
<1> HIDE DEF b
<1>3. /\ record' = new /\ Unseen(chain, batch) /\ n + Len(batch) <= MaxRecords
      /\ seen' = seen \cup {<<chain, batch[i].tx>> : i \in DOMAIN batch}
      /\ counts' = Adds(counts, Len(batch))
      /\ donorAgg' = [g \in Givers |->
           Adds(donorAgg[g], Cardinality({i \in DOMAIN batch : batch[i].donor = g}))]
      /\ chainAgg' = [chainAgg EXCEPT ![chain] = Adds(@, Len(batch))]
      /\ UNCHANGED <<setUp, upgradeAtt>>
  BY DEF RecordAttestations, b
<1>4. /\ record \in Seq(Attestations) /\ n \in Nat /\ DOMAIN record = 1 .. n
      /\ new \in Seq(Attestations) /\ Len(new) = n + Len(batch)
      /\ DOMAIN new = DOMAIN record \cup {n + i : i \in DOMAIN batch}
      /\ \A i \in DOMAIN record : new[i] = record[i]
      /\ \A i \in DOMAIN batch : new[n + i] = b[i]
  <2>1. record \in Seq(Attestations)
    BY DEF AttInv
  <2>2. n \in Nat /\ DOMAIN record = 1 .. n /\ new \in Seq(Attestations) /\ Len(new) = n + Len(b)
    <3>1. b \in Seq(Attestations)
      BY <1>2
    <3>2. new \in Seq(Attestations) /\ Len(new) = n + Len(b)
      BY <2>1, <3>1
    <3>3. n \in Nat /\ DOMAIN record = 1 .. n
      BY <2>1
    <3> QED BY <3>2, <3>3
  <2>3. DOMAIN new = 1 .. n + Len(batch) /\ DOMAIN batch = 1 .. Len(batch)
    BY <1>1, <1>2, <2>2
  <2>4. /\ \A i \in DOMAIN record : new[i] = record[i]
        /\ \A i \in DOMAIN batch : new[n + i] = b[i]
    BY <1>1, <1>2, <2>1
  <2>5. DOMAIN new = DOMAIN record \cup {n + i : i \in DOMAIN batch}
    <3>1. ASSUME NEW i \in DOMAIN new, i \notin DOMAIN record PROVE i - n \in DOMAIN batch
      BY <1>1, <2>2, <2>3, <3>1
    <3>2. ASSUME NEW i \in DOMAIN new, i \notin DOMAIN record PROVE i = n + (i - n)
      BY <2>2, <2>3
    <3>3. \A i \in DOMAIN batch : n + i \in DOMAIN new
      BY <1>1, <2>2, <2>3
    <3>4. DOMAIN record \subseteq DOMAIN new
      BY <1>1, <2>2, <2>3
    <3> QED BY <3>1, <3>2, <3>3, <3>4
  <2> QED BY <1>2, <2>1, <2>2, <2>4, <2>5
<1> HIDE DEF new
<1>5. ASSUME NEW A \in SUBSET DOMAIN record, NEW B \in SUBSET DOMAIN batch,
             NEW C, C = A \cup {n + i : i \in B}
      PROVE  TallyOf(new, C) = Adds(TallyOf(record, A), Cardinality(B))
  <2>1. \A i \in DOMAIN b : b[i].status = "Pending"
    BY <1>2
  <2>2. B \in SUBSET DOMAIN b
    BY <1>2
  <2> QED BY <1>2, <1>4, <1>5, <2>1, <2>2, RecordsJoin DEF new
<1>6. IsFiniteSet(DOMAIN batch) /\ Cardinality(DOMAIN batch) = Len(batch)
  BY <1>1, FS_Interval
<1>7. donorAgg' = GiverTallies(new)
  <2>1. ASSUME NEW g \in Givers
        PROVE  TallyOf(new, OfGiver(new, g))
                 = Adds(donorAgg[g], Cardinality({i \in DOMAIN batch : batch[i].donor = g}))
    <3> DEFINE A == OfGiver(record, g)
               B == {i \in DOMAIN batch : batch[i].donor = g}
    <3>1. OfGiver(new, g) = A \cup {n + i : i \in B}
      <4>1. \A i \in DOMAIN record : (i \in OfGiver(new, g)) = (i \in A)
        BY <1>4 DEF OfGiver
      <4>2. \A i \in DOMAIN batch : (n + i \in OfGiver(new, g)) = (i \in B)
        BY <1>2, <1>4 DEF OfGiver
      <4>3. OfGiver(new, g) \subseteq DOMAIN new /\ A \subseteq DOMAIN record
        BY DEF OfGiver
      <4>4. B \subseteq DOMAIN batch
        OBVIOUS
      <4> HIDE DEF A, B
      <4> QED BY <1>4, <4>1, <4>2, <4>3, <4>4
    <3>2. A \in SUBSET DOMAIN record /\ B \in SUBSET DOMAIN batch
      BY DEF OfGiver
    <3>3. donorAgg[g] = TallyOf(record, A)
      BY DEF AttInv, GiverTallies
    <3> HIDE DEF A
    <3>4. TallyOf(new, OfGiver(new, g)) = Adds(TallyOf(record, A), Cardinality(B))
      BY <1>5, <3>1, <3>2
    <3> QED BY <3>3, <3>4
  <2> QED BY <1>3, <2>1, Zenon DEF GiverTallies
<1>8. chainAgg' = ChainTallies(new)
  <2>1. ASSUME NEW c \in Chains, c # chain
        PROVE  TallyOf(new, OfChain(new, c)) = TallyOf(record, OfChain(record, c))
    <3>1. OfChain(new, c) = OfChain(record, c)
      BY <1>2, <1>4, <2>1 DEF OfChain
    <3>2. \A i \in OfChain(record, c) : new[i] = record[i]
      BY <1>4 DEF OfChain
    <3>3. \A s : WithStatus(new, OfChain(record, c), s) = WithStatus(record, OfChain(record, c), s)
      <4>1. ASSUME NEW s
            PROVE  {i \in OfChain(record, c) : new[i].status = s}
                     = {i \in OfChain(record, c) : record[i].status = s}
        BY <3>2
      <4> QED BY <4>1 DEF WithStatus
    <3> QED BY <3>1, <3>3 DEF TallyOf
  <2>2. TallyOf(new, OfChain(new, chain)) = Adds(TallyOf(record, OfChain(record, chain)), Len(batch))
    <3> DEFINE A == OfChain(record, chain)
    <3>1. OfChain(new, chain) = A \cup {n + i : i \in DOMAIN batch}
      BY <1>2, <1>4 DEF OfChain
    <3>2. A \in SUBSET DOMAIN record
      BY DEF OfChain
    <3> HIDE DEF A
    <3>3. TallyOf(new, OfChain(new, chain)) = Adds(TallyOf(record, A), Cardinality(DOMAIN batch))
      BY <1>5, <3>1, <3>2
    <3> QED BY <1>6, <3>3 DEF A
  <2>3. chainAgg = [c \in Chains |-> TallyOf(record, OfChain(record, c))]
    BY DEF AttInv, ChainTallies
  <2>4. chainAgg' = [c \in Chains |-> IF c = chain THEN Adds(chainAgg[chain], Len(batch))
                                                   ELSE chainAgg[c]]
    BY <1>3, <2>3
  <2>5. ASSUME NEW c \in Chains PROVE chainAgg'[c] = TallyOf(new, OfChain(new, c))
    <3>1. CASE c = chain
      BY <2>2, <2>3, <2>4, <3>1, Zenon
    <3>2. CASE c # chain
      <4>1. TallyOf(new, OfChain(new, c)) = TallyOf(record, OfChain(record, c))
        BY <2>1, <3>2
      <4>2. chainAgg'[c] = chainAgg[c]
        BY <2>4, <3>2
      <4>3. chainAgg[c] = TallyOf(record, OfChain(record, c))
        BY <2>3
      <4> QED BY <4>1, <4>2, <4>3
    <3> QED BY <3>1, <3>2
  <2> QED BY <2>4, <2>5, Zenon DEF ChainTallies
<1>9. /\ counts' \in Aggregates /\ counts'.total = Len(new)
      /\ counts'.pending = WithStatus(new, DOMAIN new, "Pending")
  <2>1. TallyOf(new, DOMAIN new) = Adds(TallyOf(record, DOMAIN record), Cardinality(DOMAIN batch))
    BY <1>4, <1>5
  <2> DEFINE k == Len(batch)
             t == Cardinality(DOMAIN record)
             p == WithStatus(record, DOMAIN record, "Pending")
             agg == TallyOf(record, DOMAIN record)
  <2>2. t \in Nat /\ p \in Nat /\ k \in Nat /\ t = n
    <3>1. Cardinality(1 .. n) = n
      <4>1. n \in Nat
        BY <1>4
      <4> HIDE DEF n
      <4> QED BY <4>1, FS_Interval
    <3>2. DOMAIN record \in SUBSET DOMAIN record
      OBVIOUS
    <3>3. p \in Nat
      BY <1>4, <3>2, IdsCount
    <3> QED BY <1>1, <1>4, <3>1, <3>3
  <2>3. agg \in Aggregates /\ agg.pending = p
    <3>1. DOMAIN record \in SUBSET DOMAIN record
      OBVIOUS
    <3> QED BY <1>4, <3>1, TalliesCount DEF TallyOf
  <2>4. /\ counts \in Aggregates /\ counts.total = n /\ counts.pending = p
    BY DEF AttInv
  <2>5. TallyOf(new, DOMAIN new) = Adds(agg, k)
    BY <1>6, <2>1
  <2>6. counts' = Adds(counts, k)
    BY <1>3
  <2> HIDE DEF t, p, k, agg, n
  <2>7. Adds(agg, k).pending = p + k
    BY <2>2, <2>3, AddsFields
  <2>8. WithStatus(new, DOMAIN new, "Pending") = p + k
    BY <2>5, <2>7 DEF TallyOf
  <2>9. Adds(counts, k) = [total |-> n + k, pending |-> p + k, verified |-> counts.verified,
                           revoked |-> counts.revoked]
    BY <2>2, <2>4, AddsFields
  <2>10. counts.verified \in Nat /\ counts.revoked \in Nat
    BY <2>4 DEF Aggregates
  <2>11. Len(new) = n + k /\ n + k \in Nat /\ p + k \in Nat
    BY <1>4, <2>2 DEF k, n
  <2>12. Adds(counts, k) \in Aggregates
    BY <2>9, <2>10, <2>11 DEF Aggregates
  <2> QED BY <2>6, <2>8, <2>9, <2>11, <2>12
<1>10. AttestedOnce'
  <2>1. /\ \A i, j \in DOMAIN record :
             record[i].chain = record[j].chain /\ record[i].tx = record[j].tx => i = j
        /\ seen = {<<record[i].chain, record[i].tx>> : i \in DOMAIN record}
    BY DEF AttInv, AttestedOnce
  <2>2. /\ \A i \in DOMAIN batch : <<chain, batch[i].tx>> \notin seen
        /\ \A i, j \in DOMAIN batch : batch[i].tx = batch[j].tx => i = j
    BY <1>3 DEF Unseen
  <2>3. ASSUME NEW i \in DOMAIN record, NEW j \in DOMAIN batch
        PROVE  ~(record[i].chain = chain /\ record[i].tx = batch[j].tx)
    BY <2>1, <2>2
  <2>4. \A i, j \in DOMAIN new :
          new[i].chain = new[j].chain /\ new[i].tx = new[j].tx => i = j
    <3>1. ASSUME NEW i \in DOMAIN new, NEW j \in DOMAIN new,
                 new[i].chain = new[j].chain, new[i].tx = new[j].tx
          PROVE  i = j
      <4>1. CASE i \in DOMAIN record /\ j \in DOMAIN record
        BY <1>4, <2>1, <3>1, <4>1
      <4>2. ASSUME i \in DOMAIN record, NEW l \in DOMAIN batch, j = n + l PROVE FALSE
        BY <1>2, <1>4, <2>3, <3>1, <4>2
      <4>3. ASSUME j \in DOMAIN record, NEW l \in DOMAIN batch, i = n + l PROVE FALSE
        BY <1>2, <1>4, <2>3, <3>1, <4>3
      <4>4. ASSUME NEW l \in DOMAIN batch, i = n + l, NEW m \in DOMAIN batch, j = n + m
            PROVE  i = j
        BY <1>2, <1>4, <2>2, <3>1, <4>4
      <4> QED BY <1>4, <4>1, <4>2, <4>3, <4>4
    <3> QED BY <3>1
  <2>5. seen' = {<<new[i].chain, new[i].tx>> : i \in DOMAIN new}
    <3>1. {<<new[i].chain, new[i].tx>> : i \in DOMAIN new}
            = {<<new[i].chain, new[i].tx>> : i \in DOMAIN record}
              \cup {<<new[n + i].chain, new[n + i].tx>> : i \in DOMAIN batch}
      BY <1>4
    <3>2. {<<new[i].chain, new[i].tx>> : i \in DOMAIN record} = seen
      BY <1>4, <2>1
    <3>3. {<<new[n + i].chain, new[n + i].tx>> : i \in DOMAIN batch}
            = {<<chain, batch[i].tx>> : i \in DOMAIN batch}
      <4>1. \A i \in DOMAIN batch : new[n + i].chain = chain /\ new[n + i].tx = batch[i].tx
        BY <1>2, <1>4
      <4> HIDE DEF n
      <4> QED BY <4>1, Zenon
    <3> QED BY <1>3, <3>1, <3>2, <3>3
  <2> QED BY <1>3, <2>4, <2>5 DEF AttestedOnce
<1>11. new \in Seq(Attestations) /\ Len(new) <= MaxRecords
  BY <1>3, <1>4
<1> QED BY <1>3, <1>7, <1>8, <1>9, <1>10, <1>11 DEF AttInv, setUp


\* A record that changes its status keeps the attestations those of their transactions.
LEMMA StatusKeepsOnce ==
  ASSUME AttInv, NEW id \in DOMAIN record, NEW st \in AttStatuses,
         record' = Turned(record, id, st), UNCHANGED seen
  PROVE  AttestedOnce'
<1> DEFINE new == Turned(record, id, st)
<1>1. record \in Seq(Attestations)
  BY DEF AttInv
<1>2. /\ DOMAIN new = DOMAIN record
      /\ \A i \in DOMAIN record : new[i].chain = record[i].chain /\ new[i].tx = record[i].tx
  BY <1>1, StatusStays
<1>3. /\ \A i, j \in DOMAIN record :
           record[i].chain = record[j].chain /\ record[i].tx = record[j].tx => i = j
      /\ seen = {<<record[i].chain, record[i].tx>> : i \in DOMAIN record}
  BY DEF AttInv, AttestedOnce
<1>4. record' = new
  OBVIOUS
<1> HIDE DEF new
<1>5. {<<new[i].chain, new[i].tx>> : i \in DOMAIN new}
        = {<<record[i].chain, record[i].tx>> : i \in DOMAIN record}
  BY <1>2
<1>6. \A i, j \in DOMAIN new : new[i].chain = new[j].chain /\ new[i].tx = new[j].tx => i = j
  BY <1>2, <1>3
<1> QED BY <1>3, <1>4, <1>5, <1>6 DEF AttestedOnce

\* What an aggregate becomes when one of its records changes its status.
Moved(agg, old, st) ==
  [total |-> agg.total,
   pending |-> IF old = "Pending" THEN agg.pending - 1
               ELSE IF st = "Pending" THEN agg.pending + 1 ELSE agg.pending,
   verified |-> IF old = "Verified" THEN agg.verified - 1
                ELSE IF st = "Verified" THEN agg.verified + 1 ELSE agg.verified,
   revoked |-> IF old = "Revoked" THEN agg.revoked - 1
               ELSE IF st = "Revoked" THEN agg.revoked + 1 ELSE agg.revoked]

LEMMA TallyMoves ==
  ASSUME NEW rec \in Seq(Attestations), NEW S \in SUBSET DOMAIN rec, NEW id \in S,
         NEW old \in AttStatuses, NEW st \in AttStatuses, old # st, rec[id].status = old,
         NEW new, new = Turned(rec, id, st)
  PROVE  /\ TallyOf(new, S) = Moved(TallyOf(rec, S), old, st)
         /\ TallyOf(rec, S) \in Aggregates
         /\ old = "Pending" => TallyOf(rec, S).pending > 0
         /\ old = "Verified" => TallyOf(rec, S).verified > 0
<1>1. /\ WithStatus(rec, S, old) \in Nat \ {0}
      /\ WithStatus(new, S, old) = WithStatus(rec, S, old) - 1
      /\ WithStatus(rec, S, st) \in Nat
      /\ WithStatus(new, S, st) = WithStatus(rec, S, st) + 1
      /\ \A other : other # old /\ other # st => WithStatus(new, S, other) = WithStatus(rec, S, other)
  BY StatusMoves
<1>2. TallyOf(rec, S) \in Aggregates
  BY TalliesCount
<1>3. ASSUME NEW s \in AttStatuses
      PROVE  WithStatus(new, S, s) = IF old = s THEN WithStatus(rec, S, s) - 1
                                     ELSE IF st = s THEN WithStatus(rec, S, s) + 1
                                     ELSE WithStatus(rec, S, s)
  BY <1>1
<1>4. TallyOf(new, S) = Moved(TallyOf(rec, S), old, st)
  BY <1>3 DEF TallyOf, Moved, AttStatuses
<1>5. /\ old = "Pending" => TallyOf(rec, S).pending > 0
      /\ old = "Verified" => TallyOf(rec, S).verified > 0
  BY <1>1 DEF TallyOf
<1> QED BY <1>2, <1>4, <1>5

\* A change of status that moves the aggregates of its donor and chain.
LEMMA StatusKeepsAggregates ==
  ASSUME AttInv, NEW id \in DOMAIN record, NEW st \in AttStatuses,
         NEW old \in AttStatuses, old # st, record[id].status = old,
         NEW new, new = Turned(record, id, st)
  PROVE  /\ record[id].donor \in Givers /\ record[id].chain \in Chains
         /\ GiverTallies(new)
              = [donorAgg EXCEPT ![record[id].donor] = Moved(@, old, st)]
         /\ ChainTallies(new)
              = [chainAgg EXCEPT ![record[id].chain] = Moved(@, old, st)]
         /\ donorAgg[record[id].donor] \in Aggregates
         /\ chainAgg[record[id].chain] \in Aggregates
         /\ old = "Pending" => /\ donorAgg[record[id].donor].pending > 0
                               /\ chainAgg[record[id].chain].pending > 0
         /\ old = "Verified" => /\ donorAgg[record[id].donor].verified > 0
                                /\ chainAgg[record[id].chain].verified > 0
<1> DEFINE d == record[id].donor
           k == record[id].chain
<1>1. record \in Seq(Attestations)
  BY DEF AttInv
<1>2. record[id] \in Attestations
  BY <1>1
<1>3. d \in Givers /\ k \in Chains
  BY <1>2 DEF Attestations
<1>4. /\ \A g : OfGiver(new, g) = OfGiver(record, g)
      /\ \A c : OfChain(new, c) = OfChain(record, c)
      /\ \A S \in SUBSET DOMAIN record : id \notin S => TallyOf(new, S) = TallyOf(record, S)
  BY <1>1, StatusStays
<1>5. /\ \A g : OfGiver(record, g) \in SUBSET DOMAIN record
      /\ \A c : OfChain(record, c) \in SUBSET DOMAIN record
      /\ \A g : id \in OfGiver(record, g) <=> g = d
      /\ \A c : id \in OfChain(record, c) <=> c = k
  BY DEF OfGiver, OfChain
<1>6. /\ donorAgg = [g \in Givers |-> TallyOf(record, OfGiver(record, g))]
      /\ chainAgg = [c \in Chains |-> TallyOf(record, OfChain(record, c))]
  BY DEF AttInv, GiverTallies, ChainTallies
<1> HIDE DEF d, k
<1>7. ASSUME NEW S \in SUBSET DOMAIN record, id \in S
      PROVE  /\ TallyOf(new, S) = Moved(TallyOf(record, S), old, st)
             /\ TallyOf(record, S) \in Aggregates
             /\ old = "Pending" => TallyOf(record, S).pending > 0
             /\ old = "Verified" => TallyOf(record, S).verified > 0
  BY <1>1, <1>7, TallyMoves
<1>8. GiverTallies(new) = [donorAgg EXCEPT ![d] = Moved(@, old, st)]
  <2>1. ASSUME NEW g \in Givers
        PROVE  TallyOf(new, OfGiver(new, g))
                 = IF g = d THEN Moved(donorAgg[d], old, st) ELSE donorAgg[g]
    <3>1. donorAgg[g] = TallyOf(record, OfGiver(record, g))
      BY <1>6
    <3>2. CASE g = d
      BY <1>4, <1>5, <1>7, <3>1, <3>2
    <3>3. CASE g # d
      BY <1>4, <1>5, <3>1, <3>3
    <3> QED BY <3>2, <3>3
  <2>2. [donorAgg EXCEPT ![d] = Moved(@, old, st)]
          = [g \in Givers |-> IF g = d THEN Moved(donorAgg[d], old, st) ELSE donorAgg[g]]
    BY <1>6
  <2> QED BY <2>1, <2>2, Zenon DEF GiverTallies
<1>9. ChainTallies(new) = [chainAgg EXCEPT ![k] = Moved(@, old, st)]
  <2>1. ASSUME NEW c \in Chains
        PROVE  TallyOf(new, OfChain(new, c))
                 = IF c = k THEN Moved(chainAgg[k], old, st) ELSE chainAgg[c]
    <3>1. chainAgg[c] = TallyOf(record, OfChain(record, c))
      BY <1>6
    <3>2. CASE c = k
      BY <1>4, <1>5, <1>7, <3>1, <3>2
    <3>3. CASE c # k
      BY <1>4, <1>5, <3>1, <3>3
    <3> QED BY <3>2, <3>3
  <2>2. [chainAgg EXCEPT ![k] = Moved(@, old, st)]
          = [c \in Chains |-> IF c = k THEN Moved(chainAgg[k], old, st) ELSE chainAgg[c]]
    BY <1>6
  <2> QED BY <2>1, <2>2, Zenon DEF ChainTallies
<1>10. /\ donorAgg[d] \in Aggregates /\ chainAgg[k] \in Aggregates
       /\ old = "Pending" => donorAgg[d].pending > 0 /\ chainAgg[k].pending > 0
       /\ old = "Verified" => donorAgg[d].verified > 0 /\ chainAgg[k].verified > 0
  <2>1. donorAgg[d] = TallyOf(record, OfGiver(record, d))
        /\ chainAgg[k] = TallyOf(record, OfChain(record, k))
    BY <1>3, <1>6
  <2>2. id \in OfGiver(record, d) /\ id \in OfChain(record, k)
    BY <1>5
  <2> QED BY <1>5, <1>7, <2>1, <2>2
<1> QED BY <1>3, <1>8, <1>9, <1>10 DEF d, k

\* The counters, which know the pending records.
LEMMA StatusKeepsCounts ==
  ASSUME AttInv, NEW id \in DOMAIN record, NEW st \in AttStatuses, st # "Pending",
         record[id].status # st,
         NEW new, new = Turned(record, id, st)
  PROVE  LET p == WithStatus(record, DOMAIN record, "Pending")
         IN  /\ p \in Nat
             /\ record[id].status = "Pending" =>
                  p > 0 /\ WithStatus(new, DOMAIN new, "Pending") = p - 1
             /\ record[id].status # "Pending" => WithStatus(new, DOMAIN new, "Pending") = p
<1> DEFINE S == DOMAIN record
           old == record[id].status
           p == WithStatus(record, S, "Pending")
<1>1. record \in Seq(Attestations) /\ S \in SUBSET DOMAIN record /\ DOMAIN new = S
  BY DEF AttInv, Turned
<1> HIDE DEF S, old
<1>2. /\ WithStatus(record, S, old) \in Nat \ {0}
      /\ WithStatus(new, S, old) = WithStatus(record, S, old) - 1
      /\ \A other : other # old /\ other # st =>
           WithStatus(new, S, other) = WithStatus(record, S, other)
  <2>1. id \in S /\ old # st /\ record[id].status = old
    BY DEF S, old
  <2> QED BY <1>1, <2>1, StatusMoves
<1>3. p \in Nat
  BY <1>1, IdsCount
<1> QED BY <1>1, <1>2, <1>3 DEF S, old, p


\* What the code does to the aggregates of a pending or a verified record: nothing is saturated.
LEMMA CodeMoves ==
  ASSUME NEW agg \in Aggregates
  PROVE  /\ agg.pending > 0 => /\ Verifies(agg) = Moved(agg, "Pending", "Verified")
                               /\ Revokes(agg, TRUE) = Moved(agg, "Pending", "Revoked")
         /\ agg.verified > 0 => Revokes(agg, FALSE) = Moved(agg, "Verified", "Revoked")
<1>1. /\ agg = [total |-> agg.total, pending |-> agg.pending, verified |-> agg.verified,
                revoked |-> agg.revoked]
      /\ agg.pending \in Nat /\ agg.verified \in Nat /\ agg.revoked \in Nat
  BY DEF Aggregates
<1>2. ASSUME agg.pending > 0
      PROVE  /\ Verifies(agg) = Moved(agg, "Pending", "Verified")
             /\ Revokes(agg, TRUE) = Moved(agg, "Pending", "Revoked")
  <2>1. Verifies(agg) = [agg EXCEPT !.pending = agg.pending - 1, !.verified = agg.verified + 1]
    BY <1>1, <1>2 DEF Verifies, Less
  <2>2. Revokes(agg, TRUE) = [agg EXCEPT !.pending = agg.pending - 1, !.revoked = agg.revoked + 1]
    BY <1>1, <1>2 DEF Revokes, Less
  <2> QED BY <1>1, <2>1, <2>2 DEF Moved
<1>3. ASSUME agg.verified > 0 PROVE Revokes(agg, FALSE) = Moved(agg, "Verified", "Revoked")
  BY <1>1, <1>3 DEF Revokes, Moved, Less
<1> QED BY <1>2, <1>3

\* A record that changes its status, with the aggregates and the counters as they should.
LEMMA StatusKeepsAttestations ==
  ASSUME AttInv, NEW id \in DOMAIN record, NEW st \in {"Verified", "Revoked"},
         NEW old \in AttStatuses, old # st, record[id].status = old,
         record' = Turned(record, id, st),
         donorAgg' = [donorAgg EXCEPT ![record[id].donor] = Moved(@, old, st)],
         chainAgg' = [chainAgg EXCEPT ![record[id].chain] = Moved(@, old, st)],
         counts' = [counts EXCEPT !.pending = IF old = "Pending" THEN Less(@) ELSE @],
         UNCHANGED <<relayerSet, attPaused, allowListed, allowed, seen, upgradeAtt>>
  PROVE  AttInv'
<1> DEFINE new == Turned(record, id, st)
<1>1. record \in Seq(Attestations) /\ st \in AttStatuses /\ Len(record) <= MaxRecords
  BY DEF AttInv, AttStatuses
<1>2. new \in Seq(Attestations) /\ Len(new) = Len(record) /\ record' = new
  BY <1>1, StatusStays
<1>3. AttestedOnce'
  BY <1>1, StatusKeepsOnce
<1>4. /\ GiverTallies(new)
           = [donorAgg EXCEPT ![record[id].donor] = Moved(@, old, st)]
      /\ ChainTallies(new)
           = [chainAgg EXCEPT ![record[id].chain] = Moved(@, old, st)]
  <2>1. new = Turned(record, id, st)
    OBVIOUS
  <2> HIDE DEF new
  <2> QED BY <1>1, <2>1, StatusKeepsAggregates
<1> DEFINE p == WithStatus(record, DOMAIN record, "Pending")
           q == WithStatus(new, DOMAIN new, "Pending")
<1>5. /\ p \in Nat
      /\ old = "Pending" => p > 0 /\ q = p - 1
      /\ old # "Pending" => q = p
  BY <1>1, StatusKeepsCounts
<1>6. counts \in Aggregates /\ counts.total = Len(record) /\ counts.pending = p
  BY DEF AttInv
<1> HIDE DEF new, p, q
<1>7. counts' \in Aggregates /\ counts'.total = Len(new) /\ counts'.pending = q
  <2>1. CASE old = "Pending"
    <3>1. q = IF p > 0 THEN p - 1 ELSE 0
      BY <1>5, <2>1
    <3>2. q \in Nat
      BY <1>5, <2>1
    <3>3. counts' = [counts EXCEPT !.pending = q]
      BY <1>6, <2>1, <3>1 DEF Less
    <3> QED BY <1>2, <1>6, <3>2, <3>3 DEF Aggregates
  <2>2. CASE old # "Pending"
    <3>1. counts' = [counts EXCEPT !.pending = counts.pending]
      BY <2>2
    <3>2. counts' = counts
      BY <1>6, <3>1 DEF Aggregates
    <3> QED BY <1>2, <1>5, <1>6, <2>2, <3>2
  <2> QED BY <2>1, <2>2
<1>8. /\ donorAgg' = GiverTallies(new)
      /\ chainAgg' = ChainTallies(new)
  BY <1>4
<1>9. Len(new) <= MaxRecords
  BY <1>1, <1>2
<1>10. /\ relayerSet' \in BOOLEAN /\ attPaused' \in BOOLEAN /\ allowListed' \in BOOLEAN
       /\ allowed' \subseteq Chains /\ (allowed' # {} => allowListed')
       /\ DOMAIN upgradeAtt' = {"pending", "effective", "last", "since"}
       /\ upgradeAtt'.pending \in AttWasms \cup {NoAttWasm}
  BY DEF AttInv
<1>11. q = WithStatus(new, DOMAIN new, "Pending")
  BY DEF q
<1> QED BY <1>2, <1>3, <1>7, <1>8, <1>9, <1>10, <1>11 DEF AttInv

LEMMA AttestationKeeps == AttInv /\ [AttNext]_attVars => AttInv'
<1> SUFFICES ASSUME AttInv, [AttNext]_attVars PROVE AttInv'
  OBVIOUS
<1> USE DEF setUp, attested
<1>1. ASSUME UNCHANGED attested, relayerSet' \in BOOLEAN, attPaused' \in BOOLEAN,
             allowListed' \in BOOLEAN, allowed' \subseteq Chains, allowed' # {} => allowListed',
             DOMAIN upgradeAtt' = {"pending", "effective", "last", "since"},
             upgradeAtt'.pending \in AttWasms \cup {NoAttWasm}
      PROVE  AttInv'
  <2>1. AttestedOnce'
    BY <1>1 DEF AttInv, AttestedOnce
  <2>2. /\ record' \in Seq(Attestations) /\ Len(record') <= MaxRecords
        /\ donorAgg' = GiverTallies(record')
        /\ chainAgg' = ChainTallies(record')
        /\ counts' \in Aggregates /\ counts'.total = Len(record')
        /\ counts'.pending = WithStatus(record', DOMAIN record', "Pending")
    BY <1>1 DEF AttInv
  <2> QED BY <1>1, <2>1, <2>2 DEF AttInv
<1>2. /\ relayerSet \in BOOLEAN /\ attPaused \in BOOLEAN /\ allowListed \in BOOLEAN
      /\ allowed \subseteq Chains /\ (allowed # {} => allowListed)
      /\ DOMAIN upgradeAtt = {"pending", "effective", "last", "since"}
      /\ upgradeAtt.pending \in AttWasms \cup {NoAttWasm}
  BY DEF AttInv
<1>3. CASE AttestationCloses
  BY <1>1, <1>2, <1>3 DEF AttestationCloses
<1>4. CASE SetRelayer
  BY <1>1, <1>2, <1>4 DEF SetRelayer
<1>5. CASE Pause
  BY <1>1, <1>2, <1>5 DEF Pause
<1>6. CASE UpgradeAttestation
  <2>1. UNCHANGED <<setUp, attested>>
    BY <1>6 DEF UpgradeAttestation
  <2>2. /\ DOMAIN upgradeAtt' = {"pending", "effective", "last", "since"}
        /\ upgradeAtt'.pending \in AttWasms \cup {NoAttWasm}
    <3>1. ASSUME NEW w \in AttWasms, AttUpgrades!ProposeUpgrade(w)
          PROVE  /\ DOMAIN upgradeAtt' = {"pending", "effective", "last", "since"}
                 /\ upgradeAtt'.pending \in AttWasms \cup {NoAttWasm}
      BY <1>2, <3>1 DEF AttUpgrades!ProposeUpgrade
    <3>2. ASSUME AttUpgrades!ExecuteUpgrade \/ AttUpgrades!CancelUpgrade
          PROVE  /\ DOMAIN upgradeAtt' = {"pending", "effective", "last", "since"}
                 /\ upgradeAtt'.pending \in AttWasms \cup {NoAttWasm}
      BY <1>2, <3>2 DEF AttUpgrades!ExecuteUpgrade, AttUpgrades!CancelUpgrade, AttUpgrades!NoUpgrade
    <3> QED BY <1>6, <3>1, <3>2 DEF UpgradeAttestation
  <2> QED BY <1>1, <1>2, <2>1, <2>2
<1>7. ASSUME NEW c \in Chains, AddAllowedChain(c) PROVE AttInv'
  BY <1>1, <1>2, <1>7 DEF AddAllowedChain
<1>8. ASSUME NEW c \in Chains, RemoveAllowedChain(c) PROVE AttInv'
  BY <1>1, <1>2, <1>8 DEF RemoveAllowedChain
<1>9. ASSUME NEW c \in Chains, NEW batch \in Batches, RecordAttestations(c, batch) PROVE AttInv'
  BY <1>9, RecordKeepsAttestations
<1>10. ASSUME NEW id \in DOMAIN record, NEW old \in AttStatuses, record[id].status = old,
              NEW st \in AttStatuses, old # st
       PROVE  /\ donorAgg[record[id].donor] \in Aggregates /\ chainAgg[record[id].chain] \in Aggregates
              /\ old = "Pending" => /\ donorAgg[record[id].donor].pending > 0
                                    /\ chainAgg[record[id].chain].pending > 0
              /\ old = "Verified" => /\ donorAgg[record[id].donor].verified > 0
                                     /\ chainAgg[record[id].chain].verified > 0
  BY <1>10, StatusKeepsAggregates
<1>11. ASSUME NEW id \in DOMAIN record, VerifyAttestation(id) PROVE AttInv'
  <2>1. /\ record[id].status = "Pending" /\ "Pending" \in AttStatuses /\ "Verified" \in AttStatuses
        /\ record' = Turned(record, id, "Verified")
        /\ counts' = [counts EXCEPT !.pending = Less(@)]
        /\ donorAgg' = [donorAgg EXCEPT ![record[id].donor] = Verifies(@)]
        /\ chainAgg' = [chainAgg EXCEPT ![record[id].chain] = Verifies(@)]
        /\ UNCHANGED <<relayerSet, attPaused, allowListed, allowed, seen, upgradeAtt>>
    BY <1>11 DEF VerifyAttestation, Turned, AttStatuses
  <2> DEFINE d == donorAgg[record[id].donor]
             k == chainAgg[record[id].chain]
  <2>2. d \in Aggregates /\ k \in Aggregates /\ d.pending > 0 /\ k.pending > 0
    BY <1>10, <2>1
  <2>3. Verifies(d) = Moved(d, "Pending", "Verified") /\ Verifies(k) = Moved(k, "Pending", "Verified")
    <3> HIDE DEF d, k
    <3> QED BY <2>2, CodeMoves
  <2>4. /\ donorAgg' = [donorAgg EXCEPT ![record[id].donor] = Moved(d, "Pending", "Verified")]
        /\ chainAgg' = [chainAgg EXCEPT ![record[id].chain] = Moved(k, "Pending", "Verified")]
    BY <2>1, <2>3
  <2> QED BY <2>1, <2>4, StatusKeepsAttestations
<1>12. ASSUME NEW id \in DOMAIN record, RevokeAttestation(id) PROVE AttInv'
  <2> DEFINE old == record[id].status
             pending == old = "Pending"
             d == donorAgg[record[id].donor]
             k == chainAgg[record[id].chain]
  <2>1. /\ old # "Revoked" /\ "Revoked" \in AttStatuses
        /\ record' = Turned(record, id, "Revoked")
        /\ counts' = [counts EXCEPT !.pending = IF pending THEN Less(@) ELSE @]
        /\ donorAgg' = [donorAgg EXCEPT ![record[id].donor] = Revokes(d, pending)]
        /\ chainAgg' = [chainAgg EXCEPT ![record[id].chain] = Revokes(k, pending)]
        /\ UNCHANGED <<relayerSet, attPaused, allowListed, allowed, seen, upgradeAtt>>
    BY <1>12 DEF RevokeAttestation, Turned, AttStatuses
  <2>2. old \in AttStatuses
    <3>1. record[id] \in Attestations
      BY DEF AttInv
    <3> QED BY <3>1 DEF Attestations
  <2>3. /\ d \in Aggregates /\ k \in Aggregates
        /\ old = "Pending" => d.pending > 0 /\ k.pending > 0
        /\ old = "Verified" => d.verified > 0 /\ k.verified > 0
    BY <1>10, <2>1, <2>2
  <2>4. Revokes(d, pending) = Moved(d, old, "Revoked") /\ Revokes(k, pending) = Moved(k, old, "Revoked")
    <3>1. CASE old = "Pending"
      <4> HIDE DEF d, k
      <4>1. Revokes(d, TRUE) = Moved(d, "Pending", "Revoked")
            /\ Revokes(k, TRUE) = Moved(k, "Pending", "Revoked")
        BY <2>3, <3>1, CodeMoves
      <4> QED BY <3>1, <4>1
    <3>2. CASE old = "Verified"
      <4> HIDE DEF d, k
      <4>1. Revokes(d, FALSE) = Moved(d, "Verified", "Revoked")
            /\ Revokes(k, FALSE) = Moved(k, "Verified", "Revoked")
        BY <2>3, <3>2, CodeMoves
      <4> QED BY <3>2, <4>1
    <3> QED BY <2>1, <2>2, <3>1, <3>2 DEF AttStatuses
  <2>5. /\ donorAgg' = [donorAgg EXCEPT ![record[id].donor] = Moved(d, old, "Revoked")]
        /\ chainAgg' = [chainAgg EXCEPT ![record[id].chain] = Moved(k, old, "Revoked")]
    BY <2>1, <2>4
  <2> QED BY <2>1, <2>2, <2>5, StatusKeepsAttestations
<1>13. CASE UNCHANGED attVars
  BY <1>1, <1>2, <1>13 DEF attVars
<1> QED BY <1>3, <1>4, <1>5, <1>6, <1>7, <1>8, <1>9, <1>11, <1>12, <1>13 DEF AttNext

-------------------------------------------------------------------------------
(* Rings (the slash history and the observations of the oracle): the ring  *)
(* of N slots holds the latest values of the sequence h that was written.  *)

\* The slot that was written d values ago, the next being that to write.
Back(next, d, N) == IF d <= next THEN next - d ELSE next + N - d

RingHolds(slot, next, count, h, N) ==
  /\ next \in 0 .. N - 1 /\ count = (IF Len(h) < N THEN Len(h) ELSE N)
  /\ count < N => next = count
  /\ \A d \in 1 .. count : slot[Back(next, d, N)] = h[Len(h) - d + 1]

\* A remainder is taken of less than two rounds.
LEMMA WrapsOnce ==
  ASSUME NEW N \in Nat \ {0}, NEW x \in Nat, x < 2 * N
  PROVE  x % N = IF x < N THEN x ELSE x - N
OBVIOUS

LEMMA RingWrites ==
  ASSUME NEW N \in Nat \ {0}, NEW V, NEW h \in Seq(V), NEW v \in V,
         NEW slot \in [0 .. N - 1 -> V], NEW next, NEW count,
         RingHolds(slot, next, count, h, N),
         NEW filled, filled = [slot EXCEPT ![next] = v],
         NEW more, more = IF count < N THEN count + 1 ELSE count
  PROVE  RingHolds(filled, (next + 1) % N, more, Append(h, v), N)
<1> DEFINE g == Append(h, v)
           to == (next + 1) % N
<1>1. /\ next \in 0 .. N - 1 /\ Len(h) \in Nat /\ count \in 0 .. N
      /\ count = (IF Len(h) < N THEN Len(h) ELSE N)
      /\ count < N => next = count
      /\ \A d \in 1 .. count : slot[Back(next, d, N)] = h[Len(h) - d + 1]
  BY DEF RingHolds
<1>2. to = IF next = N - 1 THEN 0 ELSE next + 1
  <2> DEFINE x == next + 1
  <2>1. x \in Nat /\ x < 2 * N
    BY <1>1
  <2>2. x % N = IF x < N THEN x ELSE x - N
    <3> HIDE DEF x
    <3> QED BY <2>1, WrapsOnce
  <2> QED BY <1>1, <2>2
<1>3. /\ Len(g) = Len(h) + 1 /\ g[Len(h) + 1] = v
      /\ \A i \in 1 .. Len(h) : g[i] = h[i]
  OBVIOUS
<1> HIDE DEF g, to
<1>4. to \in 0 .. N - 1 /\ more = (IF Len(g) < N THEN Len(g) ELSE N) /\ (more < N => to = more)
  BY <1>1, <1>2, <1>3
<1>5. ASSUME NEW d \in 1 .. more PROVE filled[Back(to, d, N)] = g[Len(g) - d + 1]
  <2>1. CASE d = 1
    <3>1. Back(to, d, N) = next
      BY <1>1, <1>2, <2>1 DEF Back
    <3>2. Len(g) - d + 1 = Len(h) + 1
      BY <1>1, <1>3, <2>1
    <3>3. filled[next] = v
      BY <1>1
    <3> QED BY <1>3, <3>1, <3>2, <3>3
  <2>2. CASE d # 1
    <3> DEFINE e == d - 1
    <3>1. e \in 1 .. count /\ e < N /\ d = e + 1
      BY <1>1, <2>2
    <3> HIDE DEF e
    <3>2. /\ Back(to, d, N) = Back(next, e, N) /\ Back(next, e, N) \in 0 .. N - 1
          /\ Back(next, e, N) # next
      BY <1>1, <1>2, <3>1 DEF Back
    <3>3. filled[Back(next, e, N)] = slot[Back(next, e, N)]
      BY <1>1, <3>2
    <3>4. slot[Back(next, e, N)] = h[Len(h) - e + 1]
      BY <1>1, <3>1
    <3>5. Len(h) - e + 1 \in 1 .. Len(h) /\ Len(g) - d + 1 = Len(h) - e + 1
      BY <1>1, <1>3, <3>1
    <3> QED BY <1>3, <3>2, <3>3, <3>4, <3>5
  <2> QED BY <2>1, <2>2
<1> QED BY <1>4, <1>5 DEF RingHolds, g, to

ReadRing(slot, start, n, N) == [i \in 1 .. n |-> slot[(start + i - 1) % N]]
FromLast(next, n, N) == (next + N - n) % N

\* Reading n values from the n-th last slot on gives the last n of the sequence.
LEMMA RingReads ==
  ASSUME NEW N \in Nat \ {0}, NEW V, NEW h \in Seq(V),
         NEW slot, NEW next, NEW count, RingHolds(slot, next, count, h, N),
         NEW n \in 0 .. count
  PROVE  ReadRing(slot, FromLast(next, n, N), n, N) = SubSeq(h, Len(h) - n + 1, Len(h))
<1> DEFINE start == FromLast(next, n, N)
           read == [i \in 1 .. n |-> slot[(start + i - 1) % N]]
           last == SubSeq(h, Len(h) - n + 1, Len(h))
<1>1. /\ next \in 0 .. N - 1 /\ Len(h) \in Nat /\ count \in 0 .. N
      /\ count <= Len(h) /\ n \in 0 .. N /\ n <= Len(h)
      /\ \A d \in 1 .. count : slot[Back(next, d, N)] = h[Len(h) - d + 1]
  BY DEF RingHolds
<1>2. start = IF next < n THEN next + N - n ELSE next - n
  <2> DEFINE x == next + N - n
  <2>1. x \in Nat /\ x < 2 * N
    BY <1>1
  <2>2. x % N = IF x < N THEN x ELSE x - N
    <3> HIDE DEF x
    <3> QED BY <2>1, WrapsOnce
  <2> QED BY <1>1, <2>2 DEF FromLast
<1> HIDE DEF start
<1>3. ASSUME NEW i \in 1 .. n PROVE read[i] = h[Len(h) - n + i]
  <2> DEFINE d == n - i + 1
  <2>1. d \in 1 .. count /\ i = n - d + 1
    BY <1>1
  <2> HIDE DEF d
  <2> DEFINE x == start + i - 1
  <2>2. x \in Nat /\ x < 2 * N
    BY <1>1, <1>2
  <2>3. x % N = IF x < N THEN x ELSE x - N
    <3> HIDE DEF x
    <3> QED BY <2>2, WrapsOnce
  <2>4. x % N = Back(next, d, N)
    <3>1. (IF x < N THEN x ELSE x - N) = Back(next, d, N)
      <4>1. next \in 0 .. N - 1 /\ n \in 0 .. N /\ d \in 1 .. n /\ x = start + n - d
        BY <1>1, <1>2, <2>1
      <4> HIDE DEF x
      <4>2. (x < N => x = Back(next, d, N)) /\ (x >= N => x - N = Back(next, d, N))
        <5>1. CASE next < n
          <6>1. x = next + N - d
            BY <1>2, <4>1, <5>1
          <6> QED BY <4>1, <5>1, <6>1 DEF Back
        <5>2. CASE ~(next < n)
          <6>1. x = next - d
            BY <1>2, <4>1, <5>2
          <6> QED BY <4>1, <5>2, <6>1 DEF Back
        <5> QED BY <5>1, <5>2
      <4> QED BY <2>2, <4>2
    <3> HIDE DEF x
    <3> QED BY <2>3, <3>1
  <2>5. slot[Back(next, d, N)] = h[Len(h) - d + 1]
    BY <1>1, <2>1
  <2>6. Len(h) - d + 1 = Len(h) - n + i
    BY <1>1, <2>1
  <2> QED BY <2>4, <2>5, <2>6
<1>4. \A i \in Len(h) - n + 1 .. Len(h) : h[i] \in V
  BY <1>1
<1>5. /\ last \in Seq(V) /\ Len(last) = n
      /\ \A i \in 1 .. n : last[i] = h[Len(h) - n + i]
  <2> DEFINE m == Len(h) - n + 1
             l == Len(h)
  <2>1. m \in Int /\ l \in Int /\ l - m + 1 = n /\ (m <= l <=> n # 0)
    BY <1>1
  <2>2. \A i \in m .. l : h[i] \in V
    BY <1>4
  <2> HIDE DEF m, l
  <2>3. /\ SubSeq(h, m, l) \in Seq(V)
        /\ Len(SubSeq(h, m, l)) = IF m <= l THEN l - m + 1 ELSE 0
        /\ \A i \in 1 .. l - m + 1 : SubSeq(h, m, l)[i] = h[m + i - 1]
    BY <2>1, <2>2, SubSeqProperties
  <2>4. SubSeq(h, m, l) \in Seq(V) /\ Len(SubSeq(h, m, l)) = n
    BY <2>1, <2>3
  <2>5. ASSUME NEW i \in 1 .. n PROVE SubSeq(h, m, l)[i] = h[Len(h) - n + i]
    <3>1. SubSeq(h, m, l)[i] = h[m + i - 1]
      BY <2>1, <2>3
    <3>2. m + i - 1 = Len(h) - n + i
      BY <1>1 DEF m
    <3> QED BY <3>1, <3>2
  <2> QED BY <2>4, <2>5 DEF m, l
<1>6. read \in Seq(V) /\ Len(read) = n
  <2>1. \A i \in 1 .. n : read[i] \in V
    <3>1. \A i \in 1 .. n : Len(h) - n + i \in Len(h) - n + 1 .. Len(h)
      BY <1>1
    <3> HIDE DEF read
    <3> QED BY <1>3, <1>4, <3>1
  <2>2. read = [i \in 1 .. n |-> read[i]]
    OBVIOUS
  <2>3. n \in Nat
    BY <1>1
  <2> HIDE DEF read
  <2>4. read \in [1 .. n -> V]
    BY <2>1, <2>2
  <2> QED BY <2>3, <2>4, SeqDef
<1> HIDE DEF read, last
<1>7. \A i \in 1 .. n : read[i] = last[i]
  BY <1>3, <1>5
<1>8. read = last
  BY <1>5, <1>6, <1>7, SeqEqual
<1> QED BY <1>8 DEF read, last, ReadRing, start

\* At first a ring holds nothing.
LEMMA RingStarts ==
  ASSUME NEW N \in Nat \ {0}, NEW slot
  PROVE  RingHolds(slot, 0, 0, <<>>, N)
BY DEF RingHolds

\* The slots that are written hold values of the sequence.
LEMMA RingWritten ==
  ASSUME NEW N \in Nat \ {0}, NEW V, NEW h \in Seq(V), NEW slot, NEW next, NEW count,
         RingHolds(slot, next, count, h, N), NEW i \in 0 .. N - 1, i < count
  PROVE  slot[i] \in V
<1>1. /\ next \in 0 .. N - 1 /\ Len(h) \in Nat /\ count \in 0 .. N /\ count <= Len(h)
      /\ count < N => next = count
      /\ \A d \in 1 .. count : slot[Back(next, d, N)] = h[Len(h) - d + 1]
  BY DEF RingHolds
<1> DEFINE d == IF i < next THEN next - i ELSE next + N - i
<1>2. d \in 1 .. count /\ Back(next, d, N) = i
  BY <1>1 DEF Back
<1> HIDE DEF d
<1>3. Len(h) - d + 1 \in 1 .. Len(h)
  BY <1>1, <1>2
<1>4. slot[i] = h[Len(h) - d + 1]
  BY <1>1, <1>2
<1>5. h[Len(h) - d + 1] \in V
  BY <1>3, ElementOfSeq
<1> QED BY <1>4, <1>5


-------------------------------------------------------------------------------
(* OracleStaking: what is held is what is staked, and every reporter's     *)
(* slashes are in its ring.                                                *)

SlashRows == [slot : [0 .. SlashSlots - 1 -> Nat], next : Int, count : Int]

RingOf(r) == RingHolds(slashRing[r].slot, slashRing[r].next, slashRing[r].count, slashes[r], SlashSlots)

StakingInv ==
  /\ now \in Nat \ {0}
  /\ reporters \subseteq Reporters /\ stakeAsset \in Assets \cup {NoAsset}
  /\ stake \in [Reporters -> 0 .. StakeCap]
  /\ availableAt \in [Reporters -> Nat] /\ since \in [Reporters -> Nat]
  /\ oracleHeld \in [Assets -> Nat] /\ StakesBacked
  /\ CooldownRuns /\ \A r \in Reporters : stake[r] > 0 => availableAt[r] > 0
  /\ slashRing \in [Reporters -> SlashRows] /\ slashes \in [Reporters -> Seq(Nat)]
  /\ \A r \in Reporters : RingOf(r)

LEMMA StakingSuffices ==
  StakingInv => StakingTypeOK /\ StakesBacked /\ CooldownRuns /\ SlashesInOrder
<1> SUFFICES ASSUME StakingInv
             PROVE  StakingTypeOK /\ StakesBacked /\ CooldownRuns /\ SlashesInOrder
  OBVIOUS
<1>1. ASSUME NEW r \in Reporters
      PROVE  /\ slashRing[r].next \in 0 .. SlashSlots - 1
             /\ slashRing[r].count \in 0 .. SlashSlots
             /\ SlashHistory(r) = SubSeq(slashes[r], Len(slashes[r]) - slashRing[r].count + 1,
                                         Len(slashes[r]))
  <2> DEFINE slot == slashRing[r].slot
             next == slashRing[r].next
             n == slashRing[r].count
             h == slashes[r]
             N == SlashSlots
             start == IF n < N THEN 0 ELSE next
  <2>1. RingHolds(slot, next, n, h, N) /\ h \in Seq(Nat) /\ N \in Nat \ {0}
    BY <1>1, StakingAssumption DEF StakingInv, RingOf
  <2>2. SlashHistory(r) = ReadRing(slot, start, n, N)
    BY DEF SlashHistory, ReadRing
  <2> HIDE DEF slot, next, n, h, N
  <2>3. next \in 0 .. N - 1 /\ n \in 0 .. N /\ n \in 0 .. n /\ (n < N => next = n)
    BY <2>1 DEF RingHolds
  <2>4. start = FromLast(next, n, N)
    <3> DEFINE x == next + N - n
    <3>1. x \in Nat /\ x < 2 * N /\ start = IF x < N THEN x ELSE x - N
      BY <2>1, <2>3
    <3> HIDE DEF x
    <3>2. x % N = IF x < N THEN x ELSE x - N
      BY <2>1, <3>1, WrapsOnce
    <3> QED BY <3>1, <3>2 DEF x, FromLast
  <2> HIDE DEF start
  <2>5. ReadRing(slot, FromLast(next, n, N), n, N) = SubSeq(h, Len(h) - n + 1, Len(h))
    BY <2>1, <2>3, RingReads
  <2>6. SlashHistory(r) = SubSeq(h, Len(h) - n + 1, Len(h))
    BY <2>2, <2>4, <2>5
  <2> QED BY <2>3, <2>6 DEF next, n, h, N
<1>2. StakingTypeOK
  BY <1>1 DEF StakingInv, StakingTypeOK
<1>3. SlashesInOrder
  BY <1>1 DEF SlashesInOrder
<1> QED BY <1>2, <1>3 DEF StakingInv

LEMMA StakingStart == StakingInit => StakingInv
<1> SUFFICES ASSUME StakingInit PROVE StakingInv
  OBVIOUS
<1>1. StakesBacked
  <2>1. \A t \in Assets : oracleHeld[t] = 0
    BY DEF StakingInit
  <2>2. \A r \in Reporters : stake[r] = 0
    BY DEF StakingInit
  <2>3. SumFunctionOnSet(oracleHeld, Assets) = 0
    BY <2>1, SumZero, StakingAssumption
  <2>4. SumFunctionOnSet(stake, Reporters) = 0
    BY <2>2, SumZero, StakingAssumption
  <2> QED BY <2>3, <2>4 DEF StakesBacked
<1>2. \A r \in Reporters : RingOf(r)
  <2>1. ASSUME NEW r \in Reporters PROVE RingOf(r)
    <3>1. slashRing[r].next = 0 /\ slashRing[r].count = 0 /\ slashes[r] = <<>>
      BY DEF StakingInit
    <3> QED BY <3>1, RingStarts, StakingAssumption DEF RingOf
  <2> QED BY <2>1
<1>3. slashRing \in [Reporters -> SlashRows] /\ slashes \in [Reporters -> Seq(Nat)]
  BY StakingAssumption DEF StakingInit, SlashRows
<1>4. now \in Nat \ {0} /\ reporters \subseteq Reporters /\ stakeAsset \in Assets \cup {NoAsset}
      /\ availableAt \in [Reporters -> Nat] /\ since \in [Reporters -> Nat]
      /\ oracleHeld \in [Assets -> Nat]
  BY DEF StakingInit, FirstLedger
<1>5. stake \in [Reporters -> 0 .. StakeCap] /\ \A r \in Reporters : ~(stake[r] > 0)
  BY StakingAssumption DEF StakingInit
<1> QED BY <1>1, <1>2, <1>3, <1>4, <1>5 DEF StakingInv, CooldownRuns

\* A stake and what is held change together.
LEMMA StakeAndHeld ==
  ASSUME NEW f \in [Reporters -> Int], NEW more \in [Reporters -> Int],
         NEW g \in [Assets -> Int], NEW full \in [Assets -> Int],
         SumFunctionOnSet(g, Assets) = SumFunctionOnSet(f, Reporters),
         NEW r \in Reporters, \A q \in Reporters \ {r} : f[q] = more[q],
         NEW t \in Assets, \A q \in Assets \ {t} : g[q] = full[q],
         more[r] - f[r] = full[t] - g[t]
  PROVE  SumFunctionOnSet(full, Assets) = SumFunctionOnSet(more, Reporters)
<1>1. SumFunctionOnSet(more, Reporters) = SumFunctionOnSet(f, Reporters) - f[r] + more[r]
  BY SumChange, StakingAssumption
<1>2. SumFunctionOnSet(full, Assets) = SumFunctionOnSet(g, Assets) - g[t] + full[t]
  BY SumChange, StakingAssumption
<1>3. SumFunctionOnSet(f, Reporters) \in Int
  BY SumInt, StakingAssumption
<1>4. f[r] \in Int /\ g[t] \in Int /\ more[r] \in Int /\ full[t] \in Int
  OBVIOUS
<1> QED BY <1>1, <1>2, <1>3, <1>4

LEMMA StakingKeeps == StakingInv /\ [StakingNext]_stakeVars => StakingInv'
<1> SUFFICES ASSUME StakingInv, [StakingNext]_stakeVars PROVE StakingInv'
  OBVIOUS
<1>0. /\ now \in Nat \ {0}
      /\ reporters \subseteq Reporters /\ stakeAsset \in Assets \cup {NoAsset}
      /\ stake \in [Reporters -> 0 .. StakeCap]
      /\ availableAt \in [Reporters -> Nat] /\ since \in [Reporters -> Nat]
      /\ oracleHeld \in [Assets -> Nat] /\ StakesBacked
      /\ \A r \in Reporters : stake[r] > 0 => availableAt[r] = since[r] + Cooldown
                                              /\ availableAt[r] > 0
      /\ slashRing \in [Reporters -> SlashRows] /\ slashes \in [Reporters -> Seq(Nat)]
      /\ \A r \in Reporters : RingOf(r)
  BY DEF StakingInv, CooldownRuns
<1>1. ASSUME UNCHANGED <<stake, availableAt, oracleHeld, slashRing, since, slashes>>,
             now' \in Nat \ {0}, reporters' \subseteq Reporters, stakeAsset' \in Assets \cup {NoAsset}
      PROVE  StakingInv'
  <2>1. StakesBacked' /\ \A r \in Reporters : RingOf(r)'
    BY <1>0, <1>1 DEF StakesBacked, RingOf
  <2> QED BY <1>0, <1>1, <2>1 DEF StakingInv, CooldownRuns
<1>2. CASE StakingCloses
  BY <1>0, <1>1, <1>2 DEF StakingCloses, Closes
<1>3. CASE ManageReporters
  BY <1>0, <1>1, <1>3 DEF ManageReporters
<1>4. ASSUME NEW t \in Assets, ConfigureStaking(t) PROVE StakingInv'
  BY <1>0, <1>1, <1>4 DEF ConfigureStaking
<1>5. ASSUME NEW r \in Reporters, NEW a \in Stakes, Stake(r, a) PROVE StakingInv'
  <2>1. /\ stakeAsset \in Assets /\ stake[r] + a <= StakeCap
        /\ stake' = [stake EXCEPT ![r] = stake[r] + a]
        /\ availableAt' = [availableAt EXCEPT ![r] = Available(r)]
        /\ since' = [since EXCEPT ![r] = IF stake[r] = 0 THEN now ELSE since[r]]
        /\ oracleHeld' = [oracleHeld EXCEPT ![stakeAsset] = oracleHeld[stakeAsset] + a]
        /\ UNCHANGED <<now, reporters, stakeAsset, slashRing, slashes>>
    BY <1>0, <1>5 DEF Stake
  <2>2. a \in Nat \ {0} /\ StakeCap \in Nat /\ Cooldown \in Nat
        /\ stake[r] \in 0 .. StakeCap /\ oracleHeld[stakeAsset] \in Nat
    BY <1>0, <2>1, StakingAssumption
  <2>3. StakesBacked'
    <3> DEFINE more == [stake EXCEPT ![r] = stake[r] + a]
               full == [oracleHeld EXCEPT ![stakeAsset] = oracleHeld[stakeAsset] + a]
    <3>1. SumFunctionOnSet(oracleHeld, Assets) = SumFunctionOnSet(stake, Reporters)
      BY <1>0 DEF StakesBacked
    <3>2. /\ stake \in [Reporters -> Int] /\ oracleHeld \in [Assets -> Int]
          /\ more \in [Reporters -> Int] /\ full \in [Assets -> Int]
          /\ \A q \in Reporters \ {r} : stake[q] = more[q]
          /\ \A q \in Assets \ {stakeAsset} : oracleHeld[q] = full[q]
          /\ more[r] - stake[r] = full[stakeAsset] - oracleHeld[stakeAsset]
      BY <1>0, <2>1, <2>2
    <3>3. stakeAsset \in Assets /\ stake' = more /\ oracleHeld' = full
      BY <2>1
    <3> HIDE DEF more, full
    <3>4. SumFunctionOnSet(full, Assets) = SumFunctionOnSet(more, Reporters)
      BY <3>1, <3>2, <3>3, StakeAndHeld
    <3> QED BY <3>3, <3>4 DEF StakesBacked
  <2>4. stake' \in [Reporters -> 0 .. StakeCap] /\ oracleHeld' \in [Assets -> Nat]
    <3>1. stake[r] + a \in 0 .. StakeCap /\ oracleHeld[stakeAsset] + a \in Nat
      BY <2>1, <2>2
    <3> QED BY <1>0, <2>1, <3>1
  <2>5. Available(r) \in Nat
    BY <1>0, <2>2 DEF Available
  <2>6. availableAt' \in [Reporters -> Nat] /\ since' \in [Reporters -> Nat]
    BY <1>0, <2>1, <2>5
  <2>7. ASSUME NEW q \in Reporters, stake'[q] > 0
        PROVE  availableAt'[q] = since'[q] + Cooldown /\ availableAt'[q] > 0
    <3>1. CASE q # r
      <4>1. stake'[q] = stake[q] /\ availableAt'[q] = availableAt[q] /\ since'[q] = since[q]
        BY <1>0, <2>1, <3>1
      <4> QED BY <1>0, <2>7, <4>1
    <3>2. CASE q = r
      <4>1. availableAt'[q] = Available(r) /\ since'[q] = IF stake[r] = 0 THEN now ELSE since[r]
        BY <1>0, <2>1, <3>2
      <4>2. CASE stake[r] = 0
        BY <1>0, <2>2, <4>1, <4>2 DEF Available
      <4>3. CASE stake[r] # 0
        BY <1>0, <2>2, <4>1, <4>3 DEF Available
      <4> QED BY <4>2, <4>3
    <3> QED BY <3>1, <3>2
  <2>8. \A q \in Reporters : RingOf(q)'
    BY <1>0, <2>1 DEF RingOf
  <2> QED BY <1>0, <2>1, <2>3, <2>4, <2>6, <2>7, <2>8 DEF StakingInv, CooldownRuns
<1>6. ASSUME NEW r \in Reporters, NEW a \in Nat, a <= stake[r], OraclePays(a),
             stake' = [stake EXCEPT ![r] = stake[r] - a]
      PROVE  StakesBacked' /\ stake' \in [Reporters -> 0 .. StakeCap] /\ oracleHeld' \in [Assets -> Nat]
  <2>1. /\ stakeAsset \in Assets /\ oracleHeld[stakeAsset] >= a
        /\ oracleHeld' = [oracleHeld EXCEPT ![stakeAsset] = oracleHeld[stakeAsset] - a]
    BY <1>0, <1>6 DEF OraclePays
  <2> DEFINE less == [stake EXCEPT ![r] = stake[r] - a]
             rest == [oracleHeld EXCEPT ![stakeAsset] = oracleHeld[stakeAsset] - a]
  <2>2. /\ stake[r] \in 0 .. StakeCap /\ oracleHeld[stakeAsset] \in Nat /\ StakeCap \in Nat
    BY <1>0, <2>1, StakingAssumption
  <2>3. stake[r] - a \in 0 .. StakeCap /\ oracleHeld[stakeAsset] - a \in Nat
    BY <1>6, <2>1, <2>2
  <2>4. SumFunctionOnSet(oracleHeld, Assets) = SumFunctionOnSet(stake, Reporters)
    BY <1>0 DEF StakesBacked
  <2>5. /\ stake \in [Reporters -> Int] /\ oracleHeld \in [Assets -> Int]
        /\ less \in [Reporters -> Int] /\ rest \in [Assets -> Int]
        /\ less \in [Reporters -> 0 .. StakeCap] /\ rest \in [Assets -> Nat]
        /\ \A q \in Reporters \ {r} : stake[q] = less[q]
        /\ \A q \in Assets \ {stakeAsset} : oracleHeld[q] = rest[q]
        /\ less[r] - stake[r] = rest[stakeAsset] - oracleHeld[stakeAsset]
    BY <1>0, <2>1, <2>2, <2>3
  <2>6. stake' = less /\ oracleHeld' = rest
    BY <1>6, <2>1
  <2> HIDE DEF less, rest
  <2>7. SumFunctionOnSet(rest, Assets) = SumFunctionOnSet(less, Reporters)
    BY <2>1, <2>4, <2>5, StakeAndHeld
  <2> QED BY <2>5, <2>6, <2>7 DEF StakesBacked
<1>7. ASSUME NEW r \in Reporters, NEW a \in 1 .. StakeCap, Slash(r, a) PROVE StakingInv'
  <2> DEFINE slot == slashRing[r].slot
             next == slashRing[r].next
             count == slashRing[r].count
             to == [slot EXCEPT ![next] = a]
             more == IF count < SlashSlots THEN count + 1 ELSE count
             after == (next + 1) % SlashSlots
             kept == [slashRing[r] EXCEPT !.slot = to, !.count = more, !.next = after]
  <2>1. /\ a \in Nat /\ a <= stake[r] /\ OraclePays(a)
        /\ stake' = [stake EXCEPT ![r] = stake[r] - a]
        /\ slashes' = [slashes EXCEPT ![r] = Append(slashes[r], a)]
        /\ UNCHANGED <<now, reporters, stakeAsset, availableAt, since>>
    BY <1>7 DEF Slash, Slashable, Remaining
  <2>2. slashRing[r] \in SlashRows /\ slashes[r] \in Seq(Nat) /\ RingOf(r)
    BY <1>0
  <2>3. /\ slot \in [0 .. SlashSlots - 1 -> Nat] /\ next \in Int /\ count \in Int
        /\ slashRing[r] = [slot |-> slot, next |-> next, count |-> count]
    BY <2>2 DEF SlashRows
  <2>4. slashRing' = [slashRing EXCEPT ![r] = kept]
    BY <1>7 DEF Slash
  <2>5. RingHolds(slot, next, count, slashes[r], SlashSlots)
    BY <2>2 DEF RingOf
  <2>6. RingHolds(to, after, more, Append(slashes[r], a), SlashSlots)
    <3> HIDE DEF slot, next, count
    <3> QED BY <2>1, <2>2, <2>3, <2>5, RingWrites, StakingAssumption, Zenon
  <2>7. to \in [0 .. SlashSlots - 1 -> Nat] /\ after \in Int /\ more \in Int
    <3>1. to \in [0 .. SlashSlots - 1 -> Nat]
      BY <2>1, <2>3
    <3> HIDE DEF to, after, more
    <3> QED BY <2>2, <2>6, <3>1, StakingAssumption DEF RingHolds
  <2> HIDE DEF to, after, more
  <2>a. kept \in SlashRows /\ kept.slot = to /\ kept.next = after /\ kept.count = more
    BY <2>2, <2>7 DEF SlashRows
  <2> HIDE DEF kept
  <2>8. slashRing' \in [Reporters -> SlashRows] /\ slashes' \in [Reporters -> Seq(Nat)]
    BY <1>0, <2>1, <2>2, <2>4, <2>a
  <2>9. ASSUME NEW q \in Reporters PROVE RingOf(q)'
    <3>1. CASE q = r
      <4>1. slashRing'[q] = kept /\ slashes'[q] = Append(slashes[r], a)
        BY <1>0, <2>1, <2>4, <3>1
      <4> QED BY <2>6, <2>a, <4>1 DEF RingOf
    <3>2. CASE q # r
      <4>1. slashRing'[q] = slashRing[q] /\ slashes'[q] = slashes[q]
        BY <1>0, <2>1, <2>4, <3>2
      <4> QED BY <1>0, <4>1 DEF RingOf
    <3> QED BY <3>1, <3>2
  <2>10. StakesBacked' /\ stake' \in [Reporters -> 0 .. StakeCap] /\ oracleHeld' \in [Assets -> Nat]
    BY <1>6, <2>1
  <2>11. ASSUME NEW q \in Reporters, stake'[q] > 0
         PROVE  availableAt'[q] = since'[q] + Cooldown /\ availableAt'[q] > 0
    <3>1. stake[q] > 0
      <4>1. stake[q] \in Nat /\ (q # r => stake'[q] = stake[q])
            /\ (q = r => stake'[q] = stake[q] - a)
        BY <1>0, <2>1
      <4> QED BY <2>1, <2>11, <4>1
    <3> QED BY <1>0, <2>1, <3>1
  <2> QED BY <1>0, <2>1, <2>8, <2>9, <2>10, <2>11 DEF StakingInv, CooldownRuns
<1>8. ASSUME NEW r \in Reporters, Unstake(r) PROVE StakingInv'
  <2>1. /\ OraclePays(stake[r]) /\ stake' = [stake EXCEPT ![r] = 0]
        /\ availableAt' = [availableAt EXCEPT ![r] = 0]
        /\ UNCHANGED <<now, reporters, stakeAsset, slashRing, since, slashes>>
    BY <1>8 DEF Unstake
  <2>2. stake[r] \in Nat /\ stake[r] <= stake[r] /\ stake[r] - stake[r] = 0
    BY <1>0
  <2>3. stake' = [stake EXCEPT ![r] = stake[r] - stake[r]]
    BY <2>1, <2>2
  <2>4. StakesBacked' /\ stake' \in [Reporters -> 0 .. StakeCap] /\ oracleHeld' \in [Assets -> Nat]
    BY <1>6, <2>1, <2>2, <2>3
  <2>5. availableAt' \in [Reporters -> Nat]
    BY <1>0, <2>1
  <2>6. ASSUME NEW q \in Reporters, stake'[q] > 0
        PROVE  availableAt'[q] = since'[q] + Cooldown /\ availableAt'[q] > 0
    <3>1. q # r
      BY <1>0, <2>1, <2>6
    <3> QED BY <1>0, <2>1, <2>6, <3>1
  <2>7. \A q \in Reporters : RingOf(q)'
    BY <1>0, <2>1 DEF RingOf
  <2> QED BY <1>0, <2>1, <2>4, <2>5, <2>6, <2>7 DEF StakingInv, CooldownRuns
<1>9. CASE UNCHANGED stakeVars
  BY <1>0, <1>1, <1>9 DEF stakeVars
<1> QED BY <1>2, <1>3, <1>4, <1>5, <1>7, <1>8, <1>9 DEF StakingNext


-------------------------------------------------------------------------------
(* OraclePrices: the observations are the ring of the reports, and the     *)
(* failures that are counted are those since the last answer.              *)

Reports == [price : Prices, ledger : Nat]
Slots == [0 .. RingSize - 1 -> Reports \cup {NoReport}]

PricesInv ==
  /\ now \in Nat \ {0}
  /\ ring \in Slots /\ reports \in Seq(Reports) /\ window \in 1 .. RingSize
  /\ RingHolds(ring, ringNext, ringCount, reports, RingSize)
  /\ feeds \subseteq Feeds
  /\ health \in [Feeds -> [failures : 0 .. FailureThreshold, healthy : BOOLEAN]]
  /\ misses \in [Feeds -> 0 .. FailureThreshold]
  /\ \A f \in Feeds : /\ health[f].failures = misses[f]
                      /\ health[f].healthy <=> misses[f] < FailureThreshold

LEMMA PricesSuffices == PricesInv => PricesTypeOK /\ WindowIsLatest /\ HealthMatches
<1> SUFFICES ASSUME PricesInv PROVE PricesTypeOK /\ WindowIsLatest /\ HealthMatches
  OBVIOUS
<1> DEFINE k == LeastOf(window, ringCount)
<1>1. /\ RingSize \in Nat \ {0} /\ reports \in Seq(Reports) /\ window \in 1 .. RingSize
      /\ RingHolds(ring, ringNext, ringCount, reports, RingSize)
  BY PricesAssumption DEF PricesInv
<1>2. /\ ringNext \in 0 .. RingSize - 1 /\ ringCount \in 0 .. RingSize
      /\ ringCount = LeastOf(Len(reports), RingSize) /\ k \in 0 .. ringCount
  BY <1>1 DEF RingHolds, LeastOf
<1>3. PricesTypeOK
  <2>1. ASSUME NEW i \in 0 .. RingSize - 1, i < ringCount PROVE ring[i].price \in Prices
    <3>1. ring[i] \in Reports
      BY <1>1, <2>1, RingWritten
    <3> QED BY <3>1 DEF Reports
  <2> QED BY <1>1, <1>2, <2>1 DEF PricesTypeOK, PricesInv
<1>4. WindowIsLatest
  <2>1. Observed = ReadRing(ring, FromLast(ringNext, k, RingSize), k, RingSize)
    BY DEF Observed, StartOffset, ReadRing, FromLast
  <2> HIDE DEF k
  <2>2. ReadRing(ring, FromLast(ringNext, k, RingSize), k, RingSize)
          = SubSeq(reports, Len(reports) - k + 1, Len(reports))
    BY <1>1, <1>2, RingReads
  <2>3. k = LeastOf(window, LeastOf(Len(reports), RingSize))
    BY <1>2 DEF k
  <2> QED BY <2>1, <2>2, <2>3 DEF WindowIsLatest
<1> QED BY <1>3, <1>4 DEF PricesInv, HealthMatches

LEMMA PricesStart == PricesInit => PricesInv
<1> SUFFICES ASSUME PricesInit PROVE PricesInv
  OBVIOUS
<1>1. RingHolds(ring, ringNext, ringCount, reports, RingSize)
  BY RingStarts, PricesAssumption DEF PricesInit
<1>2. ring \in Slots /\ reports \in Seq(Reports) /\ window \in 1 .. RingSize
  BY PricesAssumption DEF PricesInit, Slots
<1>3. now \in Nat \ {0} /\ feeds \subseteq Feeds
  BY DEF PricesInit, FirstLedger
<1>4. /\ health \in [Feeds -> [failures : 0 .. FailureThreshold, healthy : BOOLEAN]]
      /\ misses \in [Feeds -> 0 .. FailureThreshold]
      /\ \A f \in Feeds : /\ health[f].failures = misses[f]
                          /\ health[f].healthy <=> misses[f] < FailureThreshold
  BY PricesAssumption DEF PricesInit
<1> QED BY <1>1, <1>2, <1>3, <1>4 DEF PricesInv

LEMMA PricesKeep == PricesInv /\ [PricesNext]_priceVars => PricesInv'
<1> SUFFICES ASSUME PricesInv, [PricesNext]_priceVars PROVE PricesInv'
  OBVIOUS
<1> USE DEF feedVars
<1>0. /\ now \in Nat \ {0}
      /\ ring \in Slots /\ reports \in Seq(Reports) /\ window \in 1 .. RingSize
      /\ RingHolds(ring, ringNext, ringCount, reports, RingSize)
      /\ feeds \subseteq Feeds
      /\ health \in [Feeds -> [failures : 0 .. FailureThreshold, healthy : BOOLEAN]]
      /\ misses \in [Feeds -> 0 .. FailureThreshold]
      /\ \A f \in Feeds : /\ health[f].failures = misses[f]
                          /\ health[f].healthy <=> misses[f] < FailureThreshold
  BY DEF PricesInv
<1>1. CASE PricesClose
  BY <1>0, <1>1 DEF PricesClose, Closes, PricesInv
<1>2. ASSUME NEW price \in Prices, ReportPrice(price) PROVE PricesInv'
  <2> DEFINE v == [price |-> price, ledger |-> now]
             filled == [ring EXCEPT ![ringNext] = v]
             to == (ringNext + 1) % RingSize
  <2>1. /\ ring' = filled /\ ringNext' = to /\ ringCount' = Counted
        /\ reports' = Append(reports, v)
        /\ UNCHANGED <<now, window, feedVars>>
    BY <1>2 DEF ReportPrice
  <2>2. v \in Reports
    BY <1>0 DEF Reports
  <2>3. Counted = IF ringCount < RingSize THEN ringCount + 1 ELSE ringCount
    <3>1. ringCount \in 0 .. RingSize /\ RingSize \in Nat
      BY <1>0, PricesAssumption DEF RingHolds
    <3> QED BY <3>1 DEF Counted, LeastOf
  <2> HIDE DEF v
  <2>4. ring \in [0 .. RingSize - 1 -> Reports \cup {NoReport}]
        /\ reports \in Seq(Reports \cup {NoReport}) /\ v \in Reports \cup {NoReport}
    <3>1. Reports \subseteq Reports \cup {NoReport}
      OBVIOUS
    <3>2. reports \in Seq(Reports \cup {NoReport})
      BY <1>0, <3>1, SeqMonotonic
    <3> QED BY <1>0, <2>2, <3>2 DEF Slots
  <2> DEFINE V == Reports \cup {NoReport}
             more == Counted
  <2>5. RingHolds(filled, to, more, Append(reports, v), RingSize)
    <3> HIDE DEF V, filled, more
    <3>1. ring \in [0 .. RingSize - 1 -> V] /\ reports \in Seq(V) /\ v \in V
      BY <2>4 DEF V
    <3>2. filled = [ring EXCEPT ![ringNext] = v]
          /\ more = IF ringCount < RingSize THEN ringCount + 1 ELSE ringCount
      BY <2>3 DEF filled, more
    <3>3. RingSize \in Nat \ {0}
      BY PricesAssumption
    <3> QED BY <1>0, <3>1, <3>2, <3>3, RingWrites, Zenon
  <2>6. filled \in Slots
    BY <2>4 DEF Slots
  <2>7. Append(reports, v) \in Seq(Reports)
    BY <1>0, <2>2
  <2> HIDE DEF filled, to
  <2> QED BY <1>0, <2>1, <2>5, <2>6, <2>7 DEF PricesInv
<1>3. ASSUME NEW w \in 1 .. RingSize, SetTwapWindow(w) PROVE PricesInv'
  BY <1>0, <1>3 DEF SetTwapWindow, PricesInv
<1>4. ASSUME NEW f \in Feeds, AddSourceOracle(f) \/ RemoveSourceOracle(f) PROVE PricesInv'
  BY <1>0, <1>4 DEF AddSourceOracle, RemoveSourceOracle, PricesInv
<1>5. ASSUME NEW answering \in SUBSET Feeds, GetAggregatedPrice(answering) PROVE PricesInv'
  <2>1. /\ health' = [f \in Feeds |-> IF f \in answering THEN Recovers(f)
                                      ELSE IF f \in feeds THEN Fails(f) ELSE health[f]]
        /\ misses' = [f \in Feeds |-> IF f \in answering THEN 0
                                ELSE IF f \in feeds THEN LeastOf(misses[f] + 1, FailureThreshold)
                                ELSE misses[f]]
        /\ UNCHANGED <<now, ring, ringNext, ringCount, window, reports, feeds>>
    BY <1>5 DEF GetAggregatedPrice
  <2>2. ASSUME NEW f \in Feeds
        PROVE  /\ health'[f] \in [failures : 0 .. FailureThreshold, healthy : BOOLEAN]
               /\ misses'[f] \in 0 .. FailureThreshold
               /\ health'[f].failures = misses'[f]
               /\ health'[f].healthy <=> misses'[f] < FailureThreshold
    <3>1. CASE f \in answering
      <4>1. health'[f] = [failures |-> 0, healthy |-> TRUE] /\ misses'[f] = 0
        BY <2>1, <3>1 DEF Recovers
      <4> QED BY <4>1, PricesAssumption
    <3>2. CASE f \notin answering /\ f \in feeds
      <4> DEFINE m == LeastOf(misses[f] + 1, FailureThreshold)
                 ok == health[f].healthy /\ m < FailureThreshold
      <4>1. /\ misses[f] \in 0 .. FailureThreshold /\ health[f].failures = misses[f]
            /\ health[f].healthy \in BOOLEAN
            /\ health[f].healthy <=> misses[f] < FailureThreshold
        BY <1>0
      <4>2. health'[f] = [failures |-> m, healthy |-> ok] /\ misses'[f] = m
        BY <2>1, <3>2, <4>1 DEF Fails
      <4>3. m \in 0 .. FailureThreshold /\ ok \in BOOLEAN /\ (ok <=> m < FailureThreshold)
        BY <4>1, PricesAssumption DEF LeastOf
      <4> HIDE DEF m, ok
      <4> QED BY <4>2, <4>3
    <3>3. CASE f \notin answering /\ f \notin feeds
      <4>1. health'[f] = health[f] /\ misses'[f] = misses[f]
        BY <2>1, <3>3
      <4> QED BY <1>0, <4>1
    <3> QED BY <3>1, <3>2, <3>3
  <2>3. /\ health' \in [Feeds -> [failures : 0 .. FailureThreshold, healthy : BOOLEAN]]
        /\ misses' \in [Feeds -> 0 .. FailureThreshold]
    <3>1. /\ health' = [f \in Feeds |-> health'[f]] /\ misses' = [f \in Feeds |-> misses'[f]]
      BY <2>1
    <3> QED BY <2>2, <3>1
  <2> QED BY <1>0, <2>1, <2>2, <2>3 DEF PricesInv
<1>6. CASE UNCHANGED priceVars
  BY <1>0, <1>6 DEF priceVars, PricesInv
<1> QED BY <1>1, <1>2, <1>3, <1>4, <1>5, <1>6 DEF PricesNext

-------------------------------------------------------------------------------
(* WebhookDeliveries: a pending row has something that will still send it, *)
(* other than a handler that is about to bury it; and what is confirmed,   *)
(* waits or is not answered yet comes from different enqueues and replays. *)

CheckRow == [at : {"idle", "select", "mark", "record", "send", "done"},
             amount : Amounts \union {NoAmount}]

HookRow == [status : {"absent", "pending", "delivered", "failed", "dlq"}, attempts : Nat]

WorkerRow == [at : {"idle", "read", "post", "ok", "failed", "resend", "bury"},
              amount : Amounts \union {NoAmount}, attempts : Nat]

HookTyped ==
  /\ raised \in Amounts \union {0} /\ reached \in BOOLEAN
  /\ check \in [Checks -> CheckRow]
  /\ row \in [Amounts -> HookRow]
  /\ worker \in [Workers -> WorkerRow]
  /\ deadLetters \in [Amounts -> Nat]
  /\ queued \in [Amounts -> Nat]
  /\ chains \in [Amounts -> Nat]
  /\ recorded \in [Amounts -> Nat]
  /\ confirmed \in [Amounts -> Nat]
  /\ cut \in [Amounts -> BOOLEAN]
  /\ \A a \in Amounts : row[a].attempts = recorded[a]
  /\ \A w \in Workers : worker[w].at # "idle" => worker[w].amount \in Amounts
  /\ \A c \in Checks : check[c].at \notin {"idle", "done"} => check[c].amount \in Amounts

Delivering == {"read", "post", "ok", "failed", "resend"}

WillBeSent(a) ==
  row[a].status = "pending" /\ ~cut[a] =>
    \/ queued[a] > 0
    \/ \E w \in Workers : worker[w].amount = a /\ worker[w].at \in Delivering
    \/ \E c \in Checks : check[c].at = "send" /\ check[c].amount = a

Unanswered(a) == {w \in Workers : worker[w].amount = a /\ worker[w].at \in Delivering \ {"ok"}}

PaidFor(a) == confirmed[a] + queued[a] + Cardinality(Unanswered(a)) <= chains[a]

HookInv == HookTyped /\ \A a \in Amounts : WillBeSent(a) /\ PaidFor(a)

LEMMA HandlersCounted ==
  ASSUME NEW a
  PROVE  IsFiniteSet(Unanswered(a)) /\ Cardinality(Unanswered(a)) \in Nat
<1>1. Unanswered(a) \subseteq Workers
  BY DEF Unanswered
<1> QED BY <1>1, WebhookAssumption, FS_Subset, FS_CardinalityType

\* A check or a handler that goes on with its delivery.
LEMMA CheckMoves ==
  ASSUME HookTyped, NEW c \in Checks, check[c].at \notin {"idle", "done"},
         NEW k \in {"select", "mark", "record", "send", "done"},
         check' = [check EXCEPT ![c].at = k]
  PROVE  /\ check' \in [Checks -> CheckRow] /\ check'[c].at = k
         /\ \A d \in Checks : check'[d].at \notin {"idle", "done"} => check'[d].amount \in Amounts
<1> DEFINE r == [check[c] EXCEPT !.at = k]
<1>1. check[c] \in CheckRow /\ check[c].amount \in Amounts
  BY DEF HookTyped
<1>2. r \in CheckRow /\ r.at = k /\ r.amount = check[c].amount
  BY <1>1 DEF CheckRow
<1>3. check' = [check EXCEPT ![c] = r]
  OBVIOUS
<1> HIDE DEF r
<1> QED BY <1>1, <1>2, <1>3 DEF HookTyped

LEMMA HandlerMoves ==
  ASSUME HookTyped, NEW w \in Workers, worker[w].at # "idle",
         NEW k \in {"post", "ok", "failed", "resend", "bury"}, NEW n \in Nat,
         \/ worker' = [worker EXCEPT ![w].at = k]
         \/ worker' = [worker EXCEPT ![w].at = k, ![w].attempts = n]
  PROVE  /\ worker' \in [Workers -> WorkerRow] /\ worker'[w].at = k
         /\ worker'[w].amount = worker[w].amount
         /\ \A v \in Workers : worker'[v].at # "idle" => worker'[v].amount \in Amounts
         /\ \A v \in Workers \ {w} : worker'[v] = worker[v]
<1>1. worker[w] \in WorkerRow /\ worker[w].amount \in Amounts
  BY DEF HookTyped
<1>2. CASE worker' = [worker EXCEPT ![w].at = k]
  <2> DEFINE r == [worker[w] EXCEPT !.at = k]
  <2>1. r \in WorkerRow /\ r.at = k /\ r.amount = worker[w].amount
    BY <1>1 DEF WorkerRow
  <2>2. worker' = [worker EXCEPT ![w] = r]
    BY <1>2
  <2> HIDE DEF r
  <2> QED BY <1>1, <2>1, <2>2 DEF HookTyped
<1>3. CASE worker' = [worker EXCEPT ![w].at = k, ![w].attempts = n]
  <2> DEFINE r == [worker[w] EXCEPT !.at = k, !.attempts = n]
  <2>1. r \in WorkerRow /\ r.at = k /\ r.amount = worker[w].amount
    BY <1>1 DEF WorkerRow
  <2>2. /\ worker' \in [Workers -> WorkerRow] /\ worker'[w] = r
        /\ \A v \in Workers \ {w} : worker'[v] = worker[v]
    <3>1. DOMAIN worker = Workers /\ \A v \in Workers : worker[v] \in WorkerRow
      BY DEF HookTyped
    <3>2. worker'[w] = r /\ \A v \in Workers \ {w} : worker'[v] = worker[v]
      BY <1>3, <3>1
    <3>3. worker' = [v \in Workers |-> worker'[v]]
      BY <1>3, <3>1
    <3> HIDE DEF r
    <3> QED BY <2>1, <3>1, <3>2, <3>3
  <2> HIDE DEF r
  <2> QED BY <1>1, <2>1, <2>2 DEF HookTyped
<1> QED BY <1>2, <1>3

LEMMA HookStart == HookInit => HookInv
<1> SUFFICES ASSUME HookInit PROVE HookInv
  OBVIOUS
<1>1. HookTyped
  BY DEF HookInit, HookTyped, CheckRow, HookRow, WorkerRow, AtRest, Free, Absent
<1>2. ASSUME NEW a \in Amounts PROVE WillBeSent(a) /\ PaidFor(a)
  <2>1. Unanswered(a) = {}
    BY DEF HookInit, Unanswered, Delivering, Free
  <2>2. Cardinality(Unanswered(a)) = 0
    BY <2>1, FS_EmptySet
  <2>3. PaidFor(a)
    BY <2>2 DEF HookInit, PaidFor
  <2> QED BY <2>3 DEF HookInit, WillBeSent, Absent
<1> QED BY <1>1, <1>2 DEF HookInv

\* A step that concerns one delivery leaves what is said of the others.
LEMMA OneDelivery ==
  ASSUME HookInv, HookTyped', NEW b \in Amounts,
         \A a \in Amounts \ {b} :
           /\ row'[a] = row[a] /\ cut'[a] = cut[a] /\ queued'[a] = queued[a]
           /\ confirmed'[a] = confirmed[a] /\ chains'[a] = chains[a],
         \A w \in Workers :
           \/ worker'[w] = worker[w]
           \/ /\ worker[w].at = "idle" \/ worker[w].amount = b
              /\ worker'[w].at = "idle" \/ worker'[w].amount = b,
         \A c \in Checks :
           \/ check'[c] = check[c]
           \/ check[c].at # "send" \/ check[c].amount = b,
         WillBeSent(b)', PaidFor(b)'
  PROVE  HookInv'
<1>1. ASSUME NEW a \in Amounts, a # b PROVE WillBeSent(a)' /\ PaidFor(a)'
  <2>1. Unanswered(a)' = Unanswered(a)
    BY <1>1 DEF Unanswered, Delivering
  <2>2. PaidFor(a)'
    BY <1>1, <2>1 DEF PaidFor, HookInv
  <2>3. ASSUME row'[a].status = "pending", ~cut'[a], ~(queued'[a] > 0)
        PROVE  \/ \E w \in Workers : worker'[w].amount = a /\ worker'[w].at \in Delivering
               \/ \E c \in Checks : check'[c].at = "send" /\ check'[c].amount = a
    <3>1. WillBeSent(a) /\ row[a].status = "pending" /\ ~cut[a] /\ ~(queued[a] > 0)
      BY <1>1, <2>3 DEF HookInv
    <3>2. ASSUME NEW w \in Workers, worker[w].amount = a, worker[w].at \in Delivering
          PROVE  worker'[w] = worker[w]
      BY <1>1, <3>2 DEF Delivering
    <3>3. ASSUME NEW c \in Checks, check[c].at = "send", check[c].amount = a
          PROVE  check'[c] = check[c]
      BY <1>1, <3>3
    <3> QED BY <3>1, <3>2, <3>3 DEF WillBeSent
  <2> QED BY <2>2, <2>3 DEF WillBeSent
<1> QED BY <1>1 DEF HookInv

LEMMA ChecksKeep ==
  ASSUME HookInv, NEW c \in Checks,
         ReadsTotal(c) \/ SelectsMilestone(c) \/ MarksMilestone(c) \/ Records(c) \/ Dispatches(c)
           \/ CheckDies(c)
  PROVE  HookInv'
<1>0. HookTyped /\ \A a \in Amounts : WillBeSent(a) /\ PaidFor(a)
  BY DEF HookInv
<1>1. ASSUME ReadsTotal(c) \/ SelectsMilestone(c) \/ MarksMilestone(c) PROVE HookInv'
  <2>1. HookTyped'
    <3>1. CASE ReadsTotal(c)
      BY <1>0, <3>1 DEF ReadsTotal, HookTyped, CheckRow, HookRow, WorkerRow
    <3>2. CASE SelectsMilestone(c)
      BY <1>0, <3>2 DEF SelectsMilestone, HookTyped, CheckRow, HookRow, WorkerRow
    <3>3. CASE MarksMilestone(c)
      <4>1. /\ check[c].at = "mark" /\ reached' \in BOOLEAN
            /\ \/ check' = [check EXCEPT ![c].at = "record"]
               \/ check' = [check EXCEPT ![c].at = "done"]
            /\ UNCHANGED <<raised, row, deadLetters, queued, worker, chains, recorded, confirmed,
                           cut>>
        BY <1>0, <3>3 DEF MarksMilestone, HookTyped
      <4>2. /\ check' \in [Checks -> CheckRow]
            /\ \A d \in Checks : check'[d].at \notin {"idle", "done"} => check'[d].amount \in Amounts
        BY <1>0, <4>1, CheckMoves
      <4> QED BY <1>0, <4>1, <4>2 DEF HookTyped
    <3> QED BY <1>1, <3>1, <3>2, <3>3
  <2>2. /\ UNCHANGED <<row, queued, worker, confirmed, chains, cut>>
        /\ check[c].at # "send" /\ \A d \in Checks \ {c} : check'[d] = check[d]
    BY <1>0, <1>1 DEF ReadsTotal, SelectsMilestone, MarksMilestone, HookTyped, CheckRow, HookRow, WorkerRow
  <2>3. ASSUME NEW a \in Amounts PROVE WillBeSent(a)' /\ PaidFor(a)'
    <3>1. Unanswered(a)' = Unanswered(a)
      BY <2>2 DEF Unanswered
    <3>2. PaidFor(a)'
      BY <1>0, <2>2, <3>1 DEF PaidFor
    <3>3. \A d \in Checks : check[d].at = "send" => check'[d] = check[d]
      BY <2>2
    <3>4. WillBeSent(a)'
      BY <1>0, <2>2, <3>3 DEF WillBeSent
    <3> QED BY <3>2, <3>4
  <2> QED BY <2>1, <2>3 DEF HookInv
<1>2. ASSUME Records(c) \/ Dispatches(c) \/ CheckDies(c) PROVE HookInv'
  <2>1. HookTyped'
    <3>1. CASE Records(c)
      <4>1. PICK b \in Amounts : check[c].amount = b
        BY <1>0, <3>1 DEF Records, HookTyped
      <4>2. /\ check[c].at = "record"
            /\ \/ check' = [check EXCEPT ![c].at = "send"]
               \/ check' = [check EXCEPT ![c].at = "done"]
            /\ row' = row \/ (row[b] = Absent /\ row' = [row EXCEPT ![b].status = "pending"])
            /\ UNCHANGED <<raised, reached, deadLetters, queued, worker, chains, recorded,
                           confirmed, cut>>
        BY <3>1, <4>1 DEF Records
      <4>3. /\ check' \in [Checks -> CheckRow]
            /\ \A d \in Checks : check'[d].at \notin {"idle", "done"} => check'[d].amount \in Amounts
        BY <1>0, <4>2, CheckMoves
      <4>4. row' \in [Amounts -> HookRow] /\ \A a \in Amounts : row'[a].attempts = recorded[a]
        <5> DEFINE r == [row[b] EXCEPT !.status = "pending"]
        <5>1. r \in HookRow /\ r.attempts = row[b].attempts
          BY <1>0 DEF HookTyped, HookRow
        <5>2. row' = row \/ row' = [row EXCEPT ![b] = r]
          BY <4>2
        <5> HIDE DEF r
        <5> QED BY <1>0, <5>1, <5>2 DEF HookTyped
      <4> QED BY <1>0, <4>2, <4>3, <4>4 DEF HookTyped
    <3>2. CASE Dispatches(c)
      <4>1. PICK b \in Amounts : check[c].amount = b
        BY <1>0, <3>2 DEF Dispatches, HookTyped
      <4>2. /\ check[c].at = "send" /\ check' = [check EXCEPT ![c].at = "done"]
            /\ UNCHANGED <<raised, reached, row, deadLetters, worker, recorded, confirmed>>
        BY <3>2 DEF Dispatches
      <4>3. /\ check' \in [Checks -> CheckRow]
            /\ \A d \in Checks : check'[d].at \notin {"idle", "done"} => check'[d].amount \in Amounts
        BY <1>0, <4>2, CheckMoves
      <4>4. queued' \in [Amounts -> Nat] /\ chains' \in [Amounts -> Nat] /\ cut' \in [Amounts -> BOOLEAN]
        <5>1. /\ queued \in [Amounts -> Nat] /\ chains \in [Amounts -> Nat]
              /\ cut \in [Amounts -> BOOLEAN]
          BY <1>0 DEF HookTyped
        <5>2. CASE /\ queued' = [queued EXCEPT ![b] = @ + 1]
                   /\ chains' = [chains EXCEPT ![b] = @ + 1] /\ UNCHANGED cut
          BY <5>1, <5>2
        <5>3. CASE cut' = [cut EXCEPT ![b] = TRUE] /\ UNCHANGED <<queued, chains>>
          <6>1. cut' \in [Amounts -> BOOLEAN]
            BY <5>1, <5>3, Zenon
          <6> QED BY <5>1, <5>3, <6>1
        <5> QED BY <3>2, <4>1, <5>2, <5>3 DEF Dispatches
      <4> QED BY <1>0, <4>2, <4>3, <4>4 DEF HookTyped
    <3>3. CASE CheckDies(c)
      BY <1>0, <3>3 DEF CheckDies, HookTyped, CheckRow, HookRow, WorkerRow
    <3> QED BY <1>2, <3>1, <3>2, <3>3
  <2>2. PICK b \in Amounts : check[c].amount = b
    BY <1>0, <1>2 DEF Records, Dispatches, CheckDies, HookTyped
  <2>3. /\ worker' = worker /\ confirmed' = confirmed
        /\ \A d \in Checks \ {c} : check'[d] = check[d]
        /\ \A a \in Amounts \ {b} : /\ row'[a] = row[a] /\ cut'[a] = cut[a]
                                    /\ queued'[a] = queued[a] /\ chains'[a] = chains[a]
    <3>1. CASE Records(c)
      BY <1>0, <2>2, <3>1 DEF Records, HookTyped, CheckRow, HookRow, WorkerRow
    <3>2. CASE Dispatches(c)
      BY <1>0, <2>2, <3>2 DEF Dispatches, HookTyped, CheckRow, HookRow, WorkerRow
    <3>3. CASE CheckDies(c)
      BY <1>0, <2>2, <3>3 DEF CheckDies, HookTyped, CheckRow, HookRow, WorkerRow
    <3> QED BY <1>2, <3>1, <3>2, <3>3
  <2>4. Unanswered(b)' = Unanswered(b)
    BY <2>3 DEF Unanswered
  <2>5. Cardinality(Unanswered(b)) \in Nat
    BY HandlersCounted
  <2>6. PaidFor(b)'
    <3>1. confirmed[b] \in Nat /\ queued[b] \in Nat /\ chains[b] \in Nat /\ PaidFor(b)
      BY <1>0 DEF HookTyped, CheckRow, HookRow, WorkerRow
    <3>2. \/ queued'[b] = queued[b] /\ chains'[b] = chains[b]
          \/ queued'[b] = queued[b] + 1 /\ chains'[b] = chains[b] + 1
      BY <1>0, <1>2, <2>2 DEF Records, Dispatches, CheckDies, HookTyped, CheckRow, HookRow, WorkerRow
    <3> QED BY <2>3, <2>4, <2>5, <3>1, <3>2 DEF PaidFor
  <2>7. WillBeSent(b)'
    <3>1. CASE Records(c)
      <4>1. CASE check'[c].at = "send"
        <5>1. check'[c].amount = b
          BY <1>0, <2>2, <3>1 DEF Records, HookTyped, CheckRow, HookRow, WorkerRow
        <5> QED BY <4>1, <5>1 DEF WillBeSent
      <4>2. CASE check'[c].at # "send"
        <5>1. UNCHANGED <<row, queued, worker, cut>> /\ check[c].at # "send"
          BY <1>0, <3>1, <4>2 DEF Records, HookTyped, CheckRow, HookRow, WorkerRow
        <5>2. \A d \in Checks : check[d].at = "send" => check'[d] = check[d]
          BY <2>3, <5>1
        <5> QED BY <1>0, <5>1, <5>2 DEF WillBeSent
      <4> QED BY <4>1, <4>2
    <3>2. CASE Dispatches(c)
      <4>1. queued'[b] > 0 \/ cut'[b]
        BY <1>0, <2>2, <3>2 DEF Dispatches, HookTyped, CheckRow, HookRow, WorkerRow
      <4> QED BY <4>1 DEF WillBeSent
    <3>3. CASE CheckDies(c)
      <4>1. CASE check[c].at = "send"
        <5>1. cut'[b]
          BY <1>0, <2>2, <3>3, <4>1 DEF CheckDies, HookTyped, CheckRow, HookRow, WorkerRow
        <5> QED BY <5>1 DEF WillBeSent
      <4>2. CASE check[c].at # "send"
        <5>1. UNCHANGED <<row, queued, worker, cut>>
          BY <3>3, <4>2 DEF CheckDies
        <5>2. \A d \in Checks : check[d].at = "send" => check'[d] = check[d]
          BY <2>3, <4>2
        <5> QED BY <1>0, <5>1, <5>2 DEF WillBeSent
      <4> QED BY <4>1, <4>2
    <3> QED BY <1>2, <3>1, <3>2, <3>3
  <2> QED BY <2>1, <2>2, <2>3, <2>6, <2>7, OneDelivery
<1> QED BY <1>1, <1>2

HandlerActs(w) ==
  \/ Takes(w) \/ ReadsRow(w) \/ SkipsUnset(w) \/ Posts(w) \/ RecordsDelivery(w) \/ RecordsFailure(w)
  \/ Reschedules(w) \/ Buries(w) \/ WorkerDies(w) \/ Replays(w)

\* What a handler's step does to the delivery it is about.
LEMMA HandlerEffects ==
  ASSUME HookInv, NEW w \in Workers, HandlerActs(w)
  PROVE  /\ HookTyped' /\ check' = check
         /\ \A v \in Workers \ {w} : worker'[v] = worker[v]
         /\ \E b \in Amounts :
              /\ worker[w].at = "idle" \/ worker[w].amount = b
              /\ worker'[w].at = "idle" \/ worker'[w].amount = b
              /\ \A a \in Amounts \ {b} :
                   /\ row'[a] = row[a] /\ cut'[a] = cut[a] /\ queued'[a] = queued[a]
                   /\ confirmed'[a] = confirmed[a] /\ chains'[a] = chains[a]
<1>0. HookTyped
  BY DEF HookInv
<1> USE DEF HookTyped, CheckRow, HookRow, WorkerRow
<1>1. CASE Takes(w)
  <2>1. PICK b \in Amounts :
          /\ worker[w].at = "idle" /\ queued[b] > 0
          /\ queued' = [queued EXCEPT ![b] = @ - 1]
          /\ worker' = [worker EXCEPT ![w] = [at |-> "read", amount |-> b, attempts |-> 0]]
          /\ UNCHANGED <<raised, reached, check, row, deadLetters, chains, recorded, confirmed, cut>>
    BY <1>1 DEF Takes
  <2>2. HookTyped'
    BY <1>0, <2>1
  <2> QED BY <1>0, <2>1, <2>2
<1>2. CASE Replays(w)
  <2>1. PICK b \in Amounts :
          /\ worker[w].at = "idle"
          /\ row' = [row EXCEPT ![b] = [status |-> "pending", attempts |-> 0]]
          /\ worker' = [worker EXCEPT ![w] = [at |-> "read", amount |-> b, attempts |-> 0]]
          /\ chains' = [chains EXCEPT ![b] = @ + 1] /\ recorded' = [recorded EXCEPT ![b] = 0]
          /\ UNCHANGED <<raised, reached, check, deadLetters, queued, confirmed, cut>>
    BY <1>2 DEF Replays
  <2>2. HookTyped'
    BY <1>0, <2>1
  <2> QED BY <1>0, <2>1, <2>2
<1>3. ASSUME ~Takes(w), ~Replays(w)
      PROVE  worker[w].at # "idle"
  BY <1>3 DEF HandlerActs, ReadsRow, SkipsUnset, Posts, RecordsDelivery, RecordsFailure,
              Reschedules, Buries, WorkerDies
<1>4. ASSUME NEW b \in Amounts, worker[w].amount = b, ReadsRow(w)
      PROVE  /\ HookTyped' /\ worker'[w].amount = b
             /\ UNCHANGED <<check, row, cut, queued, confirmed, chains>>
             /\ \A v \in Workers \ {w} : worker'[v] = worker[v]
  <2>1. /\ row[b].attempts \in Nat /\ worker[w].at = "read"
        /\ worker' = [worker EXCEPT ![w].at = "post", ![w].attempts = row[b].attempts]
        /\ UNCHANGED <<raised, reached, check, row, deadLetters, queued, chains, recorded, confirmed,
                       cut>>
    BY <1>0, <1>4 DEF ReadsRow
  <2> HIDE DEF HookTyped, CheckRow, HookRow, WorkerRow
  <2>2. /\ worker' \in [Workers -> WorkerRow] /\ worker'[w].amount = b
        /\ \A v \in Workers : worker'[v].at # "idle" => worker'[v].amount \in Amounts
        /\ \A v \in Workers \ {w} : worker'[v] = worker[v]
    BY <1>0, <1>4, <2>1, HandlerMoves
  <2> QED BY <1>0, <2>1, <2>2 DEF HookTyped
<1>5. ASSUME NEW b \in Amounts, worker[w].amount = b, SkipsUnset(w)
      PROVE  /\ HookTyped' /\ worker'[w].at = "idle"
             /\ UNCHANGED <<check, cut, queued, confirmed, chains>>
             /\ \A a \in Amounts \ {b} : row'[a] = row[a]
             /\ \A v \in Workers \ {w} : worker'[v] = worker[v]
  BY <1>0, <1>5 DEF SkipsUnset, Free
<1>6. ASSUME NEW b \in Amounts, worker[w].amount = b, Posts(w)
      PROVE  /\ HookTyped' /\ worker'[w].amount = b
             /\ UNCHANGED <<check, row, cut, queued, chains>>
             /\ \A a \in Amounts \ {b} : confirmed'[a] = confirmed[a]
             /\ \A v \in Workers \ {w} : worker'[v] = worker[v]
  <2>1. /\ worker[w].at = "post" /\ confirmed' \in [Amounts -> Nat]
        /\ \A a \in Amounts \ {b} : confirmed'[a] = confirmed[a]
        /\ UNCHANGED <<raised, reached, check, row, deadLetters, queued, chains, recorded, cut>>
    BY <1>0, <1>6 DEF Posts
  <2>2. \/ worker' = [worker EXCEPT ![w].at = "ok"]
        \/ worker' = [worker EXCEPT ![w].at = "failed"]
    BY <1>6 DEF Posts
  <2> HIDE DEF HookTyped, CheckRow, HookRow, WorkerRow
  <2>3. /\ worker' \in [Workers -> WorkerRow] /\ worker'[w].amount = b
        /\ \A v \in Workers : worker'[v].at # "idle" => worker'[v].amount \in Amounts
        /\ \A v \in Workers \ {w} : worker'[v] = worker[v]
    BY <1>0, <1>6, <2>1, <2>2, HandlerMoves
  <2> QED BY <1>0, <2>1, <2>3 DEF HookTyped
<1>7. ASSUME NEW b \in Amounts, worker[w].amount = b, RecordsDelivery(w)
      PROVE  /\ HookTyped' /\ worker'[w].at = "idle"
             /\ UNCHANGED <<check, cut, queued, confirmed, chains>>
             /\ \A a \in Amounts \ {b} : row'[a] = row[a]
             /\ \A v \in Workers \ {w} : worker'[v] = worker[v]
  BY <1>0, <1>7 DEF RecordsDelivery, Writes, Free
<1>8. ASSUME NEW b \in Amounts, worker[w].amount = b, RecordsFailure(w)
      PROVE  /\ HookTyped' /\ worker'[w].amount = b
             /\ UNCHANGED <<check, cut, queued, confirmed, chains>>
             /\ \A a \in Amounts \ {b} : row'[a] = row[a]
             /\ \A v \in Workers \ {w} : worker'[v] = worker[v]
  <2>1. /\ worker[w].at = "failed"
        /\ \/ Writes(w, "pending") /\ worker' = [worker EXCEPT ![w].at = "resend"]
           \/ Writes(w, "dlq") /\ worker' = [worker EXCEPT ![w].at = "bury"]
        /\ UNCHANGED <<raised, reached, check, deadLetters, queued, chains, confirmed, cut>>
    BY <1>8 DEF RecordsFailure
  <2>2. /\ row' \in [Amounts -> HookRow] /\ recorded' \in [Amounts -> Nat]
        /\ \A a \in Amounts : row'[a].attempts = recorded'[a]
        /\ \A a \in Amounts \ {b} : row'[a] = row[a]
    <3>1. PICK k \in {"pending", "dlq"} :
            /\ row' = [row EXCEPT ![b] = [status |-> k, attempts |-> @.attempts + 1]]
            /\ recorded' = [recorded EXCEPT ![b] = @ + 1]
      BY <1>8, <2>1 DEF Writes
    <3> DEFINE r == [status |-> k, attempts |-> row[b].attempts + 1]
    <3>2. r \in HookRow /\ r.attempts = recorded[b] + 1
      BY <1>0
    <3>3. row' = [row EXCEPT ![b] = r]
      BY <3>1
    <3>4. /\ row \in [Amounts -> HookRow] /\ recorded \in [Amounts -> Nat]
          /\ \A a \in Amounts : row[a].attempts = recorded[a]
      BY <1>0
    <3> HIDE DEF r, HookTyped, CheckRow, HookRow, WorkerRow
    <3> QED BY <3>1, <3>2, <3>3, <3>4
  <2> HIDE DEF HookTyped, CheckRow, HookRow, WorkerRow
  <2>3. /\ worker' \in [Workers -> WorkerRow] /\ worker'[w].amount = b
        /\ \A v \in Workers : worker'[v].at # "idle" => worker'[v].amount \in Amounts
        /\ \A v \in Workers \ {w} : worker'[v] = worker[v]
    BY <1>0, <1>8, <2>1, HandlerMoves
  <2> QED BY <1>0, <2>1, <2>2, <2>3 DEF HookTyped
<1>9. ASSUME NEW b \in Amounts, worker[w].amount = b, Reschedules(w)
      PROVE  /\ HookTyped' /\ worker'[w].at = "idle"
             /\ UNCHANGED <<check, row, confirmed, chains>>
             /\ \A a \in Amounts \ {b} : queued'[a] = queued[a] /\ cut'[a] = cut[a]
             /\ \A v \in Workers \ {w} : worker'[v] = worker[v]
  <2>1. /\ worker' = [worker EXCEPT ![w] = Free]
        /\ UNCHANGED <<raised, reached, check, row, deadLetters, chains, recorded, confirmed>>
    BY <1>9 DEF Reschedules
  <2>2. /\ worker' \in [Workers -> WorkerRow] /\ worker'[w].at = "idle"
        /\ \A v \in Workers : worker'[v].at # "idle" => worker'[v].amount \in Amounts
        /\ \A v \in Workers \ {w} : worker'[v] = worker[v]
    BY <1>0, <2>1 DEF Free
  <2>3. /\ queued' \in [Amounts -> Nat] /\ cut' \in [Amounts -> BOOLEAN]
        /\ \A a \in Amounts \ {b} : queued'[a] = queued[a] /\ cut'[a] = cut[a]
    <3>1. queued \in [Amounts -> Nat] /\ cut \in [Amounts -> BOOLEAN]
      BY <1>0
    <3>2. CASE queued' = [queued EXCEPT ![b] = @ + 1] /\ UNCHANGED cut
      BY <3>1, <3>2
    <3>3. CASE cut' = [cut EXCEPT ![b] = TRUE] /\ UNCHANGED queued
      <4>1. cut' \in [Amounts -> BOOLEAN]
        BY <3>1, <3>3, Zenon
      <4> HIDE DEF HookTyped
      <4> QED BY <3>1, <3>3, <4>1
    <3> QED BY <1>9, <3>2, <3>3 DEF Reschedules
  <2> QED BY <1>0, <2>1, <2>2, <2>3
<1>10. ASSUME NEW b \in Amounts, worker[w].amount = b, Buries(w)
      PROVE  /\ HookTyped' /\ worker'[w].at = "idle"
             /\ UNCHANGED <<check, row, cut, queued, confirmed, chains>>
             /\ \A v \in Workers \ {w} : worker'[v] = worker[v]
  BY <1>0, <1>10 DEF Buries, Free
<1>11. ASSUME NEW b \in Amounts, worker[w].amount = b, WorkerDies(w)
      PROVE  /\ HookTyped' /\ worker'[w].at = "idle"
             /\ UNCHANGED <<check, row, queued, confirmed, chains>>
             /\ \A a \in Amounts \ {b} : cut'[a] = cut[a]
             /\ \A v \in Workers \ {w} : worker'[v] = worker[v]
  BY <1>0, <1>11 DEF WorkerDies, Free
<1>12. CASE ~Takes(w) /\ ~Replays(w)
  <2>1. PICK b \in Amounts : worker[w].amount = b
    BY <1>0, <1>3, <1>12
  <2> HIDE DEF HookTyped, CheckRow, HookRow, WorkerRow
  <2> QED BY <1>4, <1>5, <1>6, <1>7, <1>8, <1>9, <1>10, <1>11, <1>12, <2>1 DEF HandlerActs
<1> QED BY <1>1, <1>2, <1>12

LEMMA HandlersKeep ==
  ASSUME HookInv, NEW w \in Workers, HandlerActs(w)
  PROVE  HookInv'
<1>0. HookTyped /\ \A a \in Amounts : WillBeSent(a) /\ PaidFor(a)
  BY DEF HookInv
<1>1. /\ HookTyped' /\ check' = check
      /\ \A v \in Workers \ {w} : worker'[v] = worker[v]
  BY HandlerEffects
<1>2. PICK b \in Amounts :
        /\ worker[w].at = "idle" \/ worker[w].amount = b
        /\ worker'[w].at = "idle" \/ worker'[w].amount = b
        /\ \A a \in Amounts \ {b} :
             /\ row'[a] = row[a] /\ cut'[a] = cut[a] /\ queued'[a] = queued[a]
             /\ confirmed'[a] = confirmed[a] /\ chains'[a] = chains[a]
  BY HandlerEffects
<1>3. /\ IsFiniteSet(Unanswered(b)) /\ Cardinality(Unanswered(b)) \in Nat
      /\ confirmed[b] \in Nat /\ queued[b] \in Nat /\ chains[b] \in Nat /\ PaidFor(b)
  BY <1>0, HandlersCounted DEF HookTyped, CheckRow, HookRow, WorkerRow
<1> DEFINE n == Cardinality(Unanswered(b))
<1>4. /\ \A v \in Unanswered(b)' : v \in Unanswered(b) \/ v = w
      /\ (worker'[w].at \notin Delivering \ {"ok"} =>
            \A v \in Unanswered(b)' : v \in Unanswered(b) /\ v # w)
      /\ (worker[w].at \in Delivering \ {"ok"} => w \in Unanswered(b))
  BY <1>1, <1>2 DEF Unanswered, Delivering
<1>5. n' \in Nat /\ n' <= n + 1
  BY <1>3, <1>4, GainsOne
<1>6. worker'[w].at \notin Delivering \ {"ok"} => n' <= n
  BY <1>3, <1>4, LosesSome
<1>7. worker'[w].at \notin Delivering \ {"ok"} /\ worker[w].at \in Delivering \ {"ok"} => n' <= n - 1
  BY <1>3, <1>4, LosesOne
<1>8. worker[w].at \in Delivering \ {"ok"} => n' <= n
  <2>1. ASSUME w \in Unanswered(b) PROVE \A v \in Unanswered(b)' : v \in Unanswered(b)
    BY <1>4, <2>1
  <2> QED BY <1>3, <1>4, <2>1, LosesSome
<1>9. ASSUME worker'[w].at \in Delivering, worker'[w].amount = b PROVE WillBeSent(b)'
  BY <1>9 DEF WillBeSent
<1>10. ASSUME UNCHANGED <<row, cut, queued>>, worker[w].at \notin Delivering PROVE WillBeSent(b)'
  <2>1. \A v \in Workers : worker[v].at \in Delivering => worker'[v] = worker[v]
    BY <1>1, <1>10
  <2> QED BY <1>0, <1>1, <1>10, <2>1 DEF WillBeSent
<1> HIDE DEF n
<1>11. WillBeSent(b)' /\ PaidFor(b)'
  <2> USE DEF Delivering
  <2>1. CASE Takes(w)
    <3>1. /\ worker'[w].at = "read" /\ queued'[b] = queued[b] - 1
          /\ UNCHANGED <<confirmed, chains>>
      BY <1>0, <1>2, <2>1 DEF Takes, HookTyped, CheckRow, HookRow, WorkerRow
    <3> QED BY <1>2, <1>3, <1>5, <1>9, <3>1 DEF PaidFor, n
  <2>2. CASE ReadsRow(w)
    <3>1. /\ worker[w].at = "read" /\ worker'[w].at = "post"
          /\ UNCHANGED <<confirmed, chains, queued>>
      BY <1>0, <2>2 DEF ReadsRow, HookTyped, CheckRow, HookRow, WorkerRow
    <3> QED BY <1>2, <1>3, <1>5, <1>8, <1>9, <3>1 DEF PaidFor, n
  <2>3. CASE SkipsUnset(w)
    <3>1. /\ worker'[w].at = "idle" /\ row'[b].status = "failed"
          /\ UNCHANGED <<confirmed, chains, queued>>
      BY <1>0, <1>2, <2>3 DEF SkipsUnset, HookTyped, CheckRow, HookRow, WorkerRow, Free
    <3> QED BY <1>3, <1>5, <1>6, <3>1 DEF PaidFor, WillBeSent, n
  <2>4. CASE Posts(w)
    <3>1. worker[w].at = "post" /\ UNCHANGED <<chains, queued>>
      BY <2>4 DEF Posts
    <3>2. CASE worker'[w].at = "ok" /\ confirmed'[b] = confirmed[b] + 1
      BY <1>2, <1>3, <1>5, <1>7, <1>9, <3>1, <3>2 DEF PaidFor, n
    <3>3. CASE worker'[w].at = "failed" /\ confirmed'[b] = confirmed[b]
      BY <1>2, <1>3, <1>5, <1>8, <1>9, <3>1, <3>3 DEF PaidFor, n
    <3>4. \/ worker'[w].at = "ok" /\ confirmed'[b] = confirmed[b] + 1
          \/ worker'[w].at = "failed" /\ confirmed'[b] = confirmed[b]
      BY <1>0, <1>2, <2>4 DEF Posts, HookTyped, CheckRow, HookRow, WorkerRow
    <3> QED BY <3>2, <3>3, <3>4
  <2>5. CASE RecordsDelivery(w)
    <3>1. /\ worker'[w].at = "idle" /\ row'[b].status = "delivered"
          /\ UNCHANGED <<confirmed, chains, queued>>
      BY <1>0, <1>2, <2>5 DEF RecordsDelivery, Writes, HookTyped, CheckRow, HookRow, WorkerRow, Free
    <3> QED BY <1>3, <1>5, <1>6, <3>1 DEF PaidFor, WillBeSent, n
  <2>6. CASE RecordsFailure(w)
    <3>1. worker[w].at = "failed" /\ UNCHANGED <<confirmed, chains, queued>>
      BY <2>6 DEF RecordsFailure
    <3>2. PaidFor(b)'
      BY <1>3, <1>5, <1>8, <3>1 DEF PaidFor, n
    <3>3. worker'[w].at = "resend" \/ row'[b].status = "dlq"
      BY <1>0, <1>2, <2>6 DEF RecordsFailure, Writes, HookTyped, CheckRow, HookRow, WorkerRow
    <3> QED BY <1>2, <1>9, <3>2, <3>3 DEF WillBeSent
  <2>7. CASE Reschedules(w)
    <3>1. /\ worker[w].at = "resend" /\ worker'[w].at = "idle"
          /\ UNCHANGED <<confirmed, chains>>
      BY <1>0, <2>7 DEF Reschedules, HookTyped, CheckRow, HookRow, WorkerRow, Free
    <3>2. \/ queued'[b] = queued[b] + 1
          \/ queued'[b] = queued[b] /\ cut'[b]
      BY <1>0, <1>2, <2>7 DEF Reschedules, HookTyped, CheckRow, HookRow, WorkerRow
    <3>3. PaidFor(b)'
      BY <1>3, <1>5, <1>7, <3>1, <3>2 DEF PaidFor, n
    <3>4. queued'[b] > 0 \/ cut'[b]
      BY <1>3, <3>2
    <3> QED BY <3>3, <3>4 DEF WillBeSent
  <2>8. CASE Buries(w)
    <3>1. /\ worker[w].at = "bury" /\ worker'[w].at = "idle"
          /\ UNCHANGED <<confirmed, chains, queued, row, cut>>
      BY <1>0, <2>8 DEF Buries, HookTyped, CheckRow, HookRow, WorkerRow, Free
    <3> QED BY <1>3, <1>5, <1>6, <1>10, <3>1 DEF PaidFor, n
  <2>9. CASE WorkerDies(w)
    <3>1. /\ worker'[w].at = "idle" /\ cut'[b]
          /\ UNCHANGED <<confirmed, chains, queued>>
      BY <1>0, <1>2, <2>9 DEF WorkerDies, HookTyped, CheckRow, HookRow, WorkerRow, Free
    <3> QED BY <1>3, <1>5, <1>6, <3>1 DEF PaidFor, WillBeSent, n
  <2>10. CASE Replays(w)
    <3>1. /\ worker'[w].at = "read" /\ chains'[b] = chains[b] + 1
          /\ UNCHANGED <<confirmed, queued>>
      BY <1>0, <1>2, <2>10 DEF Replays, HookTyped, CheckRow, HookRow, WorkerRow
    <3> QED BY <1>2, <1>3, <1>5, <1>9, <3>1 DEF PaidFor, n
  <2> QED BY <2>1, <2>2, <2>3, <2>4, <2>5, <2>6, <2>7, <2>8, <2>9, <2>10 DEF HandlerActs
<1>12. \A v \in Workers :
         \/ worker'[v] = worker[v]
         \/ /\ worker[v].at = "idle" \/ worker[v].amount = b
            /\ worker'[v].at = "idle" \/ worker'[v].amount = b
  BY <1>1, <1>2
<1> QED BY <1>1, <1>2, <1>11, <1>12, OneDelivery

LEMMA HookKeeps == HookInv /\ [HookNext]_hookVars => HookInv'
<1> SUFFICES ASSUME HookInv, [HookNext]_hookVars PROVE HookInv'
  OBVIOUS
<1>1. CASE Raises
  <2>1. HookTyped' /\ UNCHANGED <<check, row, queued, worker, chains, confirmed, cut>>
    BY <1>1 DEF Raises, HookInv, HookTyped, CheckRow, HookRow, WorkerRow
  <2>2. ASSUME NEW a \in Amounts PROVE WillBeSent(a)' /\ PaidFor(a)'
    BY <2>1 DEF HookInv, WillBeSent, PaidFor, Unanswered
  <2> QED BY <2>1, <2>2 DEF HookInv
<1>2. CASE UNCHANGED hookVars
  <2>1. HookTyped'
    BY <1>2 DEF hookVars, HookInv, HookTyped, CheckRow, HookRow, WorkerRow
  <2>2. ASSUME NEW a \in Amounts PROVE WillBeSent(a)' /\ PaidFor(a)'
    BY <1>2 DEF hookVars, HookInv, WillBeSent, PaidFor, Unanswered
  <2> QED BY <2>1, <2>2 DEF HookInv
<1>3. ASSUME NEW c \in Checks,
             ReadsTotal(c) \/ SelectsMilestone(c) \/ MarksMilestone(c) \/ Records(c)
               \/ Dispatches(c) \/ CheckDies(c)
      PROVE  HookInv'
  BY <1>3, ChecksKeep
<1>4. ASSUME NEW w \in Workers, HandlerActs(w) PROVE HookInv'
  BY <1>4, HandlersKeep
<1> QED BY <1>1, <1>2, <1>3, <1>4 DEF HookNext, HandlerActs

LEMMA HookSuffices == HookInv => HookTypeOK /\ NothingForgotten /\ ConfirmedPerChain
<1> SUFFICES ASSUME HookInv PROVE HookTypeOK /\ NothingForgotten /\ ConfirmedPerChain
  OBVIOUS
<1>1. HookTypeOK
  BY DEF HookInv, HookTyped, HookTypeOK, CheckRow, HookRow, WorkerRow
<1>2. NothingForgotten
  BY DEF HookInv, WillBeSent, NothingForgotten
<1>3. ASSUME NEW a \in Amounts PROVE confirmed[a] <= chains[a]
  <2>1. Cardinality(Unanswered(a)) \in Nat /\ PaidFor(a)
    BY HandlersCounted DEF HookInv
  <2>2. confirmed[a] \in Nat /\ queued[a] \in Nat /\ chains[a] \in Nat
    BY DEF HookInv, HookTyped
  <2> QED BY <2>1, <2>2 DEF PaidFor
<1> QED BY <1>1, <1>2, <1>3 DEF ConfirmedPerChain

-------------------------------------------------------------------------------
(* DigestSends: every holder of the claim but one is paid for by a takeover,         *)
(* and every mail, sent or about to be, but one by a takeover or a recorded failure. *)

Mailing == {r \in Runs : run[r] = "send"}

DigestInv ==
  /\ DigestTypeOK /\ OneHolder
  /\ digest.status = "none" => digest.attempts = 0 /\ mails = 0 /\ Holders = {}
  /\ digest.status # "sending" => Cardinality(Holders) <= takeovers
  /\ mails + Cardinality(Mailing) <= 1 + takeovers + failedMarks
  /\ digest.status = "failed" => mails + Cardinality(Mailing) <= takeovers + failedMarks

LEMMA RunsCounted ==
  /\ IsFiniteSet(Holders) /\ Cardinality(Holders) \in Nat
  /\ IsFiniteSet(Mailing) /\ Cardinality(Mailing) \in Nat
<1>1. Holders \subseteq Runs /\ Mailing \subseteq Runs
  BY DEF Holders, Mailing
<1> QED BY <1>1, DigestAssumption, FS_Subset, FS_CardinalityType

LEMMA DigestStart == DigestInit => DigestInv
<1> SUFFICES ASSUME DigestInit PROVE DigestInv
  OBVIOUS
<1>1. Holders = {} /\ Mailing = {}
  BY DEF DigestInit, Holders, Mailing
<1>2. Cardinality(Holders) = 0 /\ Cardinality(Mailing) = 0
  BY <1>1, FS_EmptySet
<1>3. DigestTypeOK
  BY DigestAssumption DEF DigestInit, DigestTypeOK
<1> QED BY <1>1, <1>2, <1>3 DEF DigestInit, DigestInv, OneHolder

LEMMA DigestKeeps == DigestInv /\ [DigestNext]_digestVars => DigestInv'
<1> SUFFICES ASSUME DigestInv, [DigestNext]_digestVars PROVE DigestInv'
  OBVIOUS
<1> DEFINE held == Cardinality(Holders)
           sending == Cardinality(Mailing)
<1>0. /\ IsFiniteSet(Holders) /\ IsFiniteSet(Mailing) /\ held \in Nat /\ sending \in Nat
      /\ SendAttempts \in Nat \ {0} /\ MaxClaims \in Nat
      /\ mails \in Nat /\ takeovers \in Nat /\ failedMarks \in Nat /\ digest.attempts \in Nat
      /\ DigestTypeOK
  BY RunsCounted, DigestAssumption DEF DigestInv, DigestTypeOK
<1>1. ASSUME NEW r \in Runs, ClaimsDigest(r) PROVE DigestInv'
  <2>1. /\ \A s \in Holders' : s \in Holders \/ s = r
        /\ \A s \in Mailing' : s \in Mailing \/ s = r
    BY <1>0, <1>1 DEF ClaimsDigest, Holders, Mailing, DigestTypeOK
  <2>2. held' \in Nat /\ held' <= held + 1 /\ sending' \in Nat /\ sending' <= sending + 1
    BY <1>0, <2>1, GainsOne
  <2>3. DigestTypeOK'
    <3>1. digest'.attempts <= SendAttempts + takeovers'
      BY <1>0, <1>1 DEF ClaimsDigest, MayRetry, MayTakeOver, DigestInv, DigestTypeOK
    <3> QED BY <1>0, <1>1, <3>1 DEF ClaimsDigest, DigestTypeOK
  <2>4. CASE digest.status = "none"
    <3>1. held = 0 /\ sending = 0 /\ mails = 0
      <4>1. Holders = {} /\ Mailing = {} /\ mails = 0
        BY <2>4 DEF DigestInv, Holders, Mailing
      <4> QED BY <4>1, FS_EmptySet
    <3> QED BY <1>0, <1>1, <2>2, <2>3, <2>4, <3>1 DEF ClaimsDigest, DigestInv, OneHolder
  <2>5. CASE MayRetry
    BY <1>0, <1>1, <2>2, <2>3, <2>5 DEF ClaimsDigest, MayRetry, DigestInv, OneHolder
  <2>6. CASE MayTakeOver
    BY <1>0, <1>1, <2>2, <2>3, <2>6 DEF ClaimsDigest, MayTakeOver, DigestInv, OneHolder
  <2> QED BY <1>1, <2>4, <2>5, <2>6 DEF ClaimsDigest
<1>2. ASSUME NEW r \in Runs, SkipsDigest(r) PROVE DigestInv'
  <2>1. Holders' = Holders /\ Mailing' = Mailing
    BY <1>0, <1>2 DEF SkipsDigest, Holders, Mailing, DigestTypeOK
  <2>2. DigestTypeOK'
    BY <1>0, <1>2 DEF SkipsDigest, DigestTypeOK
  <2> QED BY <1>2, <2>1, <2>2 DEF SkipsDigest, DigestInv, OneHolder
<1>3. CASE ClaimGoesStale
  <2>1. Holders' = Holders /\ Mailing' = Mailing
    BY <1>3 DEF ClaimGoesStale, Holders, Mailing
  <2>2. /\ DigestTypeOK' /\ digest'.status = "sending"
    BY <1>0, <1>3 DEF ClaimGoesStale, DigestTypeOK
  <2> QED BY <1>3, <2>1, <2>2 DEF ClaimGoesStale, DigestInv, OneHolder
<1>4. ASSUME NEW r \in Runs, Mails(r) PROVE DigestInv'
  <2>1. r \in Mailing /\ \A s \in Mailing' : s \in Mailing /\ s # r
    BY <1>0, <1>4 DEF Mails, Mailing, DigestTypeOK
  <2>2. sending' \in Nat /\ sending' <= sending - 1
    BY <1>0, <2>1, LosesOne
  <2>3. Holders' = Holders /\ Holders # {}
    BY <1>0, <1>4 DEF Mails, Holders, DigestTypeOK
  <2>4. DigestTypeOK'
    BY <1>0, <1>4 DEF Mails, DigestTypeOK
  <2>5. mails' \in Nat /\ mails' <= mails + 1 /\ UNCHANGED <<digest, takeovers, failedMarks>>
    BY <1>0, <1>4 DEF Mails
  <2> QED BY <1>0, <2>2, <2>3, <2>4, <2>5 DEF DigestInv, OneHolder
<1>5. ASSUME NEW r \in Runs, MarksSent(r) PROVE DigestInv'
  <2>1. Mailing' = Mailing /\ r \in Holders
    BY <1>0, <1>5 DEF MarksSent, Mailing, Holders, DigestTypeOK
  <2>2. DigestTypeOK'
    BY <1>0, <1>5 DEF MarksSent, DigestTypeOK
  <2>3. CASE run' = [run EXCEPT ![r] = "done"]
    <3>1. \A s \in Holders' : s \in Holders /\ s # r
      BY <1>0, <2>3 DEF Holders, DigestTypeOK
    <3>2. held' \in Nat /\ held' <= held - 1
      BY <1>0, <2>1, <3>1, LosesOne
    <3>3. digest'.status = "sent"
      BY <1>0, <1>5, <2>3 DEF MarksSent, DigestTypeOK
    <3> QED BY <1>0, <1>5, <2>1, <2>2, <3>2, <3>3 DEF MarksSent, DigestInv, OneHolder
  <2>4. CASE run' = [run EXCEPT ![r] = "failed"]
    <3>1. Holders' = Holders
      BY <1>0, <1>5, <2>4 DEF MarksSent, Holders, DigestTypeOK
    <3>2. UNCHANGED <<digest, mails, takeovers, failedMarks>>
      BY <1>0, <1>5, <2>4 DEF MarksSent, DigestTypeOK
    <3> QED BY <2>1, <2>2, <3>1, <3>2 DEF DigestInv, OneHolder
  <2> QED BY <1>5, <2>3, <2>4 DEF MarksSent
<1>6. ASSUME NEW r \in Runs, MarksFailed(r) PROVE DigestInv'
  <2>1. /\ r \in Holders /\ \A s \in Holders' : s \in Holders /\ s # r
        /\ Mailing' = Mailing
    BY <1>0, <1>6 DEF MarksFailed, Holders, Mailing, DigestTypeOK
  <2>2. held' \in Nat /\ held' <= held - 1
    BY <1>0, <2>1, LosesOne
  <2>3. DigestTypeOK'
    BY <1>0, <1>6 DEF MarksFailed, DigestTypeOK
  <2>4. Holders # {}
    BY <2>1
  <2>5. CASE UNCHANGED <<digest, failedMarks>>
    BY <1>0, <1>6, <2>1, <2>2, <2>3, <2>4, <2>5 DEF MarksFailed, DigestInv, OneHolder
  <2>6. CASE digest' = [digest EXCEPT !.status = "failed"] /\ failedMarks' = failedMarks + 1
    <3>1. digest'.status = "failed"
      BY <1>0, <2>6 DEF DigestTypeOK
    <3> QED BY <1>0, <1>6, <2>1, <2>2, <2>3, <2>6, <3>1 DEF MarksFailed, DigestInv, OneHolder
  <2> QED BY <1>6, <2>5, <2>6 DEF MarksFailed
<1>7. ASSUME NEW r \in Runs, RunRestarts(r) PROVE DigestInv'
  <2>1. (\A s \in Holders' : s \in Holders) /\ (\A s \in Mailing' : s \in Mailing)
    BY <1>0, <1>7 DEF RunRestarts, Holders, Mailing, DigestTypeOK
  <2>2. held' \in Nat /\ held' <= held /\ sending' \in Nat /\ sending' <= sending
    BY <1>0, <2>1, LosesSome
  <2>3. DigestTypeOK' /\ (Holders = {} => Holders' = {})
    BY <1>0, <1>7, <2>1 DEF RunRestarts, DigestTypeOK
  <2> QED BY <1>0, <1>7, <2>2, <2>3 DEF RunRestarts, DigestInv, OneHolder
<1>8. CASE UNCHANGED digestVars
  BY <1>8 DEF digestVars, DigestInv, DigestTypeOK, OneHolder, Holders, Mailing
<1> QED BY <1>1, <1>2, <1>3, <1>4, <1>5, <1>6, <1>7, <1>8 DEF DigestNext

LEMMA DigestSuffices == DigestInv => DigestTypeOK /\ OneHolder /\ MailsExplained
BY RunsCounted DEF DigestInv, DigestTypeOK, MailsExplained

-------------------------------------------------------------------------------
(* OfflineQueue: a tab that drains within its lease is the owner of a live *)
(* one, and what is recorded is what the server's key calls done.          *)

Draining(t) == t \notin outlived /\ tab[t].at # "idle"

TabRow == [at : {"idle", "snapshot", "next", "check", "skip", "submit", "posting", "remove"},
           item : Items \union {NoItem}, todo : SUBSET Items]

QueueTyped ==
  /\ local \subseteq Items /\ submitted \subseteq Items /\ skipped \subseteq Items
  /\ lease \in [owner : Tabs \union {NoTab}, live : BOOLEAN] /\ (lease.live => lease.owner # NoTab)
  /\ tab \in [Tabs -> TabRow]
  /\ stored \in [Items -> {"absent", "processing", "stuck", "done", "rejected"}]
  /\ rows \in [Items -> 0..1] /\ outlived \subseteq Tabs

QueueInv ==
  /\ QueueTyped
  /\ \A t \in Tabs : Draining(t) => lease.owner = t /\ lease.live
  /\ \A t \in Tabs : tab[t].at \in {"check", "skip", "submit", "posting", "remove"}
                       => tab[t].item \in Items
  /\ \A t \in Tabs : tab[t].at = "remove" => stored[tab[t].item] = "done"
  /\ \A i \in submitted : stored[i] = "done"
  /\ \A i \in Items : stored[i] = "done" <=> rows[i] = 1

LEMMA QueueStart == QueueInit => QueueInv
<1> SUFFICES ASSUME QueueInit PROVE QueueInv
  OBVIOUS
<1>1. QueueTyped
  BY DEF QueueInit, QueueTyped, TabRow, NoLease, Resting
<1> QED BY <1>1 DEF QueueInit, QueueInv, NoLease, Resting, Draining

\* One tab's row is written.
LEMMA TabWritten ==
  ASSUME QueueTyped, NEW t \in Tabs, NEW r \in TabRow, tab' = [tab EXCEPT ![t] = r]
  PROVE  /\ tab' \in [Tabs -> TabRow] /\ tab'[t] = r
         /\ \A u \in Tabs \ {t} : tab'[u] = tab[u]
BY DEF QueueTyped, TabRow

\* A tab goes on to its next item, or to another place with the one it has.
LEMMA TabAdvances ==
  ASSUME QueueTyped, NEW t \in Tabs
  PROVE  /\ tab' = [tab EXCEPT ![t].at = "next", ![t].item = NoItem] =>
              /\ tab' \in [Tabs -> TabRow] /\ tab'[t].at = "next"
              /\ \A u \in Tabs \ {t} : tab'[u] = tab[u]
         /\ \A at \in {"snapshot", "next", "check", "skip", "submit", "posting", "remove"} :
              tab' = [tab EXCEPT ![t].at = at] =>
                /\ tab' \in [Tabs -> TabRow] /\ tab'[t].at = at /\ tab'[t].item = tab[t].item
                /\ \A u \in Tabs \ {t} : tab'[u] = tab[u]
<1>1. ASSUME tab' = [tab EXCEPT ![t].at = "next", ![t].item = NoItem]
      PROVE  /\ tab' \in [Tabs -> TabRow] /\ tab'[t].at = "next"
             /\ \A u \in Tabs \ {t} : tab'[u] = tab[u]
  <2> DEFINE r == [tab[t] EXCEPT !.at = "next", !.item = NoItem]
  <2>1. r \in TabRow /\ r.at = "next"
    BY DEF QueueTyped, TabRow
  <2>2. tab' = [tab EXCEPT ![t] = r]
    BY <1>1
  <2> HIDE DEF r
  <2> QED BY <2>1, <2>2, TabWritten
<1>2. ASSUME NEW at \in {"snapshot", "next", "check", "skip", "submit", "posting", "remove"},
             tab' = [tab EXCEPT ![t].at = at]
      PROVE  /\ tab' \in [Tabs -> TabRow] /\ tab'[t].at = at /\ tab'[t].item = tab[t].item
             /\ \A u \in Tabs \ {t} : tab'[u] = tab[u]
  <2> DEFINE r == [tab[t] EXCEPT !.at = at]
  <2>1. r \in TabRow /\ r.at = at /\ r.item = tab[t].item
    BY DEF QueueTyped, TabRow
  <2>2. tab' = [tab EXCEPT ![t] = r]
    BY <1>2
  <2> HIDE DEF r
  <2> QED BY <2>1, <2>2, TabWritten
<1> QED BY <1>1, <1>2

\* A step of one tab that touches neither the lease nor the server.
LEMMA TabMoves ==
  ASSUME QueueInv, QueueTyped', NEW t \in Tabs, tab[t].at # "idle",
         \A u \in Tabs \ {t} : tab'[u] = tab[u],
         tab'[t].at \in {"check", "skip", "submit", "posting", "remove"} => tab'[t].item \in Items,
         tab'[t].at = "remove" => stored[tab'[t].item] = "done",
         \A i \in submitted' : i \in submitted \/ stored[i] = "done",
         UNCHANGED <<lease, stored, rows, outlived>>
  PROVE  QueueInv'
<1>1. ASSUME NEW u \in Tabs, Draining(u)' PROVE lease'.owner = u /\ lease'.live
  <2>1. Draining(u)
    BY <1>1 DEF Draining
  <2> QED BY <2>1 DEF QueueInv
<1> QED BY <1>1 DEF QueueInv

LEMMA QueueKeeps == QueueInv /\ [QueueNext]_queueVars => QueueInv'
<1> SUFFICES ASSUME QueueInv, [QueueNext]_queueVars PROVE QueueInv'
  OBVIOUS
<1>0. QueueTyped /\ NoTab \notin Tabs
  BY QueueAssumption DEF QueueInv
<1>1. ASSUME NEW i \in Items, Queues(i) PROVE QueueInv'
  <2>1. QueueTyped'
    BY <1>0, <1>1 DEF Queues, QueueTyped, TabRow
  <2> QED BY <1>1, <2>1 DEF Queues, QueueInv, Draining
<1>2. ASSUME NEW i \in Items, Handles(i) PROVE QueueInv'
  <2>1. rows[i] = 0
    BY <1>0, <1>2 DEF Handles, QueueInv, QueueTyped, TabRow
  <2>2. /\ QueueTyped' /\ stored[i] = "processing"
        /\ stored'[i] = "done" <=> rows'[i] = 1
        /\ \A j \in Items \ {i} : stored'[j] = stored[j] /\ rows'[j] = rows[j]
    BY <1>0, <1>2, <2>1 DEF Handles, QueueTyped, TabRow
  <2>3. UNCHANGED <<local, lease, tab, submitted, skipped, outlived>>
    BY <1>2 DEF Handles
  <2>4. \A j \in Items : stored[j] = "done" => stored'[j] = "done"
    BY <2>2
  <2>5. submitted \subseteq Items
    BY <1>0 DEF QueueTyped, TabRow
  <2> QED BY <2>2, <2>3, <2>4, <2>5 DEF QueueInv, Draining
<1>3. ASSUME NEW i \in Items, Abandons(i) PROVE QueueInv'
  <2>1. /\ QueueTyped' /\ stored[i] = "processing" /\ stored'[i] = "stuck"
        /\ \A j \in Items \ {i} : stored'[j] = stored[j]
    BY <1>0, <1>3 DEF Abandons, QueueTyped, TabRow
  <2>2. UNCHANGED <<local, lease, tab, rows, submitted, skipped, outlived>>
    BY <1>3 DEF Abandons
  <2>3. submitted \subseteq Items
    BY <1>0 DEF QueueTyped, TabRow
  <2> QED BY <2>1, <2>2, <2>3 DEF QueueInv, Draining
<1>4. CASE LeaseExpires
  <2>1. lease.owner \in Tabs /\ lease.live
    BY <1>0, <1>4 DEF LeaseExpires, QueueTyped, TabRow
  <2>2. QueueTyped'
    BY <1>0, <1>4, <2>1 DEF LeaseExpires, QueueTyped, TabRow
  <2>3. ASSUME NEW t \in Tabs, Draining(t)' PROVE FALSE
    <3>1. tab[t].at # "idle" /\ t \notin outlived /\ t # lease.owner
      BY <1>4, <2>3 DEF LeaseExpires, Draining
    <3> QED BY <3>1 DEF QueueInv, Draining
  <2> QED BY <1>4, <2>2, <2>3 DEF LeaseExpires, QueueInv
<1>5. ASSUME NEW t \in Tabs, AcquiresLease(t) PROVE QueueInv'
  <2>1. QueueTyped'
    BY <1>0, <1>5 DEF AcquiresLease, QueueTyped, TabRow
  <2>2. /\ lease'.owner = t /\ lease'.live /\ tab'[t].at = "snapshot"
        /\ \A u \in Tabs \ {t} : tab'[u] = tab[u]
        /\ UNCHANGED <<local, stored, rows, submitted, skipped, outlived>>
    BY <1>0, <1>5 DEF AcquiresLease, QueueTyped, TabRow
  <2>3. ASSUME NEW u \in Tabs, u # t, Draining(u)' PROVE FALSE
    <3>1. Draining(u) /\ ~lease.live
      BY <1>5, <2>2, <2>3 DEF Draining, AcquiresLease
    <3> QED BY <3>1 DEF QueueInv
  <2> QED BY <2>1, <2>2, <2>3 DEF QueueInv
<1>6. ASSUME NEW t \in Tabs, ReleasesLease(t) \/ TabDies(t) PROVE QueueInv'
  <2>1. QueueTyped'
    <3>1. Resting \in TabRow /\ tab' = [tab EXCEPT ![t] = Resting]
      BY <1>6 DEF Resting, TabRow, ReleasesLease, TabDies
    <3>2. tab' \in [Tabs -> TabRow]
      BY <1>0, <3>1, TabWritten
    <3>3. lease' = lease \/ lease' = NoLease
      BY <1>6 DEF ReleasesLease, TabDies
    <3>4. NoLease \in [owner : Tabs \union {NoTab}, live : BOOLEAN] /\ ~NoLease.live
      BY DEF NoLease
    <3>5. /\ lease' \in [owner : Tabs \union {NoTab}, live : BOOLEAN]
          /\ lease'.live => lease'.owner # NoTab
      <4>1. CASE lease' = lease
        BY <1>0, <4>1 DEF QueueTyped
      <4>2. CASE lease' = NoLease
        BY <3>4, <4>2
      <4> QED BY <3>3, <4>1, <4>2
    <3> QED BY <1>0, <1>6, <3>2, <3>5 DEF ReleasesLease, TabDies, QueueTyped
  <2>2. /\ tab'[t].at = "idle" /\ (lease' = lease \/ lease.owner = t)
        /\ \A u \in Tabs \ {t} : tab'[u] = tab[u]
        /\ outlived' = outlived \ {t}
        /\ UNCHANGED <<local, stored, rows, submitted, skipped>>
    BY <1>0, <1>6 DEF ReleasesLease, TabDies, QueueTyped, TabRow, Resting
  <2>3. ASSUME NEW u \in Tabs, Draining(u)' PROVE lease'.owner = u /\ lease'.live
    <3>1. Draining(u) /\ u # t
      BY <2>2, <2>3 DEF Draining
    <3> QED BY <2>2, <3>1 DEF QueueInv
  <2> QED BY <2>1, <2>2, <2>3 DEF QueueInv
<1>7. ASSUME NEW t \in Tabs, Snapshots(t) PROVE QueueInv'
  <2>1. QueueTyped'
    <3> DEFINE r == [tab[t] EXCEPT !.at = "next", !.todo = local]
    <3>1. r \in TabRow
      <4>1. tab[t] \in TabRow /\ local \in SUBSET Items
        BY <1>0 DEF QueueTyped
      <4>2. [tab[t] EXCEPT !.at = "next"] \in TabRow
        BY <4>1 DEF TabRow
      <4>3. \A x \in TabRow, todo \in SUBSET Items : [x EXCEPT !.todo = todo] \in TabRow
        BY DEF TabRow
      <4> QED BY <4>1, <4>2, <4>3
    <3>2. tab' = [tab EXCEPT ![t] = r]
      BY <1>7 DEF Snapshots
    <3> HIDE DEF r
    <3>3. tab' \in [Tabs -> TabRow]
      BY <1>0, <3>1, <3>2, TabWritten
    <3> QED BY <1>0, <1>7, <3>3 DEF Snapshots, QueueTyped, TabRow
  <2>2. /\ tab[t].at # "idle" /\ tab'[t].at = "next"
        /\ \A u \in Tabs \ {t} : tab'[u] = tab[u]
        /\ UNCHANGED <<lease, stored, rows, submitted, outlived>>
    BY <1>0, <1>7 DEF Snapshots, QueueTyped, TabRow
  <2> QED BY <2>1, <2>2, TabMoves
<1>8. ASSUME NEW t \in Tabs, NextItem(t) PROVE QueueInv'
  <2>1. PICK i \in tab[t].todo :
          /\ tab[t].at = "next"
          /\ tab' = [tab EXCEPT ![t] = [at |-> "check", item |-> i, todo |-> @.todo \ {i}]]
          /\ UNCHANGED <<local, lease, stored, rows, submitted, skipped, outlived>>
    BY <1>8 DEF NextItem
  <2>2. i \in Items
    BY <1>0 DEF QueueTyped, TabRow
  <2>3. QueueTyped'
    BY <1>0, <2>1, <2>2 DEF QueueTyped, TabRow
  <2>4. /\ tab'[t].at = "check" /\ tab'[t].item \in Items
        /\ \A u \in Tabs \ {t} : tab'[u] = tab[u]
    BY <1>0, <2>1, <2>2 DEF QueueTyped, TabRow
  <2> QED BY <2>1, <2>3, <2>4, TabMoves
<1>9. ASSUME NEW t \in Tabs, PreChecks(t) PROVE QueueInv'
  <2>1. QueueTyped'
    <3>1. tab' \in [Tabs -> TabRow]
      BY <1>0, <1>9, TabAdvances DEF PreChecks
    <3> QED BY <1>0, <1>9, <3>1 DEF PreChecks, QueueTyped, TabRow
  <2>2. /\ tab[t].at = "check" /\ tab'[t].at \in {"skip", "submit"} /\ tab'[t].item = tab[t].item
        /\ \A u \in Tabs \ {t} : tab'[u] = tab[u]
        /\ UNCHANGED <<lease, stored, rows, submitted, outlived>>
    BY <1>0, <1>9 DEF PreChecks, QueueTyped, TabRow
  <2>3. tab'[t].item \in Items
    BY <2>2 DEF QueueInv
  <2> QED BY <2>1, <2>2, <2>3, TabMoves
<1>10. ASSUME NEW t \in Tabs, SkipsItem(t) PROVE QueueInv'
  <2>1. tab[t].item \in Items
    BY <1>10 DEF SkipsItem, QueueInv
  <2>2. QueueTyped'
    <3>1. tab' \in [Tabs -> TabRow]
      BY <1>0, <1>10, TabAdvances DEF SkipsItem
    <3> QED BY <1>0, <1>10, <2>1, <3>1 DEF SkipsItem, QueueTyped, TabRow
  <2>3. /\ tab[t].at = "skip" /\ tab'[t].at = "next"
        /\ \A u \in Tabs \ {t} : tab'[u] = tab[u]
        /\ UNCHANGED <<lease, stored, rows, submitted, outlived>>
    BY <1>0, <1>10 DEF SkipsItem, QueueTyped, TabRow
  <2> QED BY <2>2, <2>3, TabMoves
<1>11. ASSUME NEW t \in Tabs, ClaimsItem(t) PROVE QueueInv'
  <2>1. PICK i \in Items : tab[t].item = i
    BY <1>11 DEF ClaimsItem, QueueInv
  <2>2. QueueTyped'
    <3>1. tab' \in [Tabs -> TabRow]
      BY <1>0, <1>11, TabAdvances DEF ClaimsItem
    <3> QED BY <1>0, <1>11, <2>1, <3>1 DEF ClaimsItem, QueueTyped, TabRow
  <2>3. /\ tab[t].at = "submit" /\ tab'[t].at = "posting" /\ tab'[t].item = i
        /\ \A u \in Tabs \ {t} : tab'[u] = tab[u]
        /\ stored[i] = "absent" /\ stored'[i] = "processing"
        /\ \A j \in Items \ {i} : stored'[j] = stored[j]
        /\ UNCHANGED <<local, lease, rows, submitted, skipped, outlived>>
    BY <1>0, <1>11, <2>1 DEF ClaimsItem, QueueTyped, TabRow
  <2>4. submitted \subseteq Items
    BY <1>0 DEF QueueTyped, TabRow
  <2>5. ASSUME NEW u \in Tabs, Draining(u)' PROVE lease'.owner = u /\ lease'.live
    <3>1. Draining(u)
      BY <2>3, <2>5 DEF Draining
    <3> QED BY <2>3, <3>1 DEF QueueInv
  <2>6. \A j \in Items : stored[j] = "done" => stored'[j] = "done"
    BY <2>3
  <2>7. \A j \in Items : stored'[j] = "done" <=> rows'[j] = 1
    BY <2>3 DEF QueueInv
  <2>8. \A u \in Tabs : tab'[u].at = "remove" => stored'[tab'[u].item] = "done"
    BY <2>3, <2>6 DEF QueueInv
  <2>9. \A u \in Tabs : tab'[u].at \in {"check", "skip", "submit", "posting", "remove"}
                          => tab'[u].item \in Items
    BY <2>3 DEF QueueInv
  <2>10. \A j \in submitted' : stored'[j] = "done"
    BY <2>3, <2>4, <2>6 DEF QueueInv
  <2> QED BY <2>2, <2>5, <2>7, <2>8, <2>9, <2>10 DEF QueueInv
<1>12. ASSUME NEW t \in Tabs, ReplaysItem(t) PROVE QueueInv'
  <2>1. QueueTyped'
    <3>1. tab' \in [Tabs -> TabRow]
      BY <1>0, <1>12, TabAdvances DEF ReplaysItem
    <3> QED BY <1>0, <1>12, <3>1 DEF ReplaysItem, QueueTyped, TabRow
  <2>2. /\ tab[t].at = "submit" /\ tab'[t].at \in {"remove", "next"}
        /\ tab'[t].at = "remove" => tab'[t].item = tab[t].item /\ stored[tab[t].item] = "done"
        /\ \A u \in Tabs \ {t} : tab'[u] = tab[u]
        /\ UNCHANGED <<lease, stored, rows, submitted, outlived>>
    BY <1>0, <1>12 DEF ReplaysItem, Succeeds, QueueTyped, TabRow
  <2>3. tab[t].item \in Items
    BY <2>2 DEF QueueInv
  <2> QED BY <2>1, <2>2, <2>3, TabMoves
<1>13. ASSUME NEW t \in Tabs, LearnsAnswer(t) PROVE QueueInv'
  <2>1. QueueTyped'
    <3>1. tab' \in [Tabs -> TabRow]
      BY <1>0, <1>13, TabAdvances DEF LearnsAnswer
    <3> QED BY <1>0, <1>13, <3>1 DEF LearnsAnswer, QueueTyped, TabRow
  <2>2. /\ tab[t].at = "posting" /\ tab'[t].at \in {"remove", "next"}
        /\ tab'[t].at = "remove" => tab'[t].item = tab[t].item /\ stored[tab[t].item] = "done"
        /\ \A u \in Tabs \ {t} : tab'[u] = tab[u]
        /\ UNCHANGED <<lease, stored, rows, submitted, outlived>>
    BY <1>0, <1>13 DEF LearnsAnswer, QueueTyped, TabRow
  <2>3. tab[t].item \in Items
    BY <2>2 DEF QueueInv
  <2> QED BY <2>1, <2>2, <2>3, TabMoves
<1>14. ASSUME NEW t \in Tabs, RemovesItem(t) PROVE QueueInv'
  <2>1. tab[t].item \in Items /\ stored[tab[t].item] = "done"
    BY <1>14 DEF RemovesItem, QueueInv
  <2>2. QueueTyped'
    <3>1. tab' \in [Tabs -> TabRow]
      BY <1>0, <1>14, TabAdvances DEF RemovesItem
    <3> QED BY <1>0, <1>14, <2>1, <3>1 DEF RemovesItem, QueueTyped, TabRow
  <2>3. /\ tab[t].at = "remove" /\ tab'[t].at = "next"
        /\ \A u \in Tabs \ {t} : tab'[u] = tab[u]
        /\ submitted' = submitted \union {tab[t].item}
        /\ UNCHANGED <<lease, stored, rows, outlived>>
    BY <1>0, <1>14 DEF RemovesItem, QueueTyped, TabRow
  <2>4. \A i \in submitted' : i \in submitted \/ stored[i] = "done"
    BY <2>1, <2>3
  <2> QED BY <2>2, <2>3, <2>4, TabMoves
<1>15. CASE UNCHANGED queueVars
  BY <1>15 DEF queueVars, QueueInv, QueueTyped, TabRow, Draining
<1> QED BY <1>1, <1>2, <1>3, <1>4, <1>5, <1>6, <1>7, <1>8, <1>9, <1>10, <1>11, <1>12, <1>13,
           <1>14, <1>15 DEF QueueNext

LEMMA QueueSuffices == QueueInv => QueueTypeOK /\ TabsExclusive /\ SubmittedIsRecorded
<1> SUFFICES ASSUME QueueInv PROVE QueueTypeOK /\ TabsExclusive /\ SubmittedIsRecorded
  OBVIOUS
<1> DEFINE drains == {t \in Tabs \ outlived : tab[t].at # "idle"}
<1>1. \A t, u \in drains : t = u
  BY DEF QueueInv, Draining
<1>4. QueueTypeOK
  BY DEF QueueInv, QueueTyped, TabRow, QueueTypeOK
<1>2. Cardinality(drains) <= 1
  BY <1>1, AtMostOne
<1>3. SubmittedIsRecorded
  BY DEF QueueInv, QueueTyped, SubmittedIsRecorded
<1> QED BY <1>2, <1>3, <1>4 DEF TabsExclusive

-------------------------------------------------------------------------------
(* MobileQueue.  A donation that the pass still has to try has attempts    *)
(* left, in the store and in the pass's copy of it, also when overtaken    *)
(* copies are written back: a copy of the user's in which it has none was  *)
(* read when it had none.  Without such writes the store has counted each  *)
(* attempt, but for the one that ends a submission or that of a donation   *)
(* the user took away meanwhile.                                           *)

Entries ==
  {e \in [status : {"gone", "pending", "retrying", "submitted", "failed"},
          attempts : 0 .. MaxTries, due : BOOLEAN] :
     /\ e.status = "pending" => e.attempts < MaxTries
     /\ e.status = "gone" => e = Gone}

Working == pass.at \in {"mark", "submit", "submitted", "retry", "permanent"}
Copying == pass.at \in {"mark", "submitted", "retry", "permanent"}
ToTry(g) == g \in pass.todo \/ (Working /\ pass.gift = g)

MobileTyped ==
  /\ store \in [Offline -> Entries]
  /\ userOp \in [kind : {"none", "enqueue", "retry", "remove"}, gift : Offline \cup {NoGift},
                 copy : [Offline -> Entries]]
  /\ userOp.kind = "none" => userOp = NoOp
  /\ userOp.kind # "none" => userOp.gift \in Offline
  /\ pass \in [at : {"idle", "next", "mark", "submit", "submitted", "retry", "permanent"},
               gift : Offline \cup {NoGift}, todo : SUBSET Offline, copy : [Offline -> Entries]]
  /\ pass.at = "idle" => pass.todo = {}
  /\ Working => pass.gift \in Offline /\ pass.gift \notin pass.todo
  /\ userOps \in 0 .. MaxUserOps /\ posts \in [Offline -> Nat]
  /\ dismissed \subseteq Offline /\ clobbered \in BOOLEAN

\* What has no attempts left.
Spent(e) == e.attempts = MaxTries

SpentIn(copy, g) == Spent(copy[g])

AttemptsLeft ==
  \A g \in Offline :
    /\ userOp.kind # "none" /\ Spent(userOp.copy[g]) => Spent(store[g])
    /\ Copying /\ Spent(store[g]) => Spent(pass.copy[g])
    /\ ToTry(g) => ~Spent(store[g]) /\ (Copying => ~Spent(pass.copy[g]))

PostsCounted(g) ==
  /\ store[g].status \in {"pending", "retrying", "failed"} => posts[g] <= store[g].attempts
  /\ store[g].status = "submitted" => posts[g] <= MaxTries
  /\ store[g].status = "gone" => posts[g] <= 1 /\ (ToTry(g) => posts[g] = 0)

QueueOrderly ==
  /\ \A g \in Offline :
       /\ g \in dismissed => store[g].status = "gone"
       /\ ToTry(g) => store[g].status \in {"gone", "pending", "retrying"}
       /\ ToTry(g) /\ store[g].status = "gone" => g \in dismissed
       /\ PostsCounted(g)
  /\ userOp.kind \in {"enqueue", "retry"} => userOp.gift \notin dismissed
  /\ pass.at \in {"submitted", "retry", "permanent"} /\ pass.copy[pass.gift].status = "gone"
       => pass.gift \in dismissed

MobileInv == MobileTyped /\ AttemptsLeft /\ (~clobbered => QueueOrderly)

LEMMA EntryKinds ==
  /\ Gone \in Entries /\ Entry \in Entries /\ Nothing \in [Offline -> Entries]
  /\ ~Spent(Gone) /\ ~Spent(Entry)
  /\ \A g \in Offline : Nothing[g] = Gone
  /\ \A e \in Entries : e = Gone <=> e.status = "gone"
<1>1. MaxTries \in Nat \ {0}
  BY MobileAssumption
<1>2. Gone \in Entries /\ Entry \in Entries
  BY <1>1 DEF Gone, Entry, Entries
<1>3. ~Spent(Gone) /\ ~Spent(Entry)
  BY <1>1 DEF Gone, Entry, Spent
<1>4. \A e \in Entries : e = Gone <=> e.status = "gone"
  BY DEF Gone, Entries
<1> QED BY <1>2, <1>3, <1>4 DEF Nothing

\* What the worker makes of an entry that has attempts left.
LEMMA EntryChanges ==
  ASSUME NEW e \in Entries, e # Gone, ~Spent(e)
  PROVE  /\ [e EXCEPT !.status = "retrying"] \in Entries
         /\ [e EXCEPT !.status = "submitted"] \in Entries
         /\ [e EXCEPT !.due = TRUE] \in Entries
         /\ \A permanent \in BOOLEAN :
              /\ Failed(e, permanent) \in Entries /\ Failed(e, permanent).status # "gone"
              /\ Failed(e, permanent).attempts = e.attempts + 1
              /\ Failed(e, permanent).status \in {"pending", "failed"}
<1>1. MaxTries \in Nat \ {0} /\ e.attempts \in Nat /\ e.attempts < MaxTries
  BY MobileAssumption DEF Entries, Spent
<1>2. e \in [status : {"gone", "pending", "retrying", "submitted", "failed"},
             attempts : 0 .. MaxTries, due : BOOLEAN]
      /\ e.status # "gone"
  BY EntryKinds DEF Entries
<1>3. [e EXCEPT !.status = "retrying"] \in Entries /\ [e EXCEPT !.status = "submitted"] \in Entries
  BY <1>1, <1>2 DEF Entries
<1>4. [e EXCEPT !.due = TRUE] \in Entries
  BY <1>1, <1>2 DEF Entries
<1>5. ASSUME NEW permanent \in BOOLEAN
      PROVE  /\ Failed(e, permanent) \in Entries /\ Failed(e, permanent).status # "gone"
             /\ Failed(e, permanent).attempts = e.attempts + 1
             /\ Failed(e, permanent).status \in {"pending", "failed"}
  BY <1>1, <1>2 DEF Entries, Failed
<1> QED BY <1>3, <1>4, <1>5

LEMMA MobileStart == MobileInit => MobileInv
<1> SUFFICES ASSUME MobileInit PROVE MobileInv
  OBVIOUS
<1>1. MobileTyped
  <2>1. NoOp \in [kind : {"none", "enqueue", "retry", "remove"}, gift : Offline \cup {NoGift},
                  copy : [Offline -> Entries]]
    BY EntryKinds DEF NoOp
  <2>2. NoPass \in [at : {"idle", "next", "mark", "submit", "submitted", "retry", "permanent"},
                   gift : Offline \cup {NoGift}, todo : SUBSET Offline, copy : [Offline -> Entries]]
    BY EntryKinds DEF NoPass
  <2>3. NoOp.kind = "none" /\ NoPass.at = "idle" /\ NoPass.todo = {}
    BY DEF NoOp, NoPass
  <2>4. store = Nothing /\ userOp = NoOp /\ pass = NoPass /\ ~Working
    BY <2>3 DEF MobileInit, Working
  <2>5. /\ posts \in [Offline -> Nat] /\ userOps \in 0 .. MaxUserOps
        /\ dismissed \subseteq Offline
    BY MobileAssumption DEF MobileInit
  <2>6. /\ store \in [Offline -> Entries]
        /\ userOp \in [kind : {"none", "enqueue", "retry", "remove"}, gift : Offline \cup {NoGift},
                       copy : [Offline -> Entries]]
        /\ userOp.kind = "none" /\ pass.at = "idle" /\ pass.todo = {}
        /\ pass \in [at : {"idle", "next", "mark", "submit", "submitted", "retry", "permanent"},
                     gift : Offline \cup {NoGift}, todo : SUBSET Offline,
                     copy : [Offline -> Entries]]
    BY <2>1, <2>2, <2>3, <2>4, EntryKinds
  <2>7. clobbered \in BOOLEAN
    BY DEF MobileInit
  <2> QED BY <2>4, <2>5, <2>6, <2>7 DEF MobileTyped
<1>2. AttemptsLeft
  BY DEF MobileInit, AttemptsLeft, NoOp, NoPass, ToTry, Working, Copying
<1>3. QueueOrderly
  BY EntryKinds DEF MobileInit, QueueOrderly, PostsCounted, NoOp, NoPass, ToTry, Working, Gone
<1> QED BY <1>1, <1>2, <1>3 DEF MobileInv

\* The user's operations.
LEMMA UserKeeps ==
  ASSUME MobileInv,
         WritesBack \/ \E g \in Offline, kind \in {"enqueue", "retry", "remove"} : Reads(kind, g)
  PROVE  MobileInv'
<1>0. MobileTyped /\ AttemptsLeft
  BY DEF MobileInv
<1>1. ASSUME NEW g \in Offline, NEW kind \in {"enqueue", "retry", "remove"}, Reads(kind, g)
      PROVE  MobileInv'
  <2>1. MobileTyped'
    BY <1>0, <1>1, MobileAssumption DEF Reads, MobileTyped, Working
  <2>2. /\ UNCHANGED <<store, pass, posts, dismissed, clobbered>>
        /\ userOp'.kind = kind /\ userOp'.gift = g /\ userOp'.copy = store
    BY <1>1 DEF Reads
  <2>3. AttemptsLeft'
    BY <1>0, <2>2 DEF AttemptsLeft, Copying, ToTry, Working
  <2>4. ASSUME ~clobbered' PROVE QueueOrderly'
    <3>1. QueueOrderly
      BY <2>2, <2>4 DEF MobileInv
    <3>2. ASSUME kind # "remove" PROVE g \notin dismissed
      <4>1. CASE kind = "enqueue"
        BY <1>1, <4>1 DEF Reads
      <4>2. CASE kind # "enqueue"
        <5>1. store[g].status # "gone"
          BY <1>0, <1>1, <4>2, EntryKinds DEF Reads, MobileTyped
        <5> QED BY <3>1, <5>1 DEF QueueOrderly
      <4> QED BY <4>1, <4>2
    <3> QED BY <2>2, <3>1, <3>2 DEF QueueOrderly, PostsCounted, ToTry, Working
  <2> QED BY <2>1, <2>3, <2>4 DEF MobileInv
<1>2. ASSUME WritesBack PROVE MobileInv'
  <2>1. PICK g \in Offline : g = userOp.gift
    BY <1>0, <1>2 DEF WritesBack, MobileTyped
  <2>2. PICK e \in {Gone, Entry} :
          /\ e = IF userOp.kind = "remove" THEN Gone ELSE Entry
          /\ store' = [userOp.copy EXCEPT ![g] = e]
    BY <1>2, <2>1 DEF WritesBack, Puts
  <2>3. /\ e \in Entries /\ ~Spent(e) /\ userOp.kind # "none"
        /\ userOp' = NoOp /\ pass' = pass /\ userOps' = userOps
        /\ dismissed' = IF userOp.kind = "remove" THEN dismissed \union {g} ELSE dismissed
        /\ posts' = [posts EXCEPT ![g] = 0]
        /\ clobbered' = (clobbered \/ userOp.copy # store)
    BY <1>2, <2>1, <2>2, EntryKinds DEF WritesBack, Puts
  <2>4. MobileTyped'
    <3>1. store' \in [Offline -> Entries] /\ posts' \in [Offline -> Nat]
      BY <1>0, <2>2, <2>3 DEF MobileTyped
    <3>2. NoOp \in [kind : {"none", "enqueue", "retry", "remove"}, gift : Offline \cup {NoGift},
                    copy : [Offline -> Entries]] /\ NoOp.kind = "none"
      BY EntryKinds DEF NoOp
    <3>3. dismissed' \subseteq Offline /\ clobbered' \in BOOLEAN
      BY <1>0, <2>3 DEF MobileTyped
    <3> QED BY <1>0, <2>3, <3>1, <3>2, <3>3 DEF MobileTyped, Working
  <2>5. \A h \in Offline : Spent(store'[h]) => Spent(store[h]) /\ h # g
    <3>1. ASSUME NEW h \in Offline, Spent(store'[h]) PROVE Spent(store[h]) /\ h # g
      <4>1. h # g /\ store'[h] = userOp.copy[h]
        BY <1>0, <2>2, <2>3, <3>1 DEF MobileTyped
      <4> QED BY <1>0, <2>3, <3>1, <4>1 DEF AttemptsLeft
    <3> QED BY <3>1
  <2>6. AttemptsLeft'
    <3>1. userOp'.kind = "none"
      BY <2>3 DEF NoOp
    <3> QED BY <1>0, <2>3, <2>5, <3>1 DEF AttemptsLeft, Copying, ToTry, Working
  <2>7. ASSUME ~clobbered' PROVE QueueOrderly'
    <3>1. QueueOrderly /\ userOp.copy = store
      BY <2>3, <2>7 DEF MobileInv
    <3>2. store'[g] = e /\ \A h \in Offline \ {g} : store'[h] = store[h] /\ posts'[h] = posts[h]
      BY <1>0, <2>2, <2>3, <3>1 DEF MobileTyped
    <3>3. posts'[g] = 0
      BY <1>0, <2>3 DEF MobileTyped
    <3>4. userOp'.kind = "none"
      BY <2>3 DEF NoOp
    <3>5. ASSUME NEW h \in Offline
          PROVE  /\ h \in dismissed' => store'[h].status = "gone"
                 /\ ToTry(h)' => store'[h].status \in {"gone", "pending", "retrying"}
                 /\ ToTry(h)' /\ store'[h].status = "gone" => h \in dismissed'
                 /\ PostsCounted(h)'
      <4>1. ToTry(h)' <=> ToTry(h)
        BY <2>3 DEF ToTry, Working
      <4>2. CASE h # g
        BY <2>3, <3>1, <3>2, <4>1, <4>2 DEF QueueOrderly, PostsCounted
      <4>3. CASE h = g /\ userOp.kind = "remove"
        <5>1. store'[h].status = "gone" /\ posts'[h] = 0 /\ h \in dismissed'
          BY <2>2, <2>3, <3>2, <3>3, <4>3 DEF Gone
        <5> QED BY <5>1 DEF PostsCounted
      <4>4. CASE h = g /\ userOp.kind # "remove"
        <5>1. store'[h].status = "pending" /\ store'[h].attempts = 0 /\ posts'[h] = 0
          BY <2>2, <3>2, <3>3, <4>4 DEF Entry
        <5>2. h \notin dismissed'
          BY <1>0, <2>1, <2>3, <3>1, <4>4 DEF QueueOrderly, MobileTyped
        <5> QED BY <5>1, <5>2 DEF PostsCounted
      <4> QED BY <4>2, <4>3, <4>4
    <3>6. pass'.at \in {"submitted", "retry", "permanent"} /\ pass'.copy[pass'.gift].status = "gone"
            => pass'.gift \in dismissed'
      BY <2>3, <3>1 DEF QueueOrderly
    <3> QED BY <3>4, <3>5, <3>6 DEF QueueOrderly
  <2> QED BY <2>4, <2>6, <2>7 DEF MobileInv
<1> QED BY <1>1, <1>2

LEMMA BackoffKeeps ==
  ASSUME MobileInv, NEW g \in Offline, BackoffEnds(g)
  PROVE  MobileInv'
<1>0. MobileTyped /\ AttemptsLeft
  BY DEF MobileInv
\* the entry of a copy, due when it waits
<1>1. ASSUME NEW copy \in [Offline -> Entries]
      PROVE  LET due == [copy EXCEPT ![g].due = (@ \/ copy[g].status = "pending")]
             IN  /\ due \in [Offline -> Entries]
                 /\ \A h \in Offline : due[h].status = copy[h].status /\ due[h].attempts = copy[h].attempts
  <2> DEFINE e == copy[g]
             f == [e EXCEPT !.due = (@ \/ e.status = "pending")]
  <2>1. e \in Entries
    OBVIOUS
  <2>2. f \in Entries /\ f.status = e.status /\ f.attempts = e.attempts
    <3>1. CASE e = Gone
      <4>1. [Gone EXCEPT !.due = FALSE] = Gone
        <5>1. Gone \in [status : {"gone"}, attempts : {0}, due : {FALSE}]
          BY DEF Gone
        <5>2. \A x \in [status : {"gone"}, attempts : {0}, due : {FALSE}] : [x EXCEPT !.due = FALSE] = x
          OBVIOUS
        <5> QED BY <5>1, <5>2
      <4>2. (e.due \/ e.status = "pending") = FALSE
        BY <3>1 DEF Gone
      <4>3. f = Gone
        BY <3>1, <4>1, <4>2, Zenon
      <4> QED BY <3>1, <4>3, EntryKinds
    <3>2. CASE e # Gone
      <4>1. e.status # "gone"
        BY <2>1, <3>2, EntryKinds
      <4> QED BY <2>1, <4>1 DEF Entries
    <3> QED BY <3>1, <3>2
  <2>3. [copy EXCEPT ![g].due = (@ \/ copy[g].status = "pending")] = [copy EXCEPT ![g] = f]
    OBVIOUS
  <2> HIDE DEF f
  <2> QED BY <2>2, <2>3
<1>2. /\ store' = [store EXCEPT ![g].due = (@ \/ store[g].status = "pending")]
      /\ UNCHANGED <<userOps, posts, dismissed, clobbered>>
  BY <1>0 DEF BackoffEnds, MobileTyped
<1>3. /\ store' \in [Offline -> Entries]
      /\ \A h \in Offline : store'[h].status = store[h].status /\ store'[h].attempts = store[h].attempts
  BY <1>0, <1>1, <1>2 DEF MobileTyped
<1>4. /\ pass'.at = pass.at /\ pass'.gift = pass.gift /\ pass'.todo = pass.todo
      /\ pass'.copy = [pass.copy EXCEPT ![g].due = (@ \/ pass.copy[g].status = "pending")]
      /\ pass' = [pass EXCEPT !.copy = pass'.copy]
  BY <1>0 DEF BackoffEnds, MobileTyped
<1>5. /\ pass'.copy \in [Offline -> Entries]
      /\ \A h \in Offline : /\ pass'.copy[h].status = pass.copy[h].status
                            /\ pass'.copy[h].attempts = pass.copy[h].attempts
  BY <1>0, <1>1, <1>4 DEF MobileTyped
<1>6. /\ userOp'.kind = userOp.kind /\ userOp'.gift = userOp.gift
      /\ userOp'.copy \in [Offline -> Entries]
      /\ \A h \in Offline : userOp'.copy[h].attempts = userOp.copy[h].attempts
      /\ userOp' = [userOp EXCEPT !.copy = userOp'.copy]
      /\ userOp.kind = "none" => userOp' = userOp
  <2>1. CASE userOp.kind = "none"
    BY <1>0, <2>1 DEF BackoffEnds, MobileTyped
  <2>2. CASE userOp.kind # "none"
    <3>1. /\ userOp'.kind = userOp.kind /\ userOp'.gift = userOp.gift
          /\ userOp'.copy = [userOp.copy EXCEPT ![g].due = (@ \/ userOp.copy[g].status = "pending")]
          /\ userOp' = [userOp EXCEPT !.copy = userOp'.copy]
      BY <1>0, <2>2 DEF BackoffEnds, MobileTyped
    <3>2. userOp.copy \in [Offline -> Entries]
      BY <1>0 DEF MobileTyped
    <3> QED BY <1>1, <2>2, <3>1, <3>2
  <2> QED BY <2>1, <2>2
<1>7. MobileTyped'
  <2>1. pass' \in [at : {"idle", "next", "mark", "submit", "submitted", "retry", "permanent"},
                   gift : Offline \cup {NoGift}, todo : SUBSET Offline, copy : [Offline -> Entries]]
    BY <1>0, <1>4, <1>5 DEF MobileTyped
  <2>2. userOp' \in [kind : {"none", "enqueue", "retry", "remove"}, gift : Offline \cup {NoGift},
                     copy : [Offline -> Entries]]
    BY <1>0, <1>6 DEF MobileTyped
  <2> QED BY <1>0, <1>2, <1>3, <1>4, <1>6, <2>1, <2>2 DEF MobileTyped, Working
<1>8. AttemptsLeft'
  BY <1>0, <1>3, <1>4, <1>5, <1>6 DEF AttemptsLeft, Spent, Copying, ToTry, Working
<1>9. ASSUME ~clobbered' PROVE QueueOrderly'
  <2>1. QueueOrderly
    BY <1>2, <1>9 DEF MobileInv
  <2>2. pass.at \in {"submitted", "retry", "permanent"} => pass.gift \in Offline
    BY <1>0 DEF MobileTyped, Working
  <2> QED BY <1>2, <1>3, <1>4, <1>5, <1>6, <2>1, <2>2 DEF QueueOrderly, PostsCounted, ToTry, Working
<1> QED BY <1>7, <1>8, <1>9 DEF MobileInv

\* The pass, up to the answer.
LEMMA PassKeeps ==
  ASSUME MobileInv,
         BeginsPass \/ EndsPass \/ AppDies \/ Submits \/ \E g \in Offline : ReadsForMark(g)
  PROVE  MobileInv'
<1>0. MobileTyped /\ AttemptsLeft
  BY DEF MobileInv
<1>1. CASE BeginsPass
  <2>1. /\ pass'.at = "next" /\ pass'.todo = {g \in Offline : Eligible(g)}
        /\ UNCHANGED <<store, userOp, userOps, posts, dismissed, clobbered>>
    BY <1>1 DEF BeginsPass, NoPass
  <2>2. MobileTyped'
    BY <1>0, <1>1, <2>1, EntryKinds DEF BeginsPass, NoPass, MobileTyped, Working
  <2>3. \A g \in pass'.todo : g \in Offline /\ store[g].status \in {"pending", "retrying"} /\ ~Spent(store[g])
    <3>1. ASSUME NEW g \in pass'.todo PROVE ~Spent(store[g])
      <4>1. g \in Offline /\ store[g].attempts < MaxTries
        BY <2>1, <3>1 DEF Eligible
      <4>2. store[g].attempts \in Nat /\ MaxTries \in Nat
        BY <1>0, <4>1, MobileAssumption DEF MobileTyped, Entries
      <4> QED BY <4>1, <4>2 DEF Spent
    <3> QED BY <2>1, <3>1 DEF Eligible
  <2>4. AttemptsLeft'
    BY <1>0, <2>1, <2>3 DEF AttemptsLeft, Copying, ToTry, Working
  <2>5. ASSUME ~clobbered' PROVE QueueOrderly'
    <3>1. QueueOrderly
      BY <2>1, <2>5 DEF MobileInv
    <3> QED BY <2>1, <2>3, <3>1 DEF QueueOrderly, PostsCounted, ToTry, Working
  <2> QED BY <2>2, <2>4, <2>5 DEF MobileInv
<1>2. CASE EndsPass \/ AppDies
  <2>1. /\ pass' = NoPass /\ (userOp' = userOp \/ userOp' = NoOp)
        /\ UNCHANGED <<store, userOps, posts, dismissed, clobbered>>
    BY <1>2 DEF EndsPass, AppDies
  <2>2. NoPass.at = "idle" /\ NoPass.todo = {} /\ NoOp.kind = "none"
    BY DEF NoPass, NoOp
  <2>3. MobileTyped'
    <3>1. NoOp \in [kind : {"none", "enqueue", "retry", "remove"}, gift : Offline \cup {NoGift},
                    copy : [Offline -> Entries]]
      BY EntryKinds DEF NoOp
    <3>2. NoPass \in [at : {"idle", "next", "mark", "submit", "submitted", "retry", "permanent"},
                     gift : Offline \cup {NoGift}, todo : SUBSET Offline, copy : [Offline -> Entries]]
      BY EntryKinds DEF NoPass
    <3> QED BY <1>0, <2>1, <2>2, <3>1, <3>2 DEF MobileTyped, Working
  <2>4. AttemptsLeft'
    BY <1>0, <2>1, <2>2 DEF AttemptsLeft, Copying, ToTry, Working
  <2>5. ASSUME ~clobbered' PROVE QueueOrderly'
    <3>1. QueueOrderly
      BY <2>1, <2>5 DEF MobileInv
    <3> QED BY <2>1, <2>2, <3>1 DEF QueueOrderly, PostsCounted, ToTry, Working
  <2> QED BY <2>3, <2>4, <2>5 DEF MobileInv
<1>3. ASSUME NEW g \in Offline, ReadsForMark(g) PROVE MobileInv'
  <2>1. /\ pass.at = "next" /\ g \in pass.todo
        /\ pass' = [at |-> "mark", gift |-> g, todo |-> pass.todo \ {g}, copy |-> store]
        /\ UNCHANGED <<store, userOp, userOps, posts, dismissed, clobbered>>
    BY <1>3 DEF ReadsForMark
  <2>2. MobileTyped'
    BY <1>0, <2>1 DEF MobileTyped, Working
  <2>3. \A h \in Offline : ToTry(h)' => ToTry(h)
    BY <2>1 DEF ToTry, Working
  <2>4. AttemptsLeft'
    BY <1>0, <2>1, <2>3 DEF AttemptsLeft, Copying
  <2>5. ASSUME ~clobbered' PROVE QueueOrderly'
    <3>1. QueueOrderly
      BY <2>1, <2>5 DEF MobileInv
    <3> QED BY <2>1, <2>3, <3>1 DEF QueueOrderly, PostsCounted
  <2> QED BY <2>2, <2>4, <2>5 DEF MobileInv
<1>4. CASE Submits
  <2>1. PICK result \in {"submitted", "retry", "permanent"} :
          /\ pass.at = "submit"
          /\ pass' = [pass EXCEPT !.at = result, !.copy = store]
          /\ UNCHANGED <<store, userOp, userOps, posts, dismissed, clobbered>>
    BY <1>4 DEF Submits
  <2>2. pass'.at = result /\ pass'.gift = pass.gift /\ pass'.todo = pass.todo /\ pass'.copy = store
    BY <1>0, <2>1 DEF MobileTyped
  <2>3. MobileTyped'
    BY <1>0, <2>1 DEF MobileTyped, Working
  <2>4. \A h \in Offline : ToTry(h)' => ToTry(h)
    BY <2>1, <2>2 DEF ToTry, Working
  <2>5. AttemptsLeft'
    BY <1>0, <2>1, <2>2, <2>4 DEF AttemptsLeft, Copying
  <2>6. ASSUME ~clobbered' PROVE QueueOrderly'
    <3>1. QueueOrderly
      BY <2>1, <2>6 DEF MobileInv
    <3>2. pass.gift \in Offline /\ ToTry(pass.gift)
      BY <1>0, <2>1 DEF MobileTyped, ToTry, Working
    <3>3. store[pass.gift].status = "gone" => pass.gift \in dismissed
      BY <3>1, <3>2 DEF QueueOrderly
    <3> QED BY <2>1, <2>2, <2>4, <3>1, <3>3 DEF QueueOrderly, PostsCounted
  <2> QED BY <2>3, <2>5, <2>6 DEF MobileInv
<1> QED BY <1>1, <1>2, <1>3, <1>4

\* A write of the pass: an entry of its copy is replaced, by one with attempts left or of a
\* donation that the pass is done with.
LEMMA PassWrites ==
  ASSUME MobileInv, Copying, NEW g \in Offline, pass.gift = g, NEW e \in Entries, e # Gone,
         pass.copy[g] # Gone, Puts(pass.copy, [pass.copy EXCEPT ![g] = e]),
         UNCHANGED <<userOp, userOps, dismissed>>,
         pass'.copy = Nothing, pass'.todo = pass.todo, pass'.at \in {"next", "submit"},
         pass'.at = "submit" => ~Spent(e),
         pass'.at = "submit" => pass'.gift = g
  PROVE  /\ AttemptsLeft'
         /\ store' \in [Offline -> Entries] /\ clobbered' \in BOOLEAN
         /\ ~clobbered' =>
              /\ QueueOrderly /\ pass.copy = store
              /\ store'[g] = e /\ \A h \in Offline \ {g} : store'[h] = store[h]
<1>0. MobileTyped /\ AttemptsLeft
  BY DEF MobileInv
<1>1. /\ store' \in [Offline -> Entries] /\ store'[g] = e
      /\ \A h \in Offline \ {g} : store'[h] = pass.copy[h]
      /\ clobbered' = (clobbered \/ pass.copy # store)
  BY <1>0 DEF Puts, MobileTyped
<1>2. ToTry(g) /\ g \notin pass.todo
  BY <1>0 DEF ToTry, Working, Copying, MobileTyped
<1>3. ASSUME NEW h \in Offline PROVE Spent(store[h]) => Spent(store'[h])
  BY <1>0, <1>1, <1>2 DEF AttemptsLeft
<1>4. ASSUME NEW h \in Offline, ToTry(h)' PROVE ~Spent(store'[h])
  <2>1. CASE h = g
    <3>1. pass'.at = "submit"
      BY <1>2, <1>4, <2>1 DEF ToTry, Working
    <3> QED BY <1>1, <2>1, <3>1
  <2>2. CASE h # g
    <3>1. ToTry(h)
      BY <1>4, <2>2 DEF ToTry, Working
    <3> QED BY <1>0, <1>1, <2>2, <3>1 DEF AttemptsLeft
  <2> QED BY <2>1, <2>2
<1>5. AttemptsLeft'
  BY <1>0, <1>3, <1>4 DEF AttemptsLeft, Copying
<1> QED BY <1>0, <1>1, <1>5 DEF MobileInv, MobileTyped

LEMMA MarkKeeps == MobileInv /\ MarksRetrying => MobileInv'
<1> SUFFICES ASSUME MobileInv, MarksRetrying PROVE MobileInv'
  OBVIOUS
<1>0. MobileTyped /\ AttemptsLeft
  BY DEF MobileInv
<1>1. PICK g \in Offline : pass.gift = g
  BY <1>0 DEF MarksRetrying, MobileTyped, Working
<1>2. /\ pass.at = "mark" /\ pass'.at = "submit" /\ pass'.copy = Nothing
      /\ pass'.gift = g /\ pass'.todo = pass.todo
      /\ UNCHANGED <<userOp, userOps, posts, dismissed>>
      /\ pass' = [pass EXCEPT !.at = "submit", !.copy = Nothing]
  BY <1>0, <1>1 DEF MarksRetrying, MobileTyped
<1>3. \A h \in Offline : ToTry(h)' <=> ToTry(h)
  BY <1>1, <1>2 DEF ToTry, Working
<1>4. pass' \in [at : {"idle", "next", "mark", "submit", "submitted", "retry", "permanent"},
                 gift : Offline \cup {NoGift}, todo : SUBSET Offline, copy : [Offline -> Entries]]
  BY <1>0, <1>2, EntryKinds DEF MobileTyped
<1>5. pass'.gift \in Offline /\ pass'.gift \notin pass'.todo
  BY <1>0, <1>1, <1>2 DEF MobileTyped, Working
<1>6. CASE pass.copy[g] = Gone
  <2>1. UNCHANGED <<store, clobbered>>
    BY <1>1, <1>6 DEF MarksRetrying
  <2>2. MobileTyped'
    BY <1>0, <1>2, <1>4, <1>5, <2>1 DEF MobileTyped, Working
  <2>3. AttemptsLeft'
    BY <1>0, <1>2, <1>3, <2>1 DEF AttemptsLeft, Copying
  <2>4. ASSUME ~clobbered' PROVE QueueOrderly'
    BY <1>2, <1>3, <2>1, <2>4 DEF MobileInv, QueueOrderly, PostsCounted
  <2> QED BY <2>2, <2>3, <2>4 DEF MobileInv
<1>7. CASE pass.copy[g] # Gone
  <2>1. ToTry(g) /\ Copying
    BY <1>1, <1>2 DEF ToTry, Working, Copying
  <2>2. pass.copy[g] \in Entries /\ ~Spent(pass.copy[g])
    BY <1>0, <2>1 DEF AttemptsLeft, MobileTyped
  <2> DEFINE e == [pass.copy[g] EXCEPT !.status = "retrying"]
  <2>3. /\ e \in Entries /\ e.status = "retrying" /\ e.attempts = pass.copy[g].attempts
    BY <1>7, <2>2, EntryChanges DEF Entries
  <2>4. e # Gone /\ ~Spent(e)
    BY <2>2, <2>3 DEF Gone, Spent
  <2>5. Puts(pass.copy, [pass.copy EXCEPT ![g] = e])
    <3>1. Puts(pass.copy, [pass.copy EXCEPT ![g].status = "retrying"])
      BY <1>1, <1>7 DEF MarksRetrying
    <3> QED BY <3>1
  <2> HIDE DEF e
  <2>6. /\ AttemptsLeft' /\ store' \in [Offline -> Entries] /\ clobbered' \in BOOLEAN
        /\ ~clobbered' =>
             /\ QueueOrderly /\ pass.copy = store
             /\ store'[g] = e /\ \A h \in Offline \ {g} : store'[h] = store[h]
    BY <1>1, <1>2, <1>7, <2>1, <2>3, <2>4, <2>5, PassWrites
  <2>7. MobileTyped'
    BY <1>0, <1>2, <1>4, <1>5, <2>6 DEF MobileTyped, Working
  <2>8. ASSUME ~clobbered' PROVE QueueOrderly'
    <3>1. store[g].status # "gone"
      BY <1>7, <2>2, <2>6, <2>8, EntryKinds
    <3>2. store[g].status \in {"pending", "retrying"} /\ store[g].attempts = e.attempts
      BY <2>1, <2>3, <2>6, <2>8, <3>1 DEF QueueOrderly
    <3>3. ASSUME NEW h \in Offline
          PROVE  /\ h \in dismissed' => store'[h].status = "gone"
                 /\ ToTry(h)' => store'[h].status \in {"gone", "pending", "retrying"}
                 /\ ToTry(h)' /\ store'[h].status = "gone" => h \in dismissed'
                 /\ PostsCounted(h)'
      <4>1. CASE h = g
        <5>1. store'[h].status = "retrying" /\ store'[h].attempts = store[g].attempts
          BY <2>3, <2>6, <2>8, <3>2, <4>1
        <5>2. h \notin dismissed'
          BY <1>2, <2>6, <2>8, <3>1, <4>1 DEF QueueOrderly
        <5>3. posts'[h] <= store[g].attempts
          BY <1>2, <2>6, <2>8, <3>2, <4>1 DEF QueueOrderly, PostsCounted
        <5> QED BY <5>1, <5>2, <5>3 DEF PostsCounted
      <4>2. CASE h # g
        BY <1>2, <1>3, <2>6, <2>8, <4>2 DEF QueueOrderly, PostsCounted
      <4> QED BY <4>1, <4>2
    <3> QED BY <1>2, <2>6, <2>8, <3>3 DEF QueueOrderly
  <2> QED BY <2>6, <2>7, <2>8 DEF MobileInv
<1> QED BY <1>6, <1>7

LEMMA SettleKeeps == MobileInv /\ Settles => MobileInv'
<1> SUFFICES ASSUME MobileInv, Settles PROVE MobileInv'
  OBVIOUS
<1>0. MobileTyped /\ AttemptsLeft
  BY DEF MobileInv
<1>1. PICK g \in Offline : pass.gift = g
  BY <1>0 DEF Settles, MobileTyped, Working
<1>2. /\ pass.at \in {"submitted", "retry", "permanent"}
      /\ pass'.at = "next" /\ pass'.copy = Nothing /\ pass'.todo = pass.todo
      /\ UNCHANGED <<userOp, userOps, dismissed>>
      /\ posts' = [posts EXCEPT ![g] = @ + 1]
      /\ pass' = [pass EXCEPT !.at = "next", !.gift = NoGift, !.copy = Nothing]
  BY <1>0, <1>1 DEF Settles, MobileTyped
<1>3. g \notin pass.todo /\ ToTry(g) /\ ~ToTry(g)' /\ \A h \in Offline \ {g} : ToTry(h)' <=> ToTry(h)
  BY <1>0, <1>1, <1>2 DEF ToTry, Working, MobileTyped
<1>4. pass' \in [at : {"idle", "next", "mark", "submit", "submitted", "retry", "permanent"},
                 gift : Offline \cup {NoGift}, todo : SUBSET Offline, copy : [Offline -> Entries]]
  BY <1>0, <1>2, EntryKinds DEF MobileTyped
<1>5. posts[g] \in Nat /\ posts'[g] = posts[g] + 1 /\ posts' \in [Offline -> Nat]
      /\ \A h \in Offline \ {g} : posts'[h] = posts[h]
  BY <1>0, <1>2 DEF MobileTyped
<1>6. MaxTries \in Nat \ {0}
  BY MobileAssumption
<1>7. CASE pass.copy[g] = Gone
  <2>1. UNCHANGED <<store, clobbered>>
    BY <1>1, <1>7 DEF Settles
  <2>2. MobileTyped'
    BY <1>0, <1>2, <1>4, <1>5, <2>1 DEF MobileTyped, Working
  <2>3. AttemptsLeft'
    BY <1>0, <1>2, <1>3, <2>1 DEF AttemptsLeft, Copying
  <2>4. ASSUME ~clobbered' PROVE QueueOrderly'
    <3>1. QueueOrderly
      BY <2>1, <2>4 DEF MobileInv
    <3>2. g \in dismissed
      BY <1>1, <1>2, <1>7, <3>1 DEF QueueOrderly, Gone
    <3>3. store[g].status = "gone" /\ posts[g] = 0
      BY <1>3, <3>1, <3>2 DEF QueueOrderly, PostsCounted
    <3>4. PostsCounted(g)'
      BY <1>3, <1>5, <2>1, <3>3 DEF PostsCounted
    <3>5. \A h \in Offline \ {g} : PostsCounted(h)'
      BY <1>3, <1>5, <2>1, <3>1 DEF QueueOrderly, PostsCounted
    <3> QED BY <1>2, <1>3, <2>1, <3>1, <3>4, <3>5 DEF QueueOrderly
  <2> QED BY <2>2, <2>3, <2>4 DEF MobileInv
<1>8. CASE pass.copy[g] # Gone
  <2>1. Copying
    BY <1>2 DEF Copying
  <2>2. pass.copy[g] \in Entries /\ ~Spent(pass.copy[g])
    BY <1>0, <1>3, <2>1 DEF AttemptsLeft, MobileTyped
  <2>3. PICK e \in Entries :
          /\ e # Gone /\ Puts(pass.copy, [pass.copy EXCEPT ![g] = e])
          /\ \/ e.status = "submitted"
             \/ e.status \in {"pending", "failed"} /\ e.attempts = pass.copy[g].attempts + 1
    <3>1. CASE pass.at = "submitted"
      <4> DEFINE e == [pass.copy[g] EXCEPT !.status = "submitted"]
      <4>1. e \in Entries /\ e.status = "submitted"
        BY <1>8, <2>2, EntryChanges DEF Entries
      <4>2. e # Gone
        BY <4>1 DEF Gone
      <4>3. Puts(pass.copy, [pass.copy EXCEPT ![g].status = "submitted"])
        BY <1>1, <1>8, <3>1 DEF Settles, MarksOnly
      <4>4. Puts(pass.copy, [pass.copy EXCEPT ![g] = e])
        BY <4>3
      <4> QED BY <4>1, <4>2, <4>4
    <3>2. CASE pass.at # "submitted"
      <4> DEFINE permanent == pass.at = "permanent"
                 e == Failed(pass.copy[g], permanent)
      <4>1. permanent \in BOOLEAN
        OBVIOUS
      <4>2. Puts(pass.copy, [pass.copy EXCEPT ![g] = e])
        BY <1>1, <1>8, <3>2 DEF Settles
      <4> HIDE DEF permanent
      <4>3. /\ e \in Entries /\ e.status \in {"pending", "failed"}
            /\ e.attempts = pass.copy[g].attempts + 1
        BY <1>8, <2>2, <4>1, EntryChanges
      <4>4. e # Gone
        BY <4>3 DEF Gone
      <4> QED BY <4>2, <4>3, <4>4
    <3> QED BY <3>1, <3>2
  <2>4. /\ AttemptsLeft' /\ store' \in [Offline -> Entries] /\ clobbered' \in BOOLEAN
        /\ ~clobbered' =>
             /\ QueueOrderly /\ pass.copy = store
             /\ store'[g] = e /\ \A h \in Offline \ {g} : store'[h] = store[h]
    BY <1>1, <1>2, <1>8, <2>1, <2>3, PassWrites
  <2>5. MobileTyped'
    BY <1>0, <1>2, <1>4, <1>5, <2>4 DEF MobileTyped, Working
  <2>6. ASSUME ~clobbered' PROVE QueueOrderly'
    <3>1. store[g].status # "gone"
      BY <1>8, <2>2, <2>4, <2>6, EntryKinds
    <3>2. /\ store[g].status \in {"pending", "retrying"} /\ g \notin dismissed
          /\ posts[g] <= store[g].attempts
      BY <1>3, <2>4, <2>6, <3>1 DEF QueueOrderly, PostsCounted
    <3>3. store[g].attempts \in Nat /\ store[g].attempts < MaxTries
      BY <1>6, <2>2, <2>4, <2>6 DEF Entries, Spent
    <3>4. PostsCounted(g)'
      <4>1. posts'[g] <= store[g].attempts + 1 /\ posts'[g] <= MaxTries
        BY <1>5, <1>6, <3>2, <3>3
      <4>2. \/ store'[g].status = "submitted"
            \/ store'[g].status \in {"pending", "failed"} /\ store'[g].attempts = store[g].attempts + 1
        BY <2>3, <2>4, <2>6
      <4> QED BY <4>1, <4>2 DEF PostsCounted
    <3>5. ASSUME NEW h \in Offline
          PROVE  /\ h \in dismissed' => store'[h].status = "gone"
                 /\ ToTry(h)' => store'[h].status \in {"gone", "pending", "retrying"}
                 /\ ToTry(h)' /\ store'[h].status = "gone" => h \in dismissed'
                 /\ PostsCounted(h)'
      <4>1. CASE h = g
        BY <1>2, <1>3, <3>2, <3>4, <4>1
      <4>2. CASE h # g
        BY <1>2, <1>3, <1>5, <2>4, <2>6, <4>2 DEF QueueOrderly, PostsCounted
      <4> QED BY <4>1, <4>2
    <3> QED BY <1>2, <2>4, <2>6, <3>5 DEF QueueOrderly
  <2> QED BY <2>4, <2>5, <2>6 DEF MobileInv
<1> QED BY <1>7, <1>8

LEMMA MobileKeeps == MobileInv /\ [MobileNext]_mobileVars => MobileInv'
<1> SUFFICES ASSUME MobileInv, [MobileNext]_mobileVars PROVE MobileInv'
  OBVIOUS
<1>1. CASE UNCHANGED mobileVars
  BY <1>1 DEF mobileVars, MobileInv, MobileTyped, AttemptsLeft, QueueOrderly, PostsCounted, ToTry,
              Working, Copying
<1>2. CASE MobileNext
  BY <1>2, UserKeeps, BackoffKeeps, PassKeeps, MarkKeeps, SettleKeeps DEF MobileNext
<1> QED BY <1>1, <1>2

LEMMA MobileSuffices == MobileInv => MobileTypeOK /\ BudgetKept
<1> SUFFICES ASSUME MobileInv PROVE MobileTypeOK /\ BudgetKept
  OBVIOUS
<1>1. MobileTyped /\ MaxTries \in Nat \ {0}
  BY MobileAssumption DEF MobileInv
<1>2. MobileTypeOK
  BY <1>1 DEF MobileTyped, MobileTypeOK, Gift, Entries
<1>3. ASSUME ~clobbered, NEW g \in Offline PROVE posts[g] <= MaxTries
  <2>1. PostsCounted(g) /\ store[g] \in Entries /\ posts[g] \in Nat
    BY <1>1, <1>3 DEF MobileInv, QueueOrderly, MobileTyped
  <2>2. /\ store[g].status \in {"gone", "pending", "retrying", "submitted", "failed"}
        /\ store[g].attempts \in 0 .. MaxTries
    BY <2>1 DEF Entries
  <2> QED BY <1>1, <2>1, <2>2 DEF PostsCounted
<1> QED BY <1>2, <1>3 DEF BudgetKept

\* A step that writes back no overtaken copy takes nothing off the queue but what the user
\* dismisses.
LEMMA NothingVanishes ==
  ASSUME MobileInv, [MobileNext]_mobileVars, NEW g \in Offline,
         store[g] # Gone, store'[g] = Gone, ~clobbered'
  PROVE  g \in dismissed'
<1>0. MobileTyped /\ AttemptsLeft
  BY DEF MobileInv
<1>1. CASE WritesBack
  <2>1. userOp.copy = store /\ userOp.gift \in Offline
    BY <1>0, <1>1 DEF WritesBack, Puts, MobileTyped
  <2>2. g = userOp.gift /\ userOp.kind = "remove"
    BY <1>0, <1>1, <2>1 DEF WritesBack, Puts, MobileTyped, Entry, Gone
  <2> QED BY <1>1, <2>2 DEF WritesBack
<1>2. ASSUME MarksRetrying PROVE FALSE
  <2>1. /\ pass.copy[pass.gift] # Gone /\ pass.copy = store /\ pass.gift \in Offline
        /\ store' = [store EXCEPT ![pass.gift].status = "retrying"]
    BY <1>0, <1>2 DEF MarksRetrying, Puts, MobileTyped, Working
  <2>2. g = pass.gift /\ store'[g].status = "retrying"
    BY <1>0, <2>1 DEF MobileTyped, Entries
  <2> QED BY <2>2 DEF Gone
<1>3. ASSUME Settles PROVE FALSE
  <2>1. /\ pass.copy[pass.gift] # Gone /\ pass.copy = store /\ pass.gift \in Offline
        /\ \/ store' = [store EXCEPT ![pass.gift].status = "submitted"]
           \/ store' = [store EXCEPT ![pass.gift] = Failed(@, pass.at = "permanent")]
    BY <1>0, <1>3 DEF Settles, Puts, MobileTyped, Working, MarksOnly
  <2>2. g = pass.gift /\ store'[g].status \in {"submitted", "pending", "failed"}
    BY <1>0, <2>1 DEF MobileTyped, Entries, Failed
  <2> QED BY <2>2 DEF Gone
<1>4. ASSUME NEW h \in Offline, BackoffEnds(h) PROVE FALSE
  <2>1. store[h].status = "pending" /\ store' = [store EXCEPT ![h].due = TRUE]
    BY <1>4 DEF BackoffEnds
  <2>2. g = h /\ store'[g].status = "pending"
    BY <1>0, <2>1 DEF MobileTyped, Entries
  <2> QED BY <2>2 DEF Gone
<1>5. CASE UNCHANGED store
  BY <1>5
<1> QED BY <1>1, <1>2, <1>3, <1>4, <1>5
     DEF MobileNext, mobileVars, Reads, BeginsPass, EndsPass, ReadsForMark, Submits, AppDies

-------------------------------------------------------------------------------
(* Submission: an envelope that is to be sent has been sent once for each *)
(* retry and fee bump, and until an answer is lost or a fee bumped it is   *)
(* on chain only from the poll on.                                         *)

Paid(e) == sends[e] = tries[e] + bumps[e]

SubmissionCounts(e) ==
  /\ sends[e] \in Nat /\ tries[e] \in 0 .. (SendRetries + 1) /\ bumps[e] \in 0 .. FeeBumps
  /\ stage[e] \in {"idle", "again"} => tries[e] <= SendRetries /\ Paid(e)
  /\ stage[e] \in {"sending", "polling", "asking"} =>
       tries[e] <= SendRetries /\ sends[e] = 1 + tries[e] + bumps[e]
  /\ stage[e] = "done" => sends[e] <= 1 + SendRetries + FeeBumps

SubmissionTells(e) ==
  /\ lost[e] \in BOOLEAN
  /\ outcome[e] = "SUCCESS" => onChain[e] = "success"
  /\ outcome[e] = "TX_FAILED" => onChain[e] = "failed"
  /\ outcome[e] = "TX_REJECTED" /\ ~lost[e] /\ bumps[e] = 0 => onChain[e] = "absent"
  /\ stage[e] \in {"idle", "again", "sending"} /\ ~lost[e] /\ bumps[e] = 0 => onChain[e] = "absent"

BreakerFits ==
  /\ breaker \in [state : {"closed", "open", "half_open"}, failures : 0 .. FailureLimit,
                  cooling : BOOLEAN]
  /\ (breaker.state = "closed") <=> (breaker.failures < FailureLimit)

SubmissionTyped ==
  /\ stage \in [Envelopes -> {"idle", "again", "sending", "polling", "asking", "done"}]
  /\ tries \in [Envelopes -> 0 .. (SendRetries + 1)]
  /\ bumps \in [Envelopes -> 0 .. FeeBumps]
  /\ outcome \in [Envelopes -> Failures \union {"none", "SUCCESS"}]
  /\ onChain \in [Envelopes -> {"absent", "pool", "success", "failed"}]
  /\ sends \in [Envelopes -> Nat]
  /\ lost \in [Envelopes -> BOOLEAN]
  /\ \A e \in Envelopes : (stage[e] = "done") <=> (outcome[e] # "none")

SubmissionInv ==
  /\ BreakerFits /\ SubmissionTyped
  /\ \A e \in Envelopes : SubmissionCounts(e) /\ SubmissionTells(e)

SubmissionActs(e) ==
  \/ FailsFast(e) \/ Sends(e) \/ Accepted(e) \/ TryAgainLater(e) \/ SendLost(e)
  \/ Rejected(e) \/ Asks(e) \/ Finality(e) \/ AskFails(e) \/ GivesUpPolling(e)
  \/ Includes(e)

LEMMA SubmissionStart == SubmissionInit => SubmissionInv
<1> SUFFICES ASSUME SubmissionInit PROVE SubmissionInv
  OBVIOUS
<1>1. BreakerFits
  BY SubmissionAssumption DEF SubmissionInit, BreakerFits
<1>2. SubmissionTyped
  BY SubmissionAssumption DEF SubmissionInit, SubmissionTyped
<1>3. ASSUME NEW e \in Envelopes PROVE SubmissionCounts(e) /\ SubmissionTells(e)
  BY <1>3, SubmissionAssumption DEF SubmissionInit, SubmissionCounts, SubmissionTells, Paid
<1> QED BY <1>1, <1>2, <1>3 DEF SubmissionInv

\* A success closes the breaker, and a failure opens it when it completes the count.
LEMMA BreakerKeeps ==
  ASSUME BreakerFits,
         \/ OnSuccess \/ OnFailure \/ breaker' = Admitted \/ breaker' = breaker
         \/ breaker' = [breaker EXCEPT !.cooling = FALSE]
  PROVE  BreakerFits'
<1>1. FailureLimit \in Nat \ {0}
  BY SubmissionAssumption
<1>2. CASE OnSuccess
  BY <1>1, <1>2 DEF OnSuccess, BreakerFits
<1>3. CASE OnFailure
  <2>1. /\ FailureCount \in 0 .. FailureLimit
        /\ breaker.state # "closed" => FailureCount = FailureLimit
    BY <1>1 DEF FailureCount, AddsFailure, BreakerFits
  <2> QED BY <1>1, <1>3, <2>1 DEF OnFailure, BreakerFits
<1>4. CASE breaker' = Admitted
  BY <1>4 DEF Admitted, BreakerFits
<1>5. CASE breaker' = [breaker EXCEPT !.cooling = FALSE]
  BY <1>5 DEF BreakerFits
<1> QED BY <1>2, <1>3, <1>4, <1>5 DEF BreakerFits

\* What the steps of a submission may do to the variables: e is their own envelope.
TellsOrGoes(e) ==
  \/ UNCHANGED <<stage, outcome>>
  \/ stage[e] # "done" /\ \E k \in {"again", "sending", "polling", "asking"} : Goes(e, k)
  \/ stage[e] # "done" /\ \E code \in Failures \union {"SUCCESS"} : Ends(e, code)

Budgets(e) ==
  /\ tries' = tries \/ (tries[e] <= SendRetries /\ tries' = [tries EXCEPT ![e] = @ + 1])
  /\ bumps' = bumps \/ (bumps[e] < FeeBumps /\ bumps' = [bumps EXCEPT ![e] = @ + 1])
  /\ sends' = sends \/ sends' = [sends EXCEPT ![e] = @ + 1]

ChainMoves(e) ==
  /\ onChain' = onChain
       \/ \E c \in {"absent", "pool", "success", "failed"} : onChain' = [onChain EXCEPT ![e] = c]
  /\ lost' = lost \/ lost' = [lost EXCEPT ![e] = TRUE]

LEMMA SubmissionFrame ==
  ASSUME SubmissionTyped, NEW e \in Envelopes, TellsOrGoes(e), Budgets(e), ChainMoves(e)
  PROVE  /\ SubmissionTyped'
         /\ \A d \in Envelopes \ {e} :
              /\ stage'[d] = stage[d] /\ tries'[d] = tries[d] /\ bumps'[d] = bumps[d]
              /\ outcome'[d] = outcome[d] /\ onChain'[d] = onChain[d]
              /\ sends'[d] = sends[d] /\ lost'[d] = lost[d]
<1>0. SendRetries \in Nat /\ FeeBumps \in Nat
  BY SubmissionAssumption
<1> DEFINE StageFits ==
      /\ stage' \in [Envelopes -> {"idle", "again", "sending", "polling", "asking", "done"}]
      /\ outcome' \in [Envelopes -> Failures \union {"none", "SUCCESS"}]
      /\ \A d \in Envelopes : (stage'[d] = "done") <=> (outcome'[d] # "none")
      /\ \A d \in Envelopes \ {e} : stage'[d] = stage[d] /\ outcome'[d] = outcome[d]
<1>1. StageFits
  <2>1. CASE UNCHANGED <<stage, outcome>>
    BY <2>1 DEF SubmissionTyped
  <2>2. ASSUME NEW k \in {"again", "sending", "polling", "asking"}, Goes(e, k), stage[e] # "done"
        PROVE  StageFits
    BY <2>2 DEF SubmissionTyped, Goes
  <2>3. ASSUME NEW code \in Failures \union {"SUCCESS"}, Ends(e, code)
        PROVE  StageFits
    <3>1. code # "none"
      BY DEF Failures
    <3> QED BY <2>3, <3>1 DEF SubmissionTyped, Ends
  <2> QED BY <2>1, <2>2, <2>3 DEF TellsOrGoes
<1>2. /\ tries' \in [Envelopes -> 0 .. (SendRetries + 1)]
      /\ \A d \in Envelopes \ {e} : tries'[d] = tries[d]
  BY <1>0 DEF SubmissionTyped, Budgets
<1>3. /\ bumps' \in [Envelopes -> 0 .. FeeBumps]
      /\ \A d \in Envelopes \ {e} : bumps'[d] = bumps[d]
  BY <1>0 DEF SubmissionTyped, Budgets
<1>4. /\ sends' \in [Envelopes -> Nat]
      /\ \A d \in Envelopes \ {e} : sends'[d] = sends[d]
  BY DEF SubmissionTyped, Budgets
<1>5. /\ onChain' \in [Envelopes -> {"absent", "pool", "success", "failed"}]
      /\ \A d \in Envelopes \ {e} : onChain'[d] = onChain[d]
  BY DEF SubmissionTyped, ChainMoves
<1>6. /\ lost' \in [Envelopes -> BOOLEAN]
      /\ \A d \in Envelopes \ {e} : lost'[d] = lost[d]
  <2>1. CASE lost' = lost
    BY <2>1 DEF SubmissionTyped
  <2>2. CASE lost' = [lost EXCEPT ![e] = TRUE]
    BY <2>2, Zenon DEF SubmissionTyped
  <2> QED BY <2>1, <2>2 DEF ChainMoves
<1> QED BY <1>1, <1>2, <1>3, <1>4, <1>5, <1>6 DEF SubmissionTyped

\* A step concerns its own envelope, and leaves it with its sends counted and its caller told
\* what is so.
LEMMA SubmissionEffects ==
  ASSUME SubmissionInv, NEW e \in Envelopes, SubmissionActs(e)
  PROVE  /\ TellsOrGoes(e) /\ Budgets(e) /\ ChainMoves(e)
         /\ SubmissionCounts(e)' /\ SubmissionTells(e)'
<1>0. /\ SendRetries \in Nat /\ FeeBumps \in Nat /\ SubmissionTyped
      /\ SubmissionCounts(e) /\ SubmissionTells(e)
  BY SubmissionAssumption DEF SubmissionInv
<1> USE DEF SubmissionTyped, SubmissionCounts, SubmissionTells, Paid, Budgets, ChainMoves
<1>1. CASE FailsFast(e)
  <2>1. TellsOrGoes(e)
    BY <1>0, <1>1 DEF FailsFast, TellsOrGoes, Failures
  <2> QED BY <1>0, <1>1, <2>1 DEF FailsFast, Ends
<1>2. CASE Sends(e)
  <2>1. TellsOrGoes(e)
    BY <1>0, <1>2 DEF Sends, TellsOrGoes
  <2> QED BY <1>0, <1>2, <2>1 DEF Sends, Goes
<1>3. CASE Accepted(e)
  <2>1. TellsOrGoes(e)
    BY <1>0, <1>3 DEF Accepted, TellsOrGoes
  <2> QED BY <1>0, <1>3, <2>1 DEF Accepted, Goes, Taken
<1>4. CASE TryAgainLater(e)
  <2>1. TellsOrGoes(e)
    BY <1>0, <1>4 DEF TryAgainLater, Retries, TellsOrGoes, Failures
  <2> QED BY <1>0, <1>4, <2>1 DEF TryAgainLater, Retries, Goes, Ends, NotTaken
<1>5. CASE SendLost(e)
  <2>1. TellsOrGoes(e)
    BY <1>0, <1>5 DEF SendLost, Retries, TellsOrGoes, Failures
  <2> QED BY <1>0, <1>5, <2>1 DEF SendLost, Retries, Goes, Ends, Taken, NotTaken
<1>6. CASE Rejected(e)
  <2>1. TellsOrGoes(e)
    BY <1>0, <1>6 DEF Rejected, TellsOrGoes, Failures
  <2> QED BY <1>0, <1>6, <2>1 DEF Rejected, Ends, NotTaken
<1>7. CASE Asks(e)
  <2>1. TellsOrGoes(e)
    BY <1>0, <1>7 DEF Asks, TellsOrGoes
  <2> QED BY <1>0, <1>7, <2>1 DEF Asks, Goes
<1>8. CASE Finality(e)
  <2>1. /\ stage[e] = "asking" /\ UNCHANGED <<tries, bumps, onChain, sends, lost>>
        /\ \/ onChain[e] = "success" /\ Ends(e, "SUCCESS")
           \/ onChain[e] = "failed" /\ Ends(e, "TX_FAILED")
           \/ Goes(e, "polling")
    BY <1>8 DEF Finality
  <2>2. TellsOrGoes(e)
    BY <2>1 DEF TellsOrGoes, Failures
  <2> QED BY <1>0, <2>1, <2>2 DEF Goes, Ends
<1>9. CASE AskFails(e)
  <2>1. TellsOrGoes(e)
    BY <1>0, <1>9 DEF AskFails, TellsOrGoes
  <2> QED BY <1>0, <1>9, <2>1 DEF AskFails, Goes
<1>10. CASE GivesUpPolling(e)
  <2>1. TellsOrGoes(e)
    BY <1>0, <1>10 DEF GivesUpPolling, TellsOrGoes, Failures
  <2> QED BY <1>0, <1>10, <2>1 DEF GivesUpPolling, Goes, Ends
<1>11. CASE Includes(e)
  <2>1. TellsOrGoes(e)
    BY <1>11 DEF Includes, TellsOrGoes
  <2> QED BY <1>0, <1>11, <2>1 DEF Includes
<1> QED BY <1>1, <1>2, <1>3, <1>4, <1>5, <1>6, <1>7, <1>8, <1>9, <1>10, <1>11 DEF SubmissionActs

LEMMA SubmissionKeeps == SubmissionInv /\ [SubmissionNext]_subVars => SubmissionInv'
<1> SUFFICES ASSUME SubmissionInv, [SubmissionNext]_subVars PROVE SubmissionInv'
  OBVIOUS
<1>1. ASSUME NEW e \in Envelopes, SubmissionActs(e) PROVE SubmissionInv'
  <2>1. BreakerFits'
    <3>1. \/ OnSuccess \/ OnFailure \/ breaker' = Admitted \/ breaker' = breaker
      BY <1>1 DEF SubmissionActs, FailsFast, Sends, Accepted, TryAgainLater, SendLost, Rejected,
                  Asks, Finality, AskFails, GivesUpPolling, Includes
    <3> QED BY <3>1, BreakerKeeps DEF SubmissionInv
  <2>2. /\ TellsOrGoes(e) /\ Budgets(e) /\ ChainMoves(e)
        /\ SubmissionCounts(e)' /\ SubmissionTells(e)'
    BY <1>1, SubmissionEffects
  <2>3. /\ SubmissionTyped'
        /\ \A d \in Envelopes \ {e} :
             /\ stage'[d] = stage[d] /\ tries'[d] = tries[d] /\ bumps'[d] = bumps[d]
             /\ outcome'[d] = outcome[d] /\ onChain'[d] = onChain[d]
             /\ sends'[d] = sends[d] /\ lost'[d] = lost[d]
    BY <2>2, SubmissionFrame DEF SubmissionInv
  <2>4. ASSUME NEW d \in Envelopes, d # e PROVE SubmissionCounts(d)' /\ SubmissionTells(d)'
    BY <2>3, <2>4 DEF SubmissionInv, SubmissionCounts, SubmissionTells, Paid
  <2> QED BY <2>1, <2>2, <2>3, <2>4 DEF SubmissionInv
<1>2. ASSUME UNCHANGED <<stage, tries, bumps, outcome, onChain, sends, lost>>, BreakerFits'
      PROVE  SubmissionInv'
  <2>1. SubmissionTyped'
    BY <1>2 DEF SubmissionInv, SubmissionTyped
  <2>2. ASSUME NEW d \in Envelopes PROVE SubmissionCounts(d)' /\ SubmissionTells(d)'
    BY <1>2 DEF SubmissionInv, SubmissionCounts, SubmissionTells, Paid
  <2> QED BY <1>2, <2>1, <2>2 DEF SubmissionInv
<1>3. CASE Cools
  BY <1>2, <1>3, BreakerKeeps DEF Cools, SubmissionInv
<1>4. CASE UNCHANGED subVars
  BY <1>2, <1>4 DEF subVars, SubmissionInv, BreakerFits
<1> QED BY <1>1, <1>3, <1>4 DEF SubmissionNext, SubmissionActs

LEMMA SubmissionSuffices == SubmissionInv => SubmissionTruthful
<1> SUFFICES ASSUME SubmissionInv PROVE SubmissionTruthful
  OBVIOUS
<1>1. SubmissionTypeOK
  BY DEF SubmissionInv, BreakerFits, SubmissionTyped, SubmissionTypeOK
<1>2. OutcomeTrue
  BY DEF SubmissionInv, SubmissionTells, OutcomeTrue
<1>3. ASSUME NEW e \in Envelopes PROVE sends[e] <= 1 + SendRetries + FeeBumps
  <2>1. SubmissionCounts(e) /\ SendRetries \in Nat /\ FeeBumps \in Nat
        /\ stage[e] \in {"idle", "again", "sending", "polling", "asking", "done"}
    BY SubmissionAssumption DEF SubmissionInv, SubmissionTyped
  <2> QED BY <2>1 DEF SubmissionCounts, Paid
<1> QED BY <1>1, <1>2, <1>3 DEF SendsBounded, SubmissionTruthful

-------------------------------------------------------------------------------
(* DonateFlow: a run that is told of is over, and what it was told is what *)
(* became of its transaction, which can change no more.  Until two runs    *)
(* are under way at once the form shows the one that is.                   *)

PressRow == [at : {"none", "building", "signing", "submitting", "polling", "recording", "over"},
             seq : 0 .. MaxSequence, v2 : BOOLEAN]

Sayings == {"nothing", "error", "queued", "cancelled", "nothing sent", "unknown", "success"}

FlowTyped ==
  /\ step \in {"idle", "preview", "building", "signing", "submitting", "polling", "recording",
               "success", "unknown", "error"}
  /\ hash \in Presses \union {NoHash} /\ keep \in Presses \union {NoHash}
  /\ form \in {"none", "asked", "set"}
  /\ press \in [Presses -> PressRow]
  /\ fate \in [Presses -> {"unsent", "sent", "paid", "failed", "dead"}]
  /\ told \in [Presses -> Sayings]
  /\ account \in 1 .. MaxSequence /\ posted \subseteq Presses /\ twice \in BOOLEAN

RunTold(r) ==
  /\ press[r].at \in {"none", "building", "signing"} => fate[r] = "unsent"
  /\ press[r].at = "recording" => fate[r] = "paid"
  /\ told[r] # "nothing" => press[r].at = "over"
  /\ told[r] = "success" => fate[r] = "paid"
  /\ told[r] = "cancelled" => fate[r] = "unsent"
  /\ told[r] = "nothing sent" => fate[r] = "dead"
  /\ r \in posted => fate[r] = "paid"

FormShows ==
  /\ \A q, r \in Under : q = r
  /\ \A r \in Under :
       step \notin {"success", "unknown"} /\ (press[r].at = "recording" => hash = r)
  /\ step = "success" => hash \in Presses /\ fate[hash] = "paid"

FlowInv == FlowTyped /\ (\A r \in Presses : RunTold(r)) /\ (~twice => FormShows)

LEMMA FlowStart == FlowInit => FlowInv
<1> SUFFICES ASSUME FlowInit PROVE FlowInv
  OBVIOUS
<1>1. Unpressed \in PressRow /\ Unpressed.at = "none"
  BY FlowAssumption DEF Unpressed, PressRow
<1>2. FlowTyped
  <2>1. press \in [Presses -> PressRow]
    BY <1>1 DEF FlowInit
  <2>2. /\ account \in 1 .. MaxSequence /\ posted \subseteq Presses
        /\ fate \in [Presses -> {"unsent", "sent", "paid", "failed", "dead"}]
        /\ told \in [Presses -> Sayings]
    BY FlowAssumption DEF FlowInit, Sayings
  <2> QED BY <2>1, <2>2 DEF FlowInit, FlowTyped
<1>3. \A r \in Presses : press[r].at = "none" /\ fate[r] = "unsent" /\ told[r] = "nothing"
  BY <1>1 DEF FlowInit
<1>4. Under = {}
  BY <1>3 DEF Under
<1> QED BY <1>2, <1>3, <1>4 DEF FlowInit, FlowInv, RunTold, FormShows

\* A run that goes on, or ends.
LEMMA RunMoves ==
  ASSUME FlowTyped, NEW r \in Presses,
         NEW k \in {"building", "signing", "submitting", "polling", "recording", "over"},
         press' = [press EXCEPT ![r].at = k]
  PROVE  /\ press' \in [Presses -> PressRow] /\ press'[r].at = k
         /\ \A q \in Presses \ {r} : press'[q] = press[q]
<1> DEFINE p == [press[r] EXCEPT !.at = k]
<1>1. press \in [Presses -> PressRow] /\ press[r] \in PressRow
  BY DEF FlowTyped
<1>2. p \in PressRow /\ p.at = k
  BY <1>1 DEF PressRow
<1>3. press' = [press EXCEPT ![r] = p]
  OBVIOUS
<1> HIDE DEF p
<1> QED BY <1>1, <1>2, <1>3

\* What a step of the run under way leaves shown, as long as there is one.
LEMMA RunShown ==
  ASSUME FlowInv, NEW r \in Under, twice' = twice,
         \A q \in Presses \ {r} : press'[q] = press[q],
         \A q \in Presses : fate[q] = "paid" => fate'[q] = "paid",
         \/ /\ press'[r].at # "over" /\ step' \notin {"success", "unknown"}
            /\ press'[r].at = "recording" => hash' = r
         \/ /\ press'[r].at = "over"
            /\ step' = "success" => hash' = r /\ fate'[r] = "paid"
  PROVE  ~twice' => FormShows'
<1> SUFFICES ASSUME ~twice' PROVE FormShows'
  OBVIOUS
<1>1. FormShows /\ r \in Presses
  BY DEF FlowInv, Under
<1>2. \A q \in Presses \ {r} : press'[q].at \in {"none", "over"}
  BY <1>1 DEF FormShows, Under
<1>3. \A q \in Under' : q = r
  BY <1>2 DEF Under
<1>4. r \in Under' => press'[r].at # "over"
  BY DEF Under
<1> QED BY <1>1, <1>3, <1>4 DEF FormShows

\* Every step of a run but the first concerns only what it was told and what became of it.
RunSteps(r) == Builds(r) \/ Signs(r) \/ Confirmed(r) \/ Refused(r) \/ Dropped(r) \/ PollsPaid(r)
                 \/ GivesUp(r) \/ Notifies(r)

LEMMA ErrTold ==
  ASSUME FlowTyped, NEW r \in Presses, Errs(r)
  PROVE  /\ press' \in [Presses -> PressRow] /\ press'[r].at = "over"
         /\ \A q \in Presses \ {r} : press'[q] = press[q] /\ told'[q] = told[q]
         /\ told' \in [Presses -> Sayings] /\ told'[r] \in {"error", "queued"}
         /\ step' \in {"error", "idle"}
<1>1. press' = [press EXCEPT ![r].at = "over"]
  BY DEF Errs, Moves
<1>2. /\ told' \in [Presses -> Sayings] /\ told'[r] \in {"error", "queued"}
      /\ step' \in {"error", "idle"} /\ \A q \in Presses \ {r} : told'[q] = told[q]
  BY DEF Errs, Says, FlowTyped, Sayings
<1> QED BY <1>1, <1>2, RunMoves

LEMMA RunKeeps ==
  ASSUME FlowInv, NEW r \in Presses, RunSteps(r)
  PROVE  FlowInv'
<1>0. FlowTyped /\ RunTold(r) /\ \A q \in Presses : RunTold(q)
  BY DEF FlowInv
<1> DEFINE Row == /\ press' \in [Presses -> PressRow]
                  /\ \A q \in Presses \ {r} : press'[q] = press[q]
           Saying == /\ told' \in [Presses -> Sayings]
                     /\ \A q \in Presses \ {r} : told'[q] = told[q]
           Fated == /\ fate' \in [Presses -> {"unsent", "sent", "paid", "failed", "dead"}]
                    /\ \A q \in Presses \ {r} : fate'[q] = fate[q]
                    /\ fate[r] = "paid" => fate'[r] = "paid"
           Other == /\ step' \in {"idle", "signing", "submitting", "polling", "recording", "success",
                                  "unknown", "error"}
                    /\ hash' \in Presses \union {NoHash} /\ keep' \in Presses \union {NoHash}
                    /\ UNCHANGED <<form, account, twice>>
                    /\ posted' = posted \/ posted' = posted \union {r}
           Shows == \/ /\ press'[r].at # "over" /\ step' \notin {"success", "unknown"}
                       /\ press'[r].at = "recording" => hash' = r
                    \/ /\ press'[r].at = "over"
                       /\ step' = "success" => twice \/ (hash' = r /\ fate'[r] = "paid")
           Fits == Row /\ Saying /\ Fated /\ Other /\ Shows /\ RunTold(r)' /\ r \in Under
<1>1. ASSUME Errs(r), r \in Under, UNCHANGED <<hash, keep, form, fate, account, posted, twice>>
      PROVE  Fits
  <2>1. Row /\ Saying /\ Other /\ press'[r].at = "over" /\ told'[r] \in {"error", "queued"}
        /\ step' \in {"error", "idle"}
    BY <1>0, <1>1, ErrTold DEF FlowTyped
  <2>2. Fated
    BY <1>0, <1>1 DEF FlowTyped
  <2>3. RunTold(r)'
    BY <1>0, <1>1, <2>1 DEF RunTold
  <2> QED BY <1>1, <2>1, <2>2, <2>3
<1>2. ASSUME Builds(r) PROVE Fits
  <2>1. press[r].at = "building" /\ r \in Under
    BY <1>2 DEF Builds, Under
  <2>2. CASE /\ press' = [press EXCEPT ![r].at = "signing", ![r].seq = account]
             /\ step' = "signing" /\ UNCHANGED <<told, hash, keep, form, fate, account, posted, twice>>
    <3> DEFINE p == [press[r] EXCEPT !.at = "signing", !.seq = account]
    <3>1. p \in PressRow /\ p.at = "signing"
      <4>1. press[r] \in PressRow /\ account \in 0 .. MaxSequence
        BY <1>0, FlowAssumption DEF FlowTyped
      <4> QED BY <4>1 DEF PressRow
    <3>2. DOMAIN press = Presses /\ \A q \in Presses : press[q] \in PressRow
      BY <1>0 DEF FlowTyped
    <3>3. press'[r] = p /\ \A q \in Presses \ {r} : press'[q] = press[q]
      BY <2>2, <3>2
    <3>4. press' = [q \in Presses |-> press'[q]]
      BY <2>2, <3>2
    <3> HIDE DEF p
    <3>5. Row /\ press'[r].at = "signing"
      BY <3>1, <3>2, <3>3, <3>4
    <3>6. RunTold(r)'
      BY <1>0, <2>1, <2>2, <3>5 DEF RunTold
    <3> QED BY <1>0, <2>1, <2>2, <3>5, <3>6 DEF FlowTyped
  <2>3. CASE Errs(r) /\ UNCHANGED <<hash, keep, form, fate, account, posted, twice>>
    BY <1>1, <2>1, <2>3
  <2> QED BY <1>2, <2>2, <2>3 DEF Builds
<1>3. ASSUME Signs(r) PROVE Fits
  <2>1. press[r].at = "signing" /\ r \in Under
    BY <1>3 DEF Signs, Under
  <2>2. CASE /\ Moves(r, "submitting") /\ step' = "submitting" /\ UNCHANGED told
             /\ fate' = [fate EXCEPT ![r] = "sent"]
             /\ UNCHANGED <<hash, keep, form, account, posted, twice>>
    <3>1. Row /\ press'[r].at = "submitting"
      BY <1>0, <2>2, RunMoves DEF Moves
    <3>2. Fated /\ fate'[r] = "sent"
      BY <1>0, <2>1, <2>2 DEF FlowTyped, RunTold
    <3>3. RunTold(r)'
      BY <1>0, <2>1, <2>2, <3>1, <3>2 DEF RunTold
    <3> QED BY <1>0, <2>1, <2>2, <3>1, <3>2, <3>3 DEF FlowTyped
  <2>3. CASE /\ Moves(r, "over") /\ step' = "idle" /\ Says(r, "cancelled")
             /\ UNCHANGED <<hash, keep, form, fate, account, posted, twice>>
    <3>1. Row /\ press'[r].at = "over"
      BY <1>0, <2>3, RunMoves DEF Moves
    <3>2. Saying /\ told'[r] = "cancelled"
      BY <1>0, <2>3 DEF FlowTyped, Says, Sayings
    <3>3. RunTold(r)'
      BY <1>0, <2>1, <2>3, <3>1, <3>2 DEF RunTold
    <3> QED BY <1>0, <2>1, <2>3, <3>1, <3>2, <3>3 DEF FlowTyped
  <2>4. CASE Errs(r) /\ UNCHANGED <<hash, keep, form, fate, account, posted, twice>>
    BY <1>1, <2>1, <2>4
  <2> QED BY <1>3, <2>2, <2>3, <2>4 DEF Signs
<1>4. ASSUME Confirmed(r) \/ PollsPaid(r) PROVE Fits
  <2>1. /\ press[r].at \in {"submitting", "polling"} /\ r \in Under /\ fate[r] = "paid"
        /\ Moves(r, "recording") /\ hash' = r /\ step' = "recording"
        /\ UNCHANGED <<keep, form, fate, account, told, posted, twice>>
    BY <1>4 DEF Confirmed, PollsPaid, Under
  <2>2. Row /\ press'[r].at = "recording"
    BY <1>0, <2>1, RunMoves DEF Moves
  <2>3. RunTold(r)'
    BY <1>0, <2>1, <2>2 DEF RunTold
  <2> QED BY <1>0, <2>1, <2>2, <2>3 DEF FlowTyped
<1>5. ASSUME Refused(r) PROVE Fits
  <2>1. press[r].at = "submitting" /\ r \in Under
    BY <1>5 DEF Refused, Under
  <2>2. CASE /\ fate[r] = "dead" /\ Moves(r, "over") /\ step' = "error" /\ Says(r, "nothing sent")
             /\ UNCHANGED <<hash, keep, form, fate, account, posted, twice>>
    <3>1. Row /\ press'[r].at = "over"
      BY <1>0, <2>2, RunMoves DEF Moves
    <3>2. Saying /\ told'[r] = "nothing sent"
      BY <1>0, <2>2 DEF FlowTyped, Says, Sayings
    <3>3. RunTold(r)'
      BY <1>0, <2>1, <2>2, <3>1, <3>2 DEF RunTold
    <3> QED BY <1>0, <2>1, <2>2, <3>1, <3>2, <3>3 DEF FlowTyped
  <2>3. CASE Errs(r) /\ UNCHANGED <<hash, keep, form, fate, account, posted, twice>>
    BY <1>1, <2>1, <2>3
  <2> QED BY <1>5, <2>2, <2>3 DEF Refused
<1>6. ASSUME Dropped(r) PROVE Fits
  <2>1. press[r].at = "submitting" /\ r \in Under
    BY <1>6 DEF Dropped, Under
  <2>2. CASE /\ Moves(r, "polling") /\ step' = "polling" /\ UNCHANGED told
             /\ UNCHANGED <<hash, keep, form, fate, account, posted, twice>>
    <3>1. Row /\ press'[r].at = "polling"
      BY <1>0, <2>2, RunMoves DEF Moves
    <3>2. RunTold(r)'
      BY <1>0, <2>1, <2>2, <3>1 DEF RunTold
    <3> QED BY <1>0, <2>1, <2>2, <3>1, <3>2 DEF FlowTyped
  <2>3. CASE Errs(r) /\ UNCHANGED <<hash, keep, form, fate, account, posted, twice>>
    BY <1>1, <2>1, <2>3
  <2> QED BY <1>6, <2>2, <2>3 DEF Dropped
<1>7. ASSUME GivesUp(r) PROVE Fits
  <2>1. /\ press[r].at = "polling" /\ r \in Under
        /\ Moves(r, "over") /\ hash' = r /\ keep' = r /\ step' = "unknown" /\ Says(r, "unknown")
        /\ UNCHANGED <<form, fate, account, posted, twice>>
    BY <1>7 DEF GivesUp, Under
  <2>2. Row /\ press'[r].at = "over"
    BY <1>0, <2>1, RunMoves DEF Moves
  <2>3. Saying /\ told'[r] = "unknown"
    BY <1>0, <2>1 DEF FlowTyped, Says, Sayings
  <2>4. RunTold(r)'
    BY <1>0, <2>1, <2>2, <2>3 DEF RunTold
  <2> QED BY <1>0, <2>1, <2>2, <2>3, <2>4 DEF FlowTyped
<1>8. ASSUME Notifies(r) PROVE Fits
  <2>1. /\ press[r].at = "recording" /\ r \in Under /\ fate[r] = "paid"
        /\ UNCHANGED <<hash, keep, form, fate, account, twice>>
        /\ ~twice => hash = r
    BY <1>0, <1>8 DEF Notifies, Under, RunTold, FlowInv, FormShows
  <2>2. CASE Errs(r) /\ UNCHANGED posted
    BY <1>1, <2>1, <2>2
  <2>3. ASSUME NEW k \in {"success", "unknown"}, Moves(r, "over"), step' = k, Says(r, k),
               posted' = posted \/ posted' = posted \union {r}
        PROVE  Fits
    <3>1. Row /\ press'[r].at = "over"
      BY <1>0, <2>3, RunMoves DEF Moves
    <3>2. Saying /\ told'[r] = k
      BY <1>0, <2>3 DEF FlowTyped, Says, Sayings
    <3>3. RunTold(r)'
      BY <1>0, <2>1, <2>3, <3>1, <3>2 DEF RunTold
    <3> QED BY <1>0, <2>1, <2>3, <3>1, <3>2, <3>3 DEF FlowTyped
  <2> QED BY <1>8, <2>2, <2>3 DEF Notifies
<1>9. Fits
  BY <1>2, <1>3, <1>4, <1>5, <1>6, <1>7, <1>8 DEF RunSteps
<1>10. FlowTyped'
  BY <1>0, <1>9 DEF FlowTyped
<1>11. ASSUME NEW q \in Presses, q # r PROVE RunTold(q)'
  BY <1>0, <1>9, <1>11 DEF RunTold
<1>12. ~twice' => FormShows'
  <2> SUFFICES ASSUME ~twice' PROVE FormShows'
    OBVIOUS
  <2>1. /\ r \in Under /\ twice' = twice
        /\ \A q \in Presses \ {r} : press'[q] = press[q]
        /\ \A q \in Presses : fate[q] = "paid" => fate'[q] = "paid"
        /\ \/ /\ press'[r].at # "over" /\ step' \notin {"success", "unknown"}
              /\ press'[r].at = "recording" => hash' = r
           \/ /\ press'[r].at = "over"
              /\ step' = "success" => hash' = r /\ fate'[r] = "paid"
    BY <1>9
  <2> HIDE DEF Fits
  <2> QED BY <2>1, RunShown
<1> QED BY <1>9, <1>10, <1>11, <1>12 DEF FlowInv

LEMMA FlowKeeps == FlowInv /\ [FlowNext]_flowVars => FlowInv'
<1> SUFFICES ASSUME FlowInv, [FlowNext]_flowVars PROVE FlowInv'
  OBVIOUS
<1>0. FlowTyped /\ \A r \in Presses : RunTold(r)
  BY DEF FlowInv
<1>1. ASSUME NEW r \in Presses, RunSteps(r) PROVE FlowInv'
  BY <1>1, RunKeeps
<1>2. ASSUME NEW r \in Presses, Starts(r) PROVE FlowInv'
  <2>1. /\ press[r].at = "none" /\ step' \in {"building", "preview"}
        /\ twice' = (twice \/ Under # {})
        /\ UNCHANGED <<hash, keep, form, fate, account, told, posted>>
    BY <1>2 DEF Starts
  <2>2. /\ press' \in [Presses -> PressRow] /\ press'[r].at = "building"
        /\ \A q \in Presses \ {r} : press'[q] = press[q]
    <3>1. PICK b \in BOOLEAN : press' = [press EXCEPT ![r] = [at |-> "building", seq |-> 0, v2 |-> b]]
      BY <1>2 DEF Starts, Unpressed
    <3> DEFINE p == [at |-> "building", seq |-> 0, v2 |-> b]
    <3>2. p \in PressRow /\ p.at = "building"
      BY FlowAssumption DEF PressRow
    <3>3. press \in [Presses -> PressRow] /\ press' = [press EXCEPT ![r] = p]
      BY <1>0, <3>1 DEF FlowTyped
    <3> HIDE DEF p
    <3> QED BY <3>2, <3>3
  <2>3. FlowTyped'
    <3>1. twice' \in BOOLEAN
      BY <2>1
    <3> QED BY <1>0, <2>1, <2>2, <3>1 DEF FlowTyped
  <2>4. ASSUME NEW q \in Presses PROVE RunTold(q)'
    BY <1>0, <2>1, <2>2 DEF RunTold
  <2>5. ASSUME ~twice' PROVE FormShows'
    <3>1. \A q \in Presses \ {r} : press'[q].at \in {"none", "over"}
      BY <2>1, <2>2, <2>5 DEF Under
    <3>2. \A q \in Under' : q = r
      BY <3>1 DEF Under
    <3> QED BY <2>1, <2>2, <3>2 DEF FormShows
  <2> QED BY <2>3, <2>4, <2>5 DEF FlowInv
<1>3. ASSUME NEW r \in Presses, Ledgers(r) PROVE FlowInv'
  <2>1. /\ fate[r] = "sent" /\ UNCHANGED <<step, hash, keep, form, press, told, posted, twice>>
        /\ \E c \in {"paid", "failed", "dead"} : fate' = [fate EXCEPT ![r] = c]
        /\ account' = account \/ (account < MaxSequence /\ account' = account + 1)
    BY <1>3 DEF Ledgers
  <2>2. account' \in 1 .. MaxSequence
    BY <1>0, <2>1, FlowAssumption DEF FlowTyped
  <2>3. /\ fate' \in [Presses -> {"unsent", "sent", "paid", "failed", "dead"}]
        /\ \A q \in Presses \ {r} : fate'[q] = fate[q]
    BY <1>0, <2>1 DEF FlowTyped
  <2>4. FlowTyped'
    BY <1>0, <2>1, <2>2, <2>3 DEF FlowTyped
  <2>5. ASSUME NEW q \in Presses PROVE RunTold(q)'
    BY <1>0, <2>1, <2>3 DEF RunTold
  <2>6. ASSUME ~twice' PROVE FormShows'
    <3>1. FormShows /\ Under' = Under
      BY <2>1, <2>6 DEF FlowInv, Under
    <3>2. step = "success" => hash # r
      BY <2>1, <3>1 DEF FormShows
    <3> QED BY <2>1, <2>3, <3>1, <3>2 DEF FormShows
  <2> QED BY <2>4, <2>5, <2>6 DEF FlowInv
<1>4. ASSUME UNCHANGED <<press, fate, account, told, posted, twice>>,
             step' \in {"idle", "preview", "building", "error"} \/ step' = step,
             form' \in {"none", "asked", "set"},
             UNCHANGED <<hash, keep>> \/ (step = "unknown" /\ hash' = NoHash /\ keep' = NoHash /\ step' = "idle")
      PROVE  FlowInv'
  <2>1. FlowTyped'
    BY <1>0, <1>4 DEF FlowTyped
  <2>2. ASSUME NEW q \in Presses PROVE RunTold(q)'
    BY <1>0, <1>4 DEF RunTold
  <2>3. ASSUME ~twice' PROVE FormShows'
    <3>1. FormShows /\ Under' = Under
      BY <1>4, <2>3 DEF FlowInv, Under
    <3> QED BY <1>4, <3>1 DEF FormShows
  <2> QED BY <2>1, <2>2, <2>3 DEF FlowInv
<1>5. CASE Simulates \/ Previews \/ GoesBack \/ ErrorPasses \/ Dismisses
  BY <1>0, <1>4, <1>5 DEF Simulates, Previews, GoesBack, ErrorPasses, Dismisses, FlowTyped
<1>6. CASE Reloads
  <2>1. /\ UNCHANGED <<keep, fate, account, told, posted, twice>>
        /\ step' \in {"idle", "unknown"} /\ hash' = keep /\ form' = "none"
    BY <1>6 DEF Reloads
  <2>2. /\ press' \in [Presses -> PressRow]
        /\ \A q \in Presses : \/ press'[q] = press[q] /\ press[q].at \in {"none", "over"}
                              \/ press'[q].at = "over" /\ q \in Under
    <3> DEFINE Cut(q) == [press[q] EXCEPT !.at = "over"]
    <3>1. ASSUME NEW q \in Presses PROVE Cut(q) \in PressRow /\ Cut(q).at = "over"
      BY <1>0 DEF FlowTyped, PressRow
    <3>2. press' = [q \in Presses |-> IF q \in Under THEN Cut(q) ELSE press[q]]
      BY <1>6 DEF Reloads
    <3>3. \A q \in Presses : press[q] \in PressRow /\ (q \notin Under => press[q].at \in {"none", "over"})
      BY <1>0 DEF FlowTyped, Under
    <3> HIDE DEF Cut
    <3> QED BY <3>1, <3>2, <3>3
  <2>3. FlowTyped'
    BY <1>0, <2>1, <2>2 DEF FlowTyped
  <2>4. ASSUME NEW q \in Presses PROVE RunTold(q)'
    BY <1>0, <2>1, <2>2 DEF RunTold, Under
  <2>5. Under' = {}
    BY <2>2 DEF Under
  <2> QED BY <2>1, <2>3, <2>4, <2>5 DEF FlowInv, FormShows
<1>7. CASE UNCHANGED flowVars
  BY <1>0, <1>4, <1>7 DEF flowVars, FlowTyped
<1> QED BY <1>1, <1>2, <1>3, <1>5, <1>6, <1>7 DEF FlowNext, RunSteps

LEMMA FlowSuffices == FlowInv => FlowTypeOK /\ FlowHonest
<1> SUFFICES ASSUME FlowInv PROVE FlowTypeOK /\ FlowHonest
  OBVIOUS
<1>1. FlowTypeOK
  BY DEF FlowInv, FlowTyped, PressRow, FlowTypeOK
<1>2. FlowHonest
  BY FlowAssumption DEF FlowInv, RunTold, FormShows, FlowHonest
<1> QED BY <1>1, <1>2

-------------------------------------------------------------------------------
(* ResponseCache: until a write overtakes a computation, what was computed *)
(* and is not answered yet is current, and the key is no older than the    *)
(* invalidations that are complete; who follows follows one that computes. *)

Answers == Nat \union {NoBody, ErrorBody}

FetchRow == [at : {"new", "asking", "missed", "leading", "computed", "following", "storing", "over"},
             floor : Nat, awaits : Fetches \union {NoFetch}, body : Answers, gone : BOOLEAN]

UpdateRow == [at : {"new", "written", "found", "over"}, number : Nat, found : BOOLEAN]

Committed == {u \in Updates : inval[u].at # "new"}

CacheTyped ==
  /\ truth \in Nat /\ settled \in Nat /\ settled <= truth /\ truth <= Cardinality(Committed)
  /\ cached \in Answers /\ (cached \in Nat => cached <= truth)
  /\ filling \in Fetches \union {NoFetch}
  /\ fetch \in [Fetches -> FetchRow]
  /\ inval \in [Updates -> UpdateRow]
  /\ overtaken \in BOOLEAN /\ left \in BOOLEAN
  /\ \A g \in Fetches : fetch[g].floor <= settled /\ (fetch[g].body \in Nat => fetch[g].body <= truth)
  /\ \A u \in Updates : inval[u].number <= truth

Shared ==
  /\ filling # NoFetch => filling \in Computing
  /\ \A f \in Fetches : fetch[f].at = "following" => fetch[f].awaits \in Computing
  /\ ~left => \A g \in Computing : filling = g

UpToDate ==
  /\ \A g \in Fetches :
       fetch[g].body \in Nat =>
         /\ fetch[g].at \in {"computed", "storing"} => fetch[g].body = truth
         /\ fetch[g].at = "over" => fetch[g].body >= fetch[g].floor
  /\ cached \in Nat => cached >= settled
  /\ \A u \in Updates :
       inval[u].at = "found" /\ ~inval[u].found /\ cached \in Nat => cached >= inval[u].number

CacheInv == CacheTyped /\ Shared /\ (~overtaken => UpToDate)

LEMMA CacheStart == CacheInit => CacheInv
<1> SUFFICES ASSUME CacheInit PROVE CacheInv
  OBVIOUS
<1>1. Unasked \in FetchRow /\ Unasked.at = "new" /\ Unasked.body \notin Nat /\ Unasked.floor = 0
  BY CacheAssumption DEF Unasked, FetchRow, Answers
<1>2. \A g \in Fetches : fetch[g] = Unasked
  BY DEF CacheInit
<1>3. Cardinality(Committed) = 0
  <2>1. Committed = {}
    BY DEF CacheInit, Committed
  <2> QED BY <2>1, FS_EmptySet
<1>4. inval \in [Updates -> UpdateRow] /\ fetch \in [Fetches -> FetchRow]
  BY <1>1 DEF CacheInit, UpdateRow
<1>5. \A u \in Updates : inval[u].at = "new" /\ inval[u].number = 0
  BY DEF CacheInit
<1>6. truth = 0 /\ settled = 0 /\ cached \in Answers /\ cached \notin Nat /\ filling = NoFetch
  BY CacheAssumption DEF CacheInit, Answers
<1>7. overtaken \in BOOLEAN /\ left \in BOOLEAN
  BY DEF CacheInit
<1>8. CacheTyped
  BY <1>1, <1>2, <1>3, <1>4, <1>5, <1>6, <1>7 DEF CacheTyped
<1>9. Computing = {}
  BY <1>1, <1>2 DEF Computing
<1> QED BY <1>1, <1>2, <1>5, <1>6, <1>8, <1>9 DEF CacheInv, Shared, UpToDate

\* A row of fetch that is replaced by another.
LEMMA FetchSet ==
  ASSUME CacheTyped, NEW g \in Fetches, NEW r \in FetchRow,
         fetch' = [fetch EXCEPT ![g] = r]
  PROVE  /\ fetch' \in [Fetches -> FetchRow] /\ fetch'[g] = r
         /\ \A f \in Fetches \ {g} : fetch'[f] = fetch[f]
BY DEF CacheTyped

\* A request that goes to another place, with a new floor, a new body, or one to await.
LEMMA FetchGoes ==
  ASSUME CacheTyped, NEW g \in Fetches, NEW floor \in Nat, NEW body \in Answers,
         NEW awaits \in Fetches \union {NoFetch},
         NEW k \in {"asking", "missed", "leading", "computed", "following", "storing", "over"}
  PROVE  /\ fetch' = [fetch EXCEPT ![g].at = k] =>
              /\ fetch' \in [Fetches -> FetchRow] /\ fetch'[g].at = k
              /\ fetch'[g].floor = fetch[g].floor /\ fetch'[g].body = fetch[g].body
              /\ \A f \in Fetches \ {g} : fetch'[f] = fetch[f]
         /\ fetch' = [fetch EXCEPT ![g].at = k, ![g].floor = floor] =>
              /\ fetch' \in [Fetches -> FetchRow] /\ fetch'[g].at = k
              /\ fetch'[g].floor = floor /\ fetch'[g].body = fetch[g].body
              /\ \A f \in Fetches \ {g} : fetch'[f] = fetch[f]
         /\ fetch' = [fetch EXCEPT ![g].at = k, ![g].body = body] =>
              /\ fetch' \in [Fetches -> FetchRow] /\ fetch'[g].at = k
              /\ fetch'[g].floor = fetch[g].floor /\ fetch'[g].body = body
              /\ \A f \in Fetches \ {g} : fetch'[f] = fetch[f]
         /\ fetch' = [fetch EXCEPT ![g].at = k, ![g].awaits = awaits] =>
              /\ fetch' \in [Fetches -> FetchRow] /\ fetch'[g].at = k /\ fetch'[g].awaits = awaits
              /\ fetch'[g].floor = fetch[g].floor /\ fetch'[g].body = fetch[g].body
              /\ \A f \in Fetches \ {g} : fetch'[f] = fetch[f]
<1>0. DOMAIN fetch = Fetches /\ \A f \in Fetches : fetch[f] \in FetchRow
  BY DEF CacheTyped
<1>1. ASSUME fetch' = [fetch EXCEPT ![g].at = k]
      PROVE  /\ fetch' \in [Fetches -> FetchRow] /\ fetch'[g].at = k
             /\ fetch'[g].floor = fetch[g].floor /\ fetch'[g].body = fetch[g].body
             /\ \A f \in Fetches \ {g} : fetch'[f] = fetch[f]
  <2> DEFINE r == [fetch[g] EXCEPT !.at = k]
  <2>1. r \in FetchRow /\ r.at = k /\ r.floor = fetch[g].floor /\ r.body = fetch[g].body
    BY <1>0 DEF FetchRow
  <2>2. fetch'[g] = r /\ \A f \in Fetches \ {g} : fetch'[f] = fetch[f]
    BY <1>0, <1>1
  <2>3. fetch' = [f \in Fetches |-> fetch'[f]]
    BY <1>0, <1>1
  <2> HIDE DEF r
  <2> QED BY <1>0, <2>1, <2>2, <2>3
<1>2. ASSUME fetch' = [fetch EXCEPT ![g].at = k, ![g].floor = floor]
      PROVE  /\ fetch' \in [Fetches -> FetchRow] /\ fetch'[g].at = k
             /\ fetch'[g].floor = floor /\ fetch'[g].body = fetch[g].body
             /\ \A f \in Fetches \ {g} : fetch'[f] = fetch[f]
  <2> DEFINE r == [fetch[g] EXCEPT !.at = k, !.floor = floor]
  <2>1. r \in FetchRow /\ r.at = k /\ r.floor = floor /\ r.body = fetch[g].body
    BY <1>0 DEF FetchRow
  <2>2. fetch'[g] = r /\ \A f \in Fetches \ {g} : fetch'[f] = fetch[f]
    BY <1>0, <1>2
  <2>3. fetch' = [f \in Fetches |-> fetch'[f]]
    BY <1>0, <1>2
  <2> HIDE DEF r
  <2> QED BY <1>0, <2>1, <2>2, <2>3
<1>3. ASSUME fetch' = [fetch EXCEPT ![g].at = k, ![g].body = body]
      PROVE  /\ fetch' \in [Fetches -> FetchRow] /\ fetch'[g].at = k
             /\ fetch'[g].floor = fetch[g].floor /\ fetch'[g].body = body
             /\ \A f \in Fetches \ {g} : fetch'[f] = fetch[f]
  <2> DEFINE r == [fetch[g] EXCEPT !.at = k, !.body = body]
  <2>1. r \in FetchRow /\ r.at = k /\ r.floor = fetch[g].floor /\ r.body = body
    BY <1>0 DEF FetchRow
  <2>2. fetch'[g] = r /\ \A f \in Fetches \ {g} : fetch'[f] = fetch[f]
    BY <1>0, <1>3
  <2>3. fetch' = [f \in Fetches |-> fetch'[f]]
    BY <1>0, <1>3
  <2> HIDE DEF r
  <2> QED BY <1>0, <2>1, <2>2, <2>3
<1>4. ASSUME fetch' = [fetch EXCEPT ![g].at = k, ![g].awaits = awaits]
      PROVE  /\ fetch' \in [Fetches -> FetchRow] /\ fetch'[g].at = k /\ fetch'[g].awaits = awaits
             /\ fetch'[g].floor = fetch[g].floor /\ fetch'[g].body = fetch[g].body
             /\ \A f \in Fetches \ {g} : fetch'[f] = fetch[f]
  <2> DEFINE r == [fetch[g] EXCEPT !.at = k, !.awaits = awaits]
  <2>1. /\ r \in FetchRow /\ r.at = k /\ r.awaits = awaits
        /\ r.floor = fetch[g].floor /\ r.body = fetch[g].body
    BY <1>0 DEF FetchRow
  <2>2. fetch'[g] = r /\ \A f \in Fetches \ {g} : fetch'[f] = fetch[f]
    BY <1>0, <1>4
  <2>3. fetch' = [f \in Fetches |-> fetch'[f]]
    BY <1>0, <1>4
  <2> HIDE DEF r
  <2> QED BY <1>0, <2>1, <2>2, <2>3
<1> QED BY <1>1, <1>2, <1>3, <1>4

\* A promise that is resolved answers those that await it, and nobody else.
LEMMA FollowersAnswered ==
  ASSUME CacheTyped, NEW g \in Fetches, NEW body \in Answers, NEW after \in [Fetches -> FetchRow],
         \A f \in Fetches \ {g} : after[f] = fetch[f],
         fetch[g].at # "following", fetch' = Resolved(after, g, body)
  PROVE  /\ fetch' \in [Fetches -> FetchRow] /\ fetch'[g] = after[g]
         /\ \A f \in Followers(g) :
              fetch'[f].at = "over" /\ fetch'[f].body = body /\ fetch'[f].floor = fetch[f].floor
         /\ \A f \in Fetches : f # g /\ f \notin Followers(g) => fetch'[f] = fetch[f]
<1> DEFINE Reply(f) == [after[f] EXCEPT !.at = "over", !.body = body]
<1>1. ASSUME NEW f \in Fetches
      PROVE  /\ Reply(f) \in FetchRow /\ Reply(f).at = "over" /\ Reply(f).body = body
             /\ Reply(f).floor = after[f].floor
  <2>1. after[f] \in FetchRow
    OBVIOUS
  <2> QED BY <2>1 DEF FetchRow
<1>2. fetch' = [f \in Fetches |-> IF f \in Followers(g) THEN Reply(f) ELSE after[f]]
  BY DEF Resolved
<1>3. g \notin Followers(g) /\ Followers(g) \subseteq Fetches
  BY DEF Followers
<1> HIDE DEF Reply
<1> QED BY <1>1, <1>2, <1>3

FetchActs(g) ==
  \/ Requested(g) \/ LooksUp(g) \/ Coalesces(g) \/ Computes(g) \/ Responds(g) \/ Stores(g)
  \/ ClientLeaves(g)

\* What a step of a request must leave, given what it does to the rows.
LEMMA FetchesKept ==
  ASSUME CacheInv, fetch' \in [Fetches -> FetchRow], cached' \in Answers,
         filling' \in Fetches \union {NoFetch}, left' = left \/ left' = TRUE,
         UNCHANGED <<truth, inval, settled, overtaken>>,
         cached' = cached \/ cached' = NoBody \/ (cached' \in Nat => cached' <= truth),
         ~overtaken /\ cached' \in Nat => cached' = cached \/ cached' = truth,
         \A g \in Fetches : fetch'[g].floor <= settled,
         \A g \in Fetches : fetch'[g].body \in Nat => fetch'[g].body <= truth,
         ~overtaken =>
           \A g \in Fetches :
             fetch'[g].body \in Nat =>
               /\ fetch'[g].at \in {"computed", "storing"} => fetch'[g].body = truth
               /\ fetch'[g].at = "over" => fetch'[g].body >= fetch'[g].floor,
         Shared'
  PROVE  CacheInv'
<1>0. CacheTyped /\ Shared /\ (~overtaken => UpToDate)
  BY DEF CacheInv
<1>1. CacheTyped'
  <2>1. Committed' = Committed
    BY DEF Committed
  <2>2. left' \in BOOLEAN
    BY <1>0 DEF CacheTyped
  <2>3. cached' \in Nat => cached' <= truth
    BY <1>0, CacheAssumption DEF CacheTyped
  <2> QED BY <1>0, <2>1, <2>2, <2>3 DEF CacheTyped
<1>2. ASSUME ~overtaken' PROVE UpToDate'
  <2>1. UpToDate /\ ~overtaken
    BY <1>0, <1>2
  <2>2. cached' \in Nat => cached' >= settled
    BY <1>0, <2>1 DEF UpToDate, CacheTyped
  <2>3. ASSUME NEW u \in Updates, inval[u].at = "found", ~inval[u].found, cached' \in Nat
        PROVE  cached' >= inval[u].number
    <3>1. inval[u].number \in Nat /\ inval[u].number <= truth /\ truth \in Nat
      BY <1>0 DEF CacheTyped, UpdateRow
    <3> QED BY <2>1, <2>3, <3>1 DEF UpToDate
  <2> QED BY <2>1, <2>2, <2>3 DEF UpToDate
<1> QED BY <1>1, <1>2 DEF CacheInv

LEMMA FetchKeeps ==
  ASSUME CacheInv, NEW g \in Fetches, FetchActs(g)
  PROVE  CacheInv'
<1>0. CacheTyped /\ Shared /\ (~overtaken => UpToDate)
  BY DEF CacheInv
<1>00. /\ truth \in Nat /\ settled \in Nat /\ settled <= truth /\ cached \in Answers
       /\ fetch[g] \in FetchRow /\ fetch[g].floor \in Nat /\ fetch[g].body \in Answers
       /\ fetch[g].floor <= settled /\ filling \in Fetches \union {NoFetch}
       /\ NoFetch \notin Fetches
       /\ \A f \in Fetches : fetch[f].floor \in Nat /\ fetch[f].floor <= settled
  BY <1>0, CacheAssumption DEF CacheTyped, FetchRow
<1>1. CASE Requested(g)
  <2>1. /\ fetch[g].at = "new" /\ fetch' = [fetch EXCEPT ![g].at = "asking", ![g].floor = settled]
        /\ UNCHANGED <<truth, cached, filling, inval, settled, overtaken, left>>
    BY <1>1 DEF Requested
  <2>2. /\ fetch' \in [Fetches -> FetchRow] /\ fetch'[g].at = "asking"
        /\ fetch'[g].floor = settled /\ fetch'[g].body = fetch[g].body
        /\ \A f \in Fetches \ {g} : fetch'[f] = fetch[f]
    BY <1>0, <1>00, <2>1, FetchGoes
  <2>3. Computing' = Computing
    BY <2>1, <2>2 DEF Computing
  <2>4. Shared'
    BY <1>0, <2>1, <2>2, <2>3 DEF Shared
  <2> QED BY <1>0, <1>00, <2>1, <2>2, <2>4, FetchesKept DEF CacheTyped, UpToDate
<1>2. CASE LooksUp(g)
  <2>1. /\ fetch[g].at = "asking"
        /\ \/ cached # NoBody /\ fetch' = [fetch EXCEPT ![g].at = "over", ![g].body = cached]
           \/ fetch' = [fetch EXCEPT ![g].at = "missed"]
        /\ UNCHANGED <<truth, cached, filling, inval, settled, overtaken, left>>
    BY <1>2 DEF LooksUp
  <2>2. /\ fetch' \in [Fetches -> FetchRow] /\ fetch'[g].floor = fetch[g].floor
        /\ \/ fetch'[g].at = "over" /\ fetch'[g].body = cached
           \/ fetch'[g].at = "missed" /\ fetch'[g].body = fetch[g].body
        /\ \A f \in Fetches \ {g} : fetch'[f] = fetch[f]
    <3>1. CASE fetch' = [fetch EXCEPT ![g].at = "over", ![g].body = cached]
      BY <1>0, <1>00, <3>1, FetchGoes
    <3>2. CASE fetch' = [fetch EXCEPT ![g].at = "missed"]
      BY <1>0, <1>00, <3>2, FetchGoes
    <3> QED BY <2>1, <3>1, <3>2
  <2>3. Computing' = Computing
    BY <2>1, <2>2 DEF Computing
  <2>4. Shared'
    BY <1>0, <2>1, <2>2, <2>3 DEF Shared
  <2>5. ~overtaken /\ cached \in Nat => cached >= fetch[g].floor
    BY <1>0, <1>00 DEF UpToDate
  <2> QED BY <1>0, <1>00, <2>1, <2>2, <2>4, <2>5, FetchesKept DEF CacheTyped, UpToDate
<1>3. CASE Coalesces(g)
  <2>1. /\ fetch[g].at = "missed"
        /\ \/ /\ filling # NoFetch /\ filling' = filling
              /\ fetch' = [fetch EXCEPT ![g].at = "following", ![g].awaits = filling]
           \/ /\ filling = NoFetch /\ filling' = g
              /\ fetch' = [fetch EXCEPT ![g].at = "leading"]
        /\ UNCHANGED <<truth, cached, inval, settled, overtaken, left>>
    BY <1>3 DEF Coalesces
  <2>2. /\ fetch' \in [Fetches -> FetchRow]
        /\ fetch'[g].floor = fetch[g].floor /\ fetch'[g].body = fetch[g].body
        /\ \A f \in Fetches \ {g} : fetch'[f] = fetch[f]
        /\ \/ /\ filling # NoFetch /\ filling' = filling
              /\ fetch'[g].at = "following" /\ fetch'[g].awaits = filling
           \/ filling = NoFetch /\ filling' = g /\ fetch'[g].at = "leading"
    <3>1. CASE filling # NoFetch
      <4>1. /\ fetch' = [fetch EXCEPT ![g].at = "following", ![g].awaits = filling]
            /\ filling \in Fetches /\ filling' = filling
        BY <1>00, <2>1, <3>1
      <4>2. /\ fetch' \in [Fetches -> FetchRow]
            /\ fetch'[g].at = "following" /\ fetch'[g].awaits = filling
            /\ fetch'[g].floor = fetch[g].floor /\ fetch'[g].body = fetch[g].body
            /\ \A f \in Fetches \ {g} : fetch'[f] = fetch[f]
        BY <1>0, <1>00, <4>1, FetchGoes
      <4> QED BY <3>1, <4>1, <4>2
    <3>2. CASE filling = NoFetch
      BY <1>0, <1>00, <2>1, <3>2, FetchGoes
    <3> QED BY <3>1, <3>2
  <2>3. Shared'
    <3>1. CASE filling # NoFetch
      <4>1. Computing' = Computing
        BY <2>1, <2>2, <3>1 DEF Computing
      <4> QED BY <1>0, <2>1, <2>2, <3>1, <4>1 DEF Shared
    <3>2. CASE filling = NoFetch
      <4>1. /\ \A f \in Computing : f \in Computing' /\ g \in Computing'
            /\ \A f \in Computing' : f \in Computing \/ f = g
        BY <2>1, <2>2, <3>2 DEF Computing
      <4>2. g \in Computing' /\ Computing \subseteq Fetches
        BY <2>2, <3>2 DEF Computing
      <4>3. ~left => Computing = {}
        BY <1>0, <1>00, <3>2, <4>2 DEF Shared
      <4> QED BY <1>0, <1>00, <2>1, <2>2, <3>2, <4>1, <4>2, <4>3 DEF Shared
    <3> QED BY <3>1, <3>2
  <2> QED BY <1>0, <1>00, <2>1, <2>2, <2>3, FetchesKept DEF CacheTyped, UpToDate
<1>4. CASE Computes(g)
  <2>1. PICK b \in {truth, ErrorBody} :
          /\ fetch[g].at = "leading"
          /\ fetch' = [fetch EXCEPT ![g].at = "computed", ![g].body = b]
          /\ UNCHANGED <<truth, cached, filling, inval, settled, overtaken, left>>
    BY <1>4 DEF Computes
  <2>2. b \in Answers /\ (b \in Nat => b = truth)
    BY <1>00, CacheAssumption DEF Answers
  <2>3. /\ fetch' \in [Fetches -> FetchRow] /\ fetch'[g].at = "computed"
        /\ fetch'[g].floor = fetch[g].floor /\ fetch'[g].body = b
        /\ \A f \in Fetches \ {g} : fetch'[f] = fetch[f]
    BY <1>0, <1>00, <2>1, <2>2, FetchGoes
  <2>4. Computing' = Computing
    BY <2>1, <2>3 DEF Computing
  <2>5. Shared'
    BY <1>0, <2>1, <2>3, <2>4 DEF Shared
  <2> QED BY <1>0, <1>00, <2>1, <2>2, <2>3, <2>5, FetchesKept DEF CacheTyped, UpToDate
<1>5. CASE Responds(g)
  <2> DEFINE after == [fetch EXCEPT ![g].at = "storing"]
  <2>1. /\ fetch[g].at = "computed" /\ filling' = NoFetch
        /\ fetch' = Resolved(after, g, fetch[g].body)
        /\ UNCHANGED <<truth, cached, inval, settled, overtaken, left>>
    BY <1>5 DEF Responds
  <2>2. /\ after \in [Fetches -> FetchRow] /\ after[g].at = "storing"
        /\ after[g].floor = fetch[g].floor /\ after[g].body = fetch[g].body
        /\ \A f \in Fetches \ {g} : after[f] = fetch[f]
    <3> DEFINE r == [fetch[g] EXCEPT !.at = "storing"]
    <3>1. r \in FetchRow /\ r.at = "storing" /\ r.floor = fetch[g].floor /\ r.body = fetch[g].body
      BY <1>00 DEF FetchRow
    <3>2. after = [fetch EXCEPT ![g] = r] /\ fetch \in [Fetches -> FetchRow]
      BY <1>0 DEF CacheTyped
    <3> HIDE DEF r, after
    <3> QED BY <3>1, <3>2
  <2> HIDE DEF after
  <2>3. /\ fetch' \in [Fetches -> FetchRow] /\ fetch'[g] = after[g]
        /\ \A f \in Followers(g) :
             /\ fetch'[f].at = "over" /\ fetch'[f].body = fetch[g].body
             /\ fetch'[f].floor = fetch[f].floor
        /\ \A f \in Fetches : f # g /\ f \notin Followers(g) => fetch'[f] = fetch[f]
    BY <1>0, <1>00, <2>1, <2>2, FollowersAnswered
  <2>4. \A f \in Fetches \ {g} : f \in Computing' <=> f \in Computing
    BY <2>3 DEF Computing, Followers
  <2>5. Shared'
    <3>1. ASSUME NEW f \in Fetches, fetch'[f].at = "following" PROVE fetch'[f].awaits \in Computing'
      <4>1. f # g /\ f \notin Followers(g) /\ fetch'[f] = fetch[f]
        BY <2>2, <2>3, <3>1
      <4>2. fetch[f].awaits \in Computing /\ fetch[f].awaits # g
        BY <1>0, <3>1, <4>1 DEF Shared, Followers
      <4>3. Computing \subseteq Fetches
        BY DEF Computing
      <4> QED BY <2>4, <4>1, <4>2, <4>3
    <3>2. ~left => \A f \in Computing' : FALSE
      <4>1. g \in Computing /\ g \notin Computing' /\ Computing' \subseteq Fetches
        BY <2>1, <2>2, <2>3 DEF Computing
      <4> QED BY <1>0, <2>4, <4>1 DEF Shared
    <3> QED BY <2>1, <3>1, <3>2 DEF Shared
  <2>6. Followers(g) \subseteq Fetches /\ fetch[g].body \in Nat => fetch[g].body <= truth
    BY <1>0 DEF CacheTyped
  <2>7. ASSUME NEW f \in Fetches
        PROVE  /\ fetch'[f].floor <= settled
               /\ fetch'[f].body \in Nat => fetch'[f].body <= truth
               /\ ~overtaken /\ fetch'[f].body \in Nat =>
                    /\ fetch'[f].at \in {"computed", "storing"} => fetch'[f].body = truth
                    /\ fetch'[f].at = "over" => fetch'[f].body >= fetch'[f].floor
    <3>1. CASE f \in Followers(g)
      BY <1>0, <1>00, <2>1, <2>3, <3>1 DEF CacheTyped, UpToDate
    <3>2. CASE f = g
      BY <1>0, <1>00, <2>1, <2>2, <2>3, <3>2 DEF CacheTyped, UpToDate
    <3>3. CASE f # g /\ f \notin Followers(g)
      BY <1>0, <2>3, <3>3 DEF CacheTyped, UpToDate
    <3> QED BY <3>1, <3>2, <3>3
  <2> QED BY <1>0, <1>00, <2>1, <2>3, <2>5, <2>7, FetchesKept DEF CacheTyped
<1>6. CASE Stores(g)
  <2>1. /\ fetch[g].at = "storing" /\ fetch' = [fetch EXCEPT ![g].at = "over"]
        /\ cached' = fetch[g].body \/ cached' = cached
        /\ UNCHANGED <<truth, filling, inval, settled, overtaken, left>>
    BY <1>6 DEF Stores
  <2>2. /\ fetch' \in [Fetches -> FetchRow] /\ fetch'[g].at = "over"
        /\ fetch'[g].floor = fetch[g].floor /\ fetch'[g].body = fetch[g].body
        /\ \A f \in Fetches \ {g} : fetch'[f] = fetch[f]
    BY <1>0, <1>00, <2>1, FetchGoes
  <2>3. Computing' = Computing
    BY <2>1, <2>2 DEF Computing
  <2>4. Shared'
    BY <1>0, <2>1, <2>2, <2>3 DEF Shared
  <2>5. ~overtaken /\ fetch[g].body \in Nat => fetch[g].body = truth /\ truth >= fetch[g].floor
    BY <1>0, <1>00, <2>1 DEF UpToDate
  <2>6. fetch[g].body \in Nat => fetch[g].body <= truth
    BY <1>0 DEF CacheTyped
  <2> QED BY <1>0, <1>00, <2>1, <2>2, <2>4, <2>5, <2>6, FetchesKept DEF CacheTyped, UpToDate
<1>7. CASE ClientLeaves(g)
  <2> DEFINE closed == [fetch EXCEPT ![g].gone = TRUE]
  <2>1. /\ g \in Computing /\ left' = TRUE /\ UNCHANGED <<truth, cached, inval, settled, overtaken>>
        /\ \/ filling' = NoFetch /\ fetch' = Resolved(closed, g, ErrorBody)
           \/ filling' = filling /\ fetch' = closed
    BY <1>7 DEF ClientLeaves
  <2>2. /\ closed \in [Fetches -> FetchRow] /\ closed[g].at = fetch[g].at
        /\ closed[g].floor = fetch[g].floor /\ closed[g].body = fetch[g].body
        /\ \A f \in Fetches \ {g} : closed[f] = fetch[f]
    <3> DEFINE r == [fetch[g] EXCEPT !.gone = TRUE]
    <3>1. /\ r \in FetchRow /\ r.at = fetch[g].at /\ r.floor = fetch[g].floor
          /\ r.body = fetch[g].body
      BY <1>00 DEF FetchRow
    <3>2. closed = [fetch EXCEPT ![g] = r] /\ fetch \in [Fetches -> FetchRow]
      BY <1>0 DEF CacheTyped
    <3> HIDE DEF r, closed
    <3> QED BY <3>1, <3>2
  <2> HIDE DEF closed
  <2>3. fetch[g].at \in {"leading", "computed"} /\ ErrorBody \in Answers /\ ErrorBody \notin Nat
    BY <2>1, CacheAssumption DEF Computing, Answers
  <2>4. /\ fetch' \in [Fetches -> FetchRow] /\ fetch'[g] = closed[g]
        /\ \A f \in Fetches \ {g} :
             \/ fetch'[f] = fetch[f]
             \/ /\ f \in Followers(g) /\ fetch'[f].at = "over" /\ fetch'[f].body = ErrorBody
                /\ fetch'[f].floor = fetch[f].floor
    <3>1. CASE fetch' = Resolved(closed, g, ErrorBody)
      BY <1>0, <2>2, <2>3, <3>1, FollowersAnswered
    <3>2. CASE fetch' = closed
      BY <2>2, <3>2
    <3> QED BY <2>1, <3>1, <3>2
  <2>5. Computing' = Computing
    BY <2>2, <2>3, <2>4 DEF Computing, Followers
  <2>6. Shared'
    <3>1. ASSUME NEW f \in Fetches, fetch'[f].at = "following" PROVE fetch'[f].awaits \in Computing
      <4>1. fetch'[f] = fetch[f]
        BY <2>2, <2>3, <2>4, <3>1
      <4> QED BY <1>0, <3>1, <4>1 DEF Shared
    <3> QED BY <1>0, <2>1, <2>5, <3>1 DEF Shared
  <2>7. ASSUME NEW f \in Fetches
        PROVE  /\ fetch'[f].floor <= settled
               /\ fetch'[f].body \in Nat => fetch'[f].body <= truth
               /\ ~overtaken /\ fetch'[f].body \in Nat =>
                    /\ fetch'[f].at \in {"computed", "storing"} => fetch'[f].body = truth
                    /\ fetch'[f].at = "over" => fetch'[f].body >= fetch'[f].floor
    BY <1>0, <1>00, <2>2, <2>3, <2>4 DEF CacheTyped, UpToDate
  <2> QED BY <1>0, <1>00, <2>1, <2>4, <2>6, <2>7, FetchesKept DEF CacheTyped
<1> QED BY <1>1, <1>2, <1>3, <1>4, <1>5, <1>6, <1>7 DEF FetchActs

\* A row of inval that moves on stays committed.
LEMMA UpdateMoves ==
  ASSUME CacheTyped, NEW u \in Updates, NEW k \in {"found", "over"}, NEW b \in BOOLEAN,
         inval[u].at # "new",
         \/ inval' = [inval EXCEPT ![u].at = k]
         \/ inval' = [inval EXCEPT ![u].at = k, ![u].found = b]
  PROVE  /\ inval' \in [Updates -> UpdateRow] /\ inval'[u].at = k
         /\ inval'[u].number = inval[u].number
         /\ inval' = [inval EXCEPT ![u].at = k, ![u].found = b] => inval'[u].found = b
         /\ \A v \in Updates \ {u} : inval'[v] = inval[v]
         /\ Committed' = Committed
<1>0. DOMAIN inval = Updates /\ \A v \in Updates : inval[v] \in UpdateRow
  BY DEF CacheTyped
<1>1. CASE inval' = [inval EXCEPT ![u].at = k]
  <2> DEFINE r == [inval[u] EXCEPT !.at = k]
  <2>1. r \in UpdateRow /\ r.at = k /\ r.number = inval[u].number
    BY <1>0 DEF UpdateRow
  <2>2. inval' = [inval EXCEPT ![u] = r]
    BY <1>1
  <2>3. inval' = [inval EXCEPT ![u].at = k, ![u].found = b] => inval'[u].found = b
    BY <1>0
  <2> HIDE DEF r
  <2>4. /\ inval' \in [Updates -> UpdateRow] /\ inval'[u] = r
        /\ \A v \in Updates \ {u} : inval'[v] = inval[v]
    BY <2>1, <2>2 DEF CacheTyped
  <2>5. Committed' = Committed
    BY <2>1, <2>4 DEF Committed
  <2> QED BY <2>1, <2>3, <2>4, <2>5
<1>2. CASE inval' = [inval EXCEPT ![u].at = k, ![u].found = b]
  <2> DEFINE r == [inval[u] EXCEPT !.at = k, !.found = b]
  <2>1. r \in UpdateRow /\ r.at = k /\ r.found = b /\ r.number = inval[u].number
    BY <1>0 DEF UpdateRow
  <2>2. inval'[u] = r /\ \A v \in Updates \ {u} : inval'[v] = inval[v]
    BY <1>0, <1>2
  <2>3. inval' = [v \in Updates |-> inval'[v]]
    BY <1>0, <1>2
  <2> HIDE DEF r
  <2>4. inval' \in [Updates -> UpdateRow]
    BY <1>0, <2>1, <2>2, <2>3
  <2>5. Committed' = Committed
    BY <2>1, <2>2 DEF Committed
  <2> QED BY <2>1, <2>2, <2>4, <2>5
<1> QED BY <1>1, <1>2

LEMMA SameFetches ==
  ASSUME Shared, UNCHANGED <<fetch, filling, left>>
  PROVE  Shared'
BY DEF Shared, Computing

LEMMA CommitKeeps ==
  ASSUME CacheInv, NEW u \in Updates, Commits(u)
  PROVE  CacheInv'
<1>0. CacheTyped /\ Shared /\ (~overtaken => UpToDate)
  BY DEF CacheInv
<1>1. /\ inval[u].at = "new" /\ truth' = truth + 1
      /\ inval' = [inval EXCEPT ![u] = [at |-> "written", number |-> truth + 1, found |-> FALSE]]
      /\ overtaken' = (overtaken \/ \E g \in Fetches : fetch[g].at \in {"computed", "storing"})
      /\ UNCHANGED <<cached, filling, fetch, settled, left>>
  BY DEF Commits
<1>2. truth \in Nat /\ settled \in Nat /\ settled <= truth /\ truth <= Cardinality(Committed)
  BY <1>0 DEF CacheTyped
<1>3. /\ inval' \in [Updates -> UpdateRow] /\ inval'[u].at = "written"
      /\ inval'[u].number = truth + 1 /\ \A v \in Updates \ {u} : inval'[v] = inval[v]
  <2> DEFINE r == [at |-> "written", number |-> truth + 1, found |-> FALSE]
  <2>1. r \in UpdateRow /\ r.at = "written" /\ r.number = truth + 1
    BY <1>2 DEF UpdateRow
  <2>2. inval \in [Updates -> UpdateRow] /\ inval' = [inval EXCEPT ![u] = r]
    BY <1>0, <1>1 DEF CacheTyped
  <2> HIDE DEF r
  <2> QED BY <2>1, <2>2
<1>4. truth' <= Cardinality(Committed')
  <2>1. Committed' = Committed \cup {u} /\ u \notin Committed /\ Committed \subseteq Updates
    BY <1>1, <1>3 DEF Committed
  <2>2. IsFiniteSet(Committed)
    BY <2>1, CacheAssumption, FS_Subset
  <2>3. Cardinality(Committed \cup {u}) = Cardinality(Committed) + 1
        /\ Cardinality(Committed) \in Nat
    BY <2>1, <2>2, FS_AddElement, FS_CardinalityType
  <2> QED BY <1>1, <1>2, <2>1, <2>3
<1>5. CacheTyped'
  <2>1. cached \in Nat => cached <= truth + 1
    BY <1>0, <1>2 DEF CacheTyped
  <2>2. \A g \in Fetches : fetch[g].body \in Nat => fetch[g].body <= truth + 1
    BY <1>0, <1>2 DEF CacheTyped
  <2>3. \A v \in Updates : inval'[v].number <= truth + 1
    BY <1>0, <1>2, <1>3 DEF CacheTyped, UpdateRow
  <2>4. settled <= truth + 1 /\ truth + 1 \in Nat /\ overtaken' \in BOOLEAN
    BY <1>1, <1>2
  <2> QED BY <1>0, <1>1, <1>3, <1>4, <2>1, <2>2, <2>3, <2>4 DEF CacheTyped
<1>6. Shared'
  BY <1>0, <1>1, SameFetches
<1>7. ASSUME ~overtaken' PROVE UpToDate'
  <2>1. UpToDate /\ \A g \in Fetches : fetch[g].at \notin {"computed", "storing"}
    BY <1>0, <1>1, <1>7
  <2> QED BY <1>1, <1>3, <2>1 DEF UpToDate
<1> QED BY <1>5, <1>6, <1>7 DEF CacheInv

LEMMA InvalidationKeeps ==
  ASSUME CacheInv, NEW u \in Updates, FindsKeys(u) \/ DeletesKeys(u)
  PROVE  CacheInv'
<1>0. CacheTyped /\ Shared /\ (~overtaken => UpToDate)
  BY DEF CacheInv
<1>1. /\ truth \in Nat /\ settled \in Nat /\ settled <= truth /\ inval[u] \in UpdateRow
      /\ inval[u].number \in Nat /\ inval[u].number <= truth
      /\ NoBody \in Answers /\ NoBody \notin Nat
      /\ \A g \in Fetches : fetch[g].floor \in Nat /\ fetch[g].floor <= settled
  BY <1>0, CacheAssumption DEF CacheTyped, FetchRow, UpdateRow, Answers
<1>2. CASE FindsKeys(u)
  <2>1. PICK k \in {"found", "over"} :
          /\ inval[u].at = "written"
          /\ inval' = [inval EXCEPT ![u].at = k, ![u].found = (cached # NoBody)]
          /\ UNCHANGED <<truth, cached, filling, fetch, settled, overtaken, left>>
    BY <1>2 DEF FindsKeys
  <2> DEFINE b == cached # NoBody
  <2>2. b \in BOOLEAN /\ inval' = [inval EXCEPT ![u].at = k, ![u].found = b]
    BY <2>1
  <2>3. ~b => cached \notin Nat
    BY <1>1
  <2> HIDE DEF b
  <2>4. /\ inval' \in [Updates -> UpdateRow] /\ inval'[u].at = k
        /\ inval'[u].number = inval[u].number /\ inval'[u].found = b
        /\ \A v \in Updates \ {u} : inval'[v] = inval[v]
        /\ Committed' = Committed
    BY <1>0, <2>1, <2>2, UpdateMoves
  <2>5. CacheTyped'
    <3>1. \A v \in Updates : inval'[v].number <= truth
      BY <1>0, <2>4 DEF CacheTyped
    <3> QED BY <1>0, <2>1, <2>4, <3>1 DEF CacheTyped
  <2>6. Shared'
    BY <1>0, <2>1, SameFetches
  <2>7. ASSUME ~overtaken' PROVE UpToDate'
    BY <1>0, <2>1, <2>3, <2>4, <2>7 DEF UpToDate
  <2> QED BY <2>5, <2>6, <2>7 DEF CacheInv
<1>3. CASE DeletesKeys(u)
  <2>1. /\ inval[u].at = "found" /\ inval' = [inval EXCEPT ![u].at = "over"]
        /\ UNCHANGED <<truth, filling, fetch, overtaken, left>>
        /\ \/ /\ cached' = (IF inval[u].found THEN NoBody ELSE cached)
              /\ settled' = (IF inval[u].number > settled THEN inval[u].number ELSE settled)
           \/ cached' = cached /\ settled' = settled
    BY <1>3 DEF DeletesKeys
  <2>2. /\ inval' \in [Updates -> UpdateRow] /\ inval'[u].at = "over"
        /\ inval'[u].number = inval[u].number
        /\ \A v \in Updates \ {u} : inval'[v] = inval[v]
        /\ Committed' = Committed
    BY <1>0, <2>1, UpdateMoves
  <2>3. /\ settled' \in Nat /\ settled <= settled' /\ settled' <= truth
        /\ settled' = settled \/ (settled' = inval[u].number /\ (inval[u].found => cached' = NoBody))
        /\ cached' = cached \/ cached' = NoBody
    BY <1>1, <2>1
  <2>4. CacheTyped'
    <3>1. \A v \in Updates : inval'[v].number <= truth
      BY <1>0, <2>2 DEF CacheTyped
    <3>2. \A g \in Fetches : fetch[g].floor <= settled'
      BY <1>1, <2>3
    <3>3. cached' \in Answers /\ (cached' \in Nat => cached' <= truth)
      BY <1>0, <1>1, <2>3 DEF CacheTyped
    <3> QED BY <1>0, <2>1, <2>2, <2>3, <3>1, <3>2, <3>3 DEF CacheTyped
  <2>5. Shared'
    BY <1>0, <2>1, SameFetches
  <2>6. ASSUME ~overtaken' PROVE UpToDate'
    <3>1. UpToDate
      BY <1>0, <2>1, <2>6
    <3>2. cached' \in Nat => cached' = cached /\ cached >= settled'
      BY <1>1, <2>1, <2>3, <3>1 DEF UpToDate
    <3> QED BY <2>1, <2>2, <3>1, <3>2 DEF UpToDate
  <2> QED BY <2>4, <2>5, <2>6 DEF CacheInv
<1> QED BY <1>2, <1>3

LEMMA CacheKeeps == CacheInv /\ [CacheNext]_cacheVars => CacheInv'
<1> SUFFICES ASSUME CacheInv, [CacheNext]_cacheVars PROVE CacheInv'
  OBVIOUS
<1>0. CacheTyped /\ Shared /\ (~overtaken => UpToDate)
  BY DEF CacheInv
<1>1. ASSUME NEW g \in Fetches, FetchActs(g) PROVE CacheInv'
  BY <1>1, FetchKeeps
<1>2. ASSUME NEW u \in Updates, Commits(u) \/ FindsKeys(u) \/ DeletesKeys(u) PROVE CacheInv'
  BY <1>2, CommitKeeps, InvalidationKeeps
<1>3. ASSUME UNCHANGED <<truth, filling, fetch, inval, settled, overtaken, left>>,
             cached' = cached \/ cached' = NoBody
      PROVE  CacheInv'
  <2>1. NoBody \in Answers /\ NoBody \notin Nat
    BY CacheAssumption DEF Answers
  <2>2. CacheTyped'
    BY <1>0, <1>3, <2>1 DEF CacheTyped, Committed
  <2>3. Shared'
    BY <1>0, <1>3, SameFetches
  <2>4. ~overtaken' => UpToDate'
    BY <1>0, <1>3, <2>1 DEF UpToDate
  <2> QED BY <2>2, <2>3, <2>4 DEF CacheInv
<1>4. CASE KeyExpires \/ UNCHANGED cacheVars
  BY <1>3, <1>4 DEF KeyExpires, cacheVars
<1> QED BY <1>1, <1>2, <1>4 DEF CacheNext, FetchActs

LEMMA CacheSuffices == CacheInv => CacheTypeOK /\ NothingOutdated /\ OneComputes
<1> SUFFICES ASSUME CacheInv PROVE CacheTypeOK /\ NothingOutdated /\ OneComputes
  OBVIOUS
<1>0. CacheTyped /\ Shared /\ (~overtaken => UpToDate)
  BY DEF CacheInv
<1>1. Cardinality(Updates) \in Nat /\ truth \in 0 .. Cardinality(Updates)
  <2>1. Committed \subseteq Updates
    BY DEF Committed
  <2>2. /\ Cardinality(Committed) <= Cardinality(Updates) /\ Cardinality(Updates) \in Nat
        /\ Cardinality(Committed) \in Nat
    BY <2>1, CacheAssumption, FS_Subset, FS_CardinalityType
  <2> QED BY <1>0, <2>2 DEF CacheTyped
<1> DEFINE Given == 0 .. Cardinality(Updates) \union {NoBody, ErrorBody}
<1>2. \A b \in Answers : (b \in Nat => b <= truth) => b \in Given
  BY <1>1 DEF Answers
<1>3. settled \in 0 .. truth /\ cached \in Given
  BY <1>0, <1>1, <1>2 DEF CacheTyped
<1>4. fetch \in [Fetches -> [at : {"new", "asking", "missed", "leading", "computed", "following",
                                   "storing", "over"}, floor : 0 .. truth,
                             awaits : Fetches \union {NoFetch}, body : Given, gone : BOOLEAN]]
  <2>1. ASSUME NEW g \in Fetches
        PROVE  fetch[g] \in [at : {"new", "asking", "missed", "leading", "computed", "following",
                                   "storing", "over"}, floor : 0 .. truth,
                             awaits : Fetches \union {NoFetch}, body : Given, gone : BOOLEAN]
    <3>1. fetch[g] \in FetchRow /\ fetch[g].floor <= settled /\ settled <= truth
          /\ settled \in Nat /\ (fetch[g].body \in Nat => fetch[g].body <= truth)
      BY <1>0 DEF CacheTyped
    <3>2. fetch[g].floor \in 0 .. truth /\ fetch[g].body \in Given
      BY <1>1, <1>2, <3>1 DEF FetchRow
    <3> HIDE DEF Given
    <3> QED BY <3>1, <3>2 DEF FetchRow
  <2>2. fetch \in [Fetches -> FetchRow]
    BY <1>0 DEF CacheTyped
  <2> HIDE DEF Given
  <2> QED BY <2>1, <2>2
<1>5. inval \in [Updates -> [at : {"new", "written", "found", "over"}, number : 0 .. truth,
                             found : BOOLEAN]]
  <2>1. ASSUME NEW u \in Updates
        PROVE  inval[u] \in [at : {"new", "written", "found", "over"}, number : 0 .. truth,
                             found : BOOLEAN]
    BY <1>0, <1>1 DEF CacheTyped, UpdateRow
  <2> QED BY <1>0, <2>1 DEF CacheTyped
<1>6. CacheTypeOK
  BY <1>0, <1>1, <1>3, <1>4, <1>5 DEF CacheTyped, CacheTypeOK
<1>7. NothingOutdated
  BY <1>0 DEF UpToDate, NothingOutdated
<1>8. OneComputes
  <2>1. ASSUME NEW g, Followers(g) # {} PROVE g \in Computing
    BY <1>0, <2>1 DEF Shared, Followers
  <2>2. ASSUME ~left PROVE Cardinality(Computing) <= 1
    <3>1. \A a, b \in Computing : a = b
      BY <1>0, <2>2 DEF Shared
    <3> QED BY <3>1, AtMostOne
  <2> QED BY <2>1, <2>2 DEF OneComputes
<1> QED BY <1>6, <1>7, <1>8

-------------------------------------------------------------------------------
(* The family *)

FamilyInv ==
  /\ SessionInv /\ CycleInv /\ DaemonInv /\ PodInv /\ ReviewInv /\ AuditInv
  /\ StakingInv /\ PricesInv /\ AttInv
  /\ HookInv /\ DigestInv /\ QueueInv /\ MobileInv
  /\ SubmissionInv /\ FlowInv /\ CacheInv

\* The contracts share the ledger clock: a step of one closes a ledger or leaves it alone.
LEMMA ClockMoves ==
  ASSUME StakingNext \/ PricesNext \/ AttNext
  PROVE  Closes \/ UNCHANGED now
<1>1. ASSUME StakingNext PROVE Closes \/ UNCHANGED now
  BY <1>1, Zenon
  DEF StakingNext, StakingCloses, ManageReporters, ConfigureStaking, Stake, Slash, Unstake
<1>2. ASSUME PricesNext PROVE Closes \/ UNCHANGED now
  BY <1>2 DEF PricesNext, PricesClose, ReportPrice, SetTwapWindow, AddSourceOracle,
              RemoveSourceOracle, GetAggregatedPrice
<1>3. ASSUME AttNext PROVE Closes \/ UNCHANGED now
  BY <1>3 DEF AttNext, AttestationCloses, SetRelayer, Pause, UpgradeAttestation, AddAllowedChain,
              RemoveAllowedChain, RecordAttestations, VerifyAttestation, RevokeAttestation
<1> QED BY <1>1, <1>2, <1>3

\* A step of the family is a step of one part, and each of the others stutters.
LEMMA StepsOfParts ==
  ASSUME [SatelliteNext]_satelliteVars
  PROVE  /\ [SessionNext]_sessionVars /\ [CycleNext]_cycleVars /\ [AuditNext]_auditVars
         /\ [DaemonNext]_daemonVars /\ [JobNext]_jobVars /\ [ReviewNext]_reviewVars
         /\ [StakingNext]_stakeVars /\ [PricesNext]_priceVars /\ [AttNext]_attVars
         /\ [HookNext]_hookVars /\ [DigestNext]_digestVars
         /\ [QueueNext]_queueVars /\ [MobileNext]_mobileVars
         /\ [SubmissionNext]_subVars /\ [FlowNext]_flowVars /\ [CacheNext]_cacheVars
<1>1. CASE SatelliteNext
  <2>1. [SessionNext]_sessionVars
    BY <1>1 DEF SatelliteNext
  <2>2. [CycleNext]_cycleVars
    BY <1>1 DEF SatelliteNext
  <2>3. [AuditNext]_auditVars
    BY <1>1 DEF SatelliteNext
  <2>4. [DaemonNext]_daemonVars
    BY <1>1 DEF SatelliteNext
  <2>5. [JobNext]_jobVars
    BY <1>1 DEF SatelliteNext
  <2>6. [ReviewNext]_reviewVars
    BY <1>1 DEF SatelliteNext
  <2>7. ASSUME ~StakingNext PROVE [StakingNext]_stakeVars
    <3>1. UNCHANGED staking /\ (UNCHANGED now \/ PricesNext \/ AttNext)
      BY <1>1, <2>7 DEF SatelliteNext
    <3> QED BY <3>1, ClockMoves DEF stakeVars, staking, StakingNext, StakingCloses
  <2>8. ASSUME ~PricesNext PROVE [PricesNext]_priceVars
    <3>1. UNCHANGED pricing /\ (UNCHANGED now \/ StakingNext \/ AttNext)
      BY <1>1, <2>8 DEF SatelliteNext
    <3> QED BY <3>1, ClockMoves DEF priceVars, pricing, feedVars, PricesNext, PricesClose
  <2>9. ASSUME ~AttNext PROVE [AttNext]_attVars
    <3>1. UNCHANGED attesting /\ (UNCHANGED now \/ StakingNext \/ PricesNext)
      BY <1>1, <2>9 DEF SatelliteNext
    <3> QED BY <3>1, ClockMoves
            DEF attVars, attesting, setUp, attested, AttNext, AttestationCloses
  <2>10. [HookNext]_hookVars /\ [DigestNext]_digestVars
    BY <1>1 DEF SatelliteNext
  <2>11. [QueueNext]_queueVars /\ [MobileNext]_mobileVars
    BY <1>1 DEF SatelliteNext
  <2>12. [SubmissionNext]_subVars
    BY <1>1 DEF SatelliteNext
  <2>13. [FlowNext]_flowVars /\ [CacheNext]_cacheVars
    BY <1>1 DEF SatelliteNext
  <2> QED BY <2>1, <2>2, <2>3, <2>4, <2>5, <2>6, <2>7, <2>8, <2>9, <2>10, <2>11, <2>12, <2>13
<1>2. CASE UNCHANGED satelliteVars
  BY <1>2 DEF satelliteVars, stakeVars, staking, priceVars, pricing, feedVars, attVars, attesting,
              setUp, attested
<1> QED BY <1>1, <1>2

LEMMA FamilyKeeps == FamilyInv /\ [SatelliteNext]_satelliteVars => FamilyInv'
<1> SUFFICES ASSUME FamilyInv, [SatelliteNext]_satelliteVars PROVE FamilyInv'
  OBVIOUS
<1>1. /\ [SessionNext]_sessionVars /\ [CycleNext]_cycleVars /\ [AuditNext]_auditVars
      /\ [DaemonNext]_daemonVars /\ [JobNext]_jobVars /\ [ReviewNext]_reviewVars
      /\ [StakingNext]_stakeVars /\ [PricesNext]_priceVars /\ [AttNext]_attVars
      /\ [HookNext]_hookVars /\ [DigestNext]_digestVars
      /\ [QueueNext]_queueVars /\ [MobileNext]_mobileVars
      /\ [SubmissionNext]_subVars /\ [FlowNext]_flowVars /\ [CacheNext]_cacheVars
  BY StepsOfParts
<1>2. SessionInv' /\ CycleInv' /\ AuditInv' /\ DaemonInv' /\ PodInv' /\ ReviewInv'
  BY <1>1, SessionKeeps, CycleKeeps, AuditKeeps, DaemonKeeps, PodKeeps, ReviewKeeps DEF FamilyInv
<1>3. StakingInv' /\ PricesInv' /\ AttInv'
  BY <1>1, StakingKeeps, PricesKeep, AttestationKeeps DEF FamilyInv
<1>4. HookInv' /\ DigestInv' /\ QueueInv' /\ MobileInv'
  BY <1>1, HookKeeps, DigestKeeps, QueueKeeps, MobileKeeps DEF FamilyInv
<1>5. SubmissionInv' /\ FlowInv' /\ CacheInv'
  BY <1>1, SubmissionKeeps, FlowKeeps, CacheKeeps DEF FamilyInv
<1> QED BY <1>2, <1>3, <1>4, <1>5 DEF FamilyInv

LEMMA FamilyAlways == SatelliteSpec => []FamilyInv
<1>1. SatelliteInit => FamilyInv
  BY SessionStart, CycleStart, AuditStart, DaemonStart, PodStart, ReviewStart, StakingStart,
     PricesStart, AttestationStart, HookStart, DigestStart, QueueStart, MobileStart,
     SubmissionStart, FlowStart, CacheStart
  DEF SatelliteInit, FamilyInv
<1> QED BY <1>1, FamilyKeeps, PTL DEF SatelliteSpec

\* One of several that compete wins, for any number of them: requests with one token
\* (middleware/auth.js), replicas at a cycle (services/advisoryLock.js), daemons and Jobs of
\* the failover (k8s/postgres-failover-script.yaml), reviewers of one application.
THEOREM OneOfThemWins == SatelliteSpec => []OneWins
<1>1. FamilyInv => OneWins
  BY SessionSuffices, CycleSuffices, FailoverSuffices, ReviewSuffices DEF FamilyInv, OneWins
<1> QED BY <1>1, FamilyAlways, PTL

\* The chain of the audit log verifies whatever prunes it and whenever (services/audit.js,
\* auditChain.js, auditRetention.js).
THEOREM AuditVerifies == SatelliteSpec => []AuditHolds
<1>1. FamilyInv => AuditHolds
  BY AuditSuffices DEF FamilyInv, AuditHolds
<1> QED BY <1>1, FamilyAlways, PTL

\* What the oracle holds is what is staked, cooldowns run, the slash history and the window
\* of the average are the latest entries in order however often the rings were written over,
\* and a source is healthy as its answers say (contracts/oracle-contract).
THEOREM OracleReliable == SatelliteSpec => []OracleHolds
<1>1. FamilyInv => OracleHolds
  BY StakingSuffices, PricesSuffices DEF FamilyInv, OracleHolds
<1> QED BY <1>1, FamilyAlways, PTL

\* A source transaction is attested once, for any batches, and every aggregate is what the
\* records say: no saturating subtraction hides a miscount (contracts/attestation-contract).
THEOREM AttestationsReliable == SatelliteSpec => []AttestationsAgree
<1>1. FamilyInv => AttestationsAgree
  BY AttestationSuffices DEF FamilyInv, AttestationsAgree
<1> QED BY <1>1, FamilyAlways, PTL

\* A pending webhook has a job, a handler or a check that will send it unless a crash or a
\* failed send dropped it, and is confirmed once per chain of jobs (services/webhookQueue.js);
\* no digest is mailed twice but after a takeover or a recorded failure
\* (services/digestQueue.js).  For any numbers of checks, handlers and runs at once.
THEOREM DeliveriesReliable == SatelliteSpec => []DeliveriesExplained
<1>1. FamilyInv => DeliveriesExplained
  BY HookSuffices, DigestSuffices DEF FamilyInv, DeliveriesExplained
<1> QED BY <1>1, FamilyAlways, PTL

\* Of any number of tabs, one at a time drains the offline queue within its lease and what
\* leaves it as submitted is recorded once (frontend/lib/offlineDonationQueue.ts); the mobile queue
\* tries a donation no more often than its budget (mobile/utils/donationQueue.ts).
THEOREM QueuesReliable == SatelliteSpec => []QueuesKept
<1>1. FamilyInv => QueuesKept
  BY QueueSuffices, MobileSuffices DEF FamilyInv, QueuesKept
<1> QED BY <1>1, FamilyAlways, PTL

\* Only the user takes a donation off the mobile queue, as long as no write puts back a copy
\* that another overtook (mobile/utils/donationQueue.ts, donationQueueWorker.ts).
THEOREM NothingTakenOff == SatelliteSpec => NoneVanishes
<1> DEFINE Stays(g) ==
      store[g] # Gone /\ store'[g] = Gone /\ ~clobbered' => g \in dismissed'
<1>1. FamilyInv /\ [SatelliteNext]_satelliteVars => [\A g \in Offline : Stays(g)]_mobileVars
  BY StepsOfParts, NothingVanishes DEF FamilyInv
<1>2. SatelliteSpec => [][\A g \in Offline : Stays(g)]_mobileVars
  <2> HIDE DEF Stays
  <2> QED BY <1>1, FamilyAlways, PTL DEF SatelliteSpec
<1> QED BY <1>2 DEF NoneVanishes

\* A caller is told what is so: of a submission behind the breaker, of any number at once and
\* for any budgets (services/stellar.js, circuitBreaker.js); of the form's runs
\* (components/DonateForm.tsx, lib/stellar.ts); of a cached route (middleware/cache.js).
THEOREM AnswersHonest == SatelliteSpec => []AnswersTruthful
<1>1. FamilyInv => AnswersTruthful
  BY SubmissionSuffices, FlowSuffices, CacheSuffices DEF FamilyInv, AnswersTruthful
<1> QED BY <1>1, FamilyAlways, PTL
===============================================================================
