----------------------------- MODULE ResponseCache -----------------------------
(***************************************************************************)
(* middleware/cache.js over services/redis.js: one cached route, the       *)
(* requests for it and the writes that invalidate it.  Redis is reached    *)
(* over the network by several replicas, so a GET, SET, KEYS or DEL is a   *)
(* step of its own; inflightRequests is read and written without an await  *)
(* between, in the one process that is modelled.                           *)
(*                                                                         *)
(* A body is the number of writes it was computed from, or the error body  *)
(* that the error handler sends through the same res.json.                 *)
(***************************************************************************)
EXTENDS Naturals, FiniteSets

CONSTANTS Fetches,     \* requests for the route
          Updates,     \* writes that invalidate it
          NoFetch, NoBody, ErrorBody

ASSUME CacheAssumption ==
  IsFiniteSet(Updates) /\ NoFetch \notin Fetches /\ NoBody \notin Nat /\ ErrorBody \notin Nat

VARIABLES truth,       \* writes committed
          cached,      \* the key in Redis
          filling,     \* inflightRequests: the request that computes, by key
          fetch,       \* each request: place, what was invalidated when it came, whom it awaits, its body
          inval,       \* each write: place, its number, whether KEYS found the key
          settled,     \* history: the latest write whose invalidation is complete
          overtaken,   \* history: a write was committed between a computation and its SET
          left         \* history: a client left a request that computed

cacheVars == <<truth, cached, filling, fetch, inval, settled, overtaken, left>>

Unasked      == [at |-> "new", floor |-> 0, awaits |-> NoFetch, body |-> NoBody, gone |-> FALSE]
Computing    == {g \in Fetches : fetch[g].at \in {"leading", "computed"}}
Followers(g) == {f \in Fetches : fetch[f].at = "following" /\ fetch[f].awaits = g}

\* fetch with each of Followers(g) answered by a body
Resolved(after, g, body) ==
  [f \in Fetches |-> IF f \in Followers(g) THEN [after[f] EXCEPT !.at = "over", !.body = body] ELSE after[f]]

-------------------------------------------------------------------------------
(* cacheResponse *)

Requested(g) ==
  /\ fetch[g].at = "new"
  /\ fetch' = [fetch EXCEPT ![g].at = "asking", ![g].floor = settled]
  /\ UNCHANGED <<truth, cached, filling, inval, settled, overtaken, left>>

\* redis.get: a hit is the answer; a failure reads as a miss
LooksUp(g) ==
  /\ fetch[g].at = "asking"
  /\ \/ /\ cached # NoBody
        /\ fetch' = [fetch EXCEPT ![g].at = "over", ![g].body = cached]
     \/ fetch' = [fetch EXCEPT ![g].at = "missed"]
  /\ UNCHANGED <<truth, cached, filling, inval, settled, overtaken, left>>

\* awaits the computation under way, or begins one
Coalesces(g) ==
  /\ fetch[g].at = "missed"
  /\ IF filling # NoFetch
     THEN fetch' = [fetch EXCEPT ![g].at = "following", ![g].awaits = filling] /\ UNCHANGED filling
     ELSE fetch' = [fetch EXCEPT ![g].at = "leading"] /\ filling' = g
  /\ UNCHANGED <<truth, cached, inval, settled, overtaken, left>>

\* the route's query, which may fail
Computes(g) ==
  /\ fetch[g].at = "leading"
  /\ \E body \in {truth, ErrorBody} :
       fetch' = [fetch EXCEPT ![g].at = "computed", ![g].body = body]
  /\ UNCHANGED <<truth, cached, filling, inval, settled, overtaken, left>>

\* res.json deletes the entry, whoever's it is by now, and resolves the promise
Responds(g) ==
  /\ fetch[g].at = "computed"
  /\ filling' = NoFetch
  /\ fetch' = Resolved([fetch EXCEPT ![g].at = "storing"], g, fetch[g].body)
  /\ UNCHANGED <<truth, cached, inval, settled, overtaken, left>>

\* the SET, which nobody awaits and which may fail
Stores(g) ==
  /\ fetch[g].at = "storing"
  /\ fetch' = [fetch EXCEPT ![g].at = "over"]
  /\ cached' = fetch[g].body \/ UNCHANGED cached
  /\ UNCHANGED <<truth, filling, inval, settled, overtaken, left>>

\* "close" before the response: if there is an entry it is deleted and the promise rejected
ClientLeaves(g) ==
  /\ g \in Computing /\ ~fetch[g].gone
  /\ LET closed == [fetch EXCEPT ![g].gone = TRUE] IN
     IF filling # NoFetch
     THEN filling' = NoFetch /\ fetch' = Resolved(closed, g, ErrorBody)
     ELSE UNCHANGED filling /\ fetch' = closed
  /\ left' = TRUE
  /\ UNCHANGED <<truth, cached, inval, settled, overtaken>>

-------------------------------------------------------------------------------
(* A write, and the invalidateCache after it *)

Commits(u) ==
  /\ inval[u].at = "new"
  /\ truth' = truth + 1
  /\ inval' = [inval EXCEPT ![u] = [at |-> "written", number |-> truth + 1, found |-> FALSE]]
  /\ overtaken' = (overtaken \/ \E g \in Fetches : fetch[g].at \in {"computed", "storing"})
  /\ UNCHANGED <<cached, filling, fetch, settled, left>>

\* deletePattern: KEYS, then DEL of what was found; a failure is swallowed
FindsKeys(u) ==
  /\ inval[u].at = "written"
  /\ \E at \in {"found", "over"} : inval' = [inval EXCEPT ![u].at = at, ![u].found = (cached # NoBody)]
  /\ UNCHANGED <<truth, cached, filling, fetch, settled, overtaken, left>>

DeletesKeys(u) ==
  /\ inval[u].at = "found"
  /\ inval' = [inval EXCEPT ![u].at = "over"]
  /\ \/ /\ cached' = (IF inval[u].found THEN NoBody ELSE cached)
        /\ settled' = (IF inval[u].number > settled THEN inval[u].number ELSE settled)
     \/ UNCHANGED <<cached, settled>>
  /\ UNCHANGED <<truth, filling, fetch, overtaken, left>>

KeyExpires ==
  /\ cached # NoBody /\ cached' = NoBody
  /\ UNCHANGED <<truth, filling, fetch, inval, settled, overtaken, left>>

-------------------------------------------------------------------------------
CacheInit ==
  /\ truth = 0 /\ cached = NoBody /\ filling = NoFetch
  /\ fetch = [g \in Fetches |-> Unasked]
  /\ inval = [u \in Updates |-> [at |-> "new", number |-> 0, found |-> FALSE]]
  /\ settled = 0 /\ overtaken = FALSE /\ left = FALSE

CacheNext ==
  \/ \E g \in Fetches : Requested(g) \/ LooksUp(g) \/ Coalesces(g) \/ Computes(g) \/ Responds(g)
                        \/ Stores(g) \/ ClientLeaves(g)
  \/ \E u \in Updates : Commits(u) \/ FindsKeys(u) \/ DeletesKeys(u)
  \/ KeyExpires

-------------------------------------------------------------------------------
(* Properties *)

\* The variables have their types.
CacheTypeOK ==
  LET Bodies == 0..Cardinality(Updates) \union {NoBody, ErrorBody} IN
  /\ truth \in 0..Cardinality(Updates) /\ settled \in 0..truth /\ cached \in Bodies
  /\ filling \in Fetches \union {NoFetch}
  /\ fetch \in [Fetches -> [at : {"new", "asking", "missed", "leading", "computed", "following", "storing",
                                  "over"}, floor : 0..truth, awaits : Fetches \union {NoFetch},
                            body : Bodies, gone : BOOLEAN]]
  /\ inval \in [Updates -> [at : {"new", "written", "found", "over"}, number : 0..truth, found : BOOLEAN]]
  /\ overtaken \in BOOLEAN /\ left \in BOOLEAN

\* A request that comes after an invalidation is complete is not answered with what was before
\* it, from Redis or by the computation it joins, until a write overtakes a computation on its
\* way into the cache.
NothingOutdated ==
  ~overtaken => \A g \in Fetches :
    fetch[g].at = "over" /\ fetch[g].body \in Nat => fetch[g].body >= fetch[g].floor

\* Who awaits another's computation awaits one that is under way, whoever left meanwhile; and
\* until somebody leaves there is one computation at a time.
OneComputes ==
  /\ \A g \in Fetches : Followers(g) # {} => g \in Computing
  /\ ~left => Cardinality(Computing) <= 1
===============================================================================
