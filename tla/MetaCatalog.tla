---------------------------- MODULE MetaCatalog ----------------------------
(***************************************************************************)
(* The readers of the version histories while they are written: diff and   *)
(* diffDefinition of MetaKernelService, which read two versions in two     *)
(* statements, and the /meta routes of the bff, which list the latest      *)
(* definitions of a kind (or sum up all kinds, one after the other) through *)
(* CacheService.remember.                                                  *)
(***************************************************************************)
EXTENDS MetaVersions, Sequences

CONSTANTS
  Reader,    \* requests, over the life of the bff
  Kinds,     \* listKinds(), a sequence
  KindOf,    \* KindOf[h]: the kind of definition h
  Asked,     \* the keys requests ask for
  Summary    \* the key of the summary; the others are the kinds

ASSUME AskedAssumption == Asked \subseteq {Kinds[i] : i \in DOMAIN Kinds} \cup {Summary}

VARIABLES
  cache,     \* cache[k]: what is stored under key k, None if nothing is
  rpc,       \* rpc[r]: what request r does next
  ask,       \* ask[r]: what it asks for
  got        \* got[r]: what it was answered or has loaded so far

catalogVars == <<cache, rpc, ask, got>>

Kind == {Kinds[i] : i \in DOMAIN Kinds}
Key == Kind \cup {Summary}

\* listLatestDefinitions: the latest row of every definition of the kind.
Listing(k) ==
  [h \in {d \in History \ {SchemaHistory} : KindOf[d] = k /\ Version(d) # {}} |->
     [version |-> Latest(rows[h]), row |-> rows[h][Latest(rows[h])]]]

\* The kinds a key is loaded from, in order.
Loads(k) == IF k = Summary THEN Kinds ELSE <<k>>

CatalogInit ==
  /\ Init
  /\ cache = [k \in Key |-> None]
  /\ rpc = [r \in Reader |-> "idle"]
  /\ ask = [r \in Reader |-> None]
  /\ got = [r \in Reader |-> <<>>]

\* Slip: remember loads whether the key is there or not.
RememberAnew(r, k) ==
  /\ rpc[r] = "idle"
  /\ ask' = [ask EXCEPT ![r] = [key |-> k]]
  /\ rpc' = [rpc EXCEPT ![r] = "load"]
  /\ UNCHANGED <<vars, cache, got>>

\* list and summary: remember looks whether the key is there.
Remember(r, k) ==
  /\ rpc[r] = "idle"
  /\ ask' = [ask EXCEPT ![r] = [key |-> k]]
  /\ IF cache[k] # None
       THEN /\ rpc' = [rpc EXCEPT ![r] = "done"]
            /\ got' = [got EXCEPT ![r] = cache[k]]
       ELSE /\ rpc' = [rpc EXCEPT ![r] = "load"]
            /\ UNCHANGED got
  /\ UNCHANGED <<vars, cache>>

\* The loader reads one kind; after the last it is ready to store.
Load(r) ==
  /\ rpc[r] = "load"
  /\ LET plan == Loads(ask[r].key)  n == Len(got[r]) + 1 IN
       /\ got' = [got EXCEPT ![r] = Append(@, Listing(plan[n]))]
       /\ rpc' = [rpc EXCEPT ![r] = IF n = Len(plan) THEN "store" ELSE "load"]
  /\ UNCHANGED <<vars, cache, ask>>

\* remember goes on after the await, and does not look again.
Store(r) ==
  /\ rpc[r] = "store"
  /\ cache' = [cache EXCEPT ![ask[r].key] = got[r]]
  /\ rpc' = [rpc EXCEPT ![r] = "done"]
  /\ UNCHANGED <<vars, ask, got>>

\* diff and diffDefinition, of any two versions, there or not.
Diff(r, h, from, to) ==
  /\ rpc[r] = "idle"
  /\ ask' = [ask EXCEPT ![r] = [of |-> h, versions |-> <<from, to>>]]
  /\ rpc' = [rpc EXCEPT ![r] = "read"]
  /\ UNCHANGED <<vars, cache, got>>

\* Each version is read by a statement of its own, and only then are both looked at.
ReadVersion(r) ==
  /\ rpc[r] = "read"
  /\ LET n == Len(got[r]) + 1
         v == ask[r].versions[n]
         h == ask[r].of
         read == Append(got[r], IF v \in Version(h) THEN rows[h][v] ELSE None)
     IN  /\ got' = [got EXCEPT ![r] = read]
         /\ rpc' = [rpc EXCEPT ![r] = IF n = 1 THEN "read"
                                      ELSE IF None \in {read[1], read[2]} THEN "failed"
                                      ELSE "done"]
  /\ UNCHANGED <<vars, cache, ask>>

\* A read fails: the loader or the diff rejects and nothing is stored.
ReadFails(r) ==
  /\ rpc[r] \in {"load", "read"}
  /\ rpc' = [rpc EXCEPT ![r] = "failed"]
  /\ UNCHANGED <<vars, cache, ask, got>>

Serve(r) ==
  \/ \E k \in Asked : Remember(r, k)
  \/ Load(r)
  \/ Store(r)
  \/ \E h \in History : \E from, to \in Version(h) \cup {Latest(rows[h]) + 1} :
       from < to /\ Diff(r, h, from, to)
  \/ ReadVersion(r)
  \/ ReadFails(r)

CatalogNext ==
  \/ Next /\ UNCHANGED catalogVars
  \/ \E r \in Reader : Serve(r)

CatalogSpec == CatalogInit /\ [][CatalogNext]_<<vars, catalogVars>>

-----------------------------------------------------------------------------
(* Properties.                                                             *)

Listed(answer_) == UNION {{<<h, answer_[i][h]>> : h \in DOMAIN answer_[i]} : i \in DOMAIN answer_}

\* Whatever was published since, what a listing in the cache or a finished diff shows
\* of a version is what that version still is: reading two versions in two statements
\* is as good as reading them at once, and a stale listing is old but not wrong.
ShownStaysTrue ==
  /\ \A k \in Key : cache[k] # None =>
       \A item \in Listed(cache[k]) :
         /\ item[2].version \in Version(item[1])
         /\ item[2].row = rows[item[1]][item[2].version]
  /\ \A r \in Reader : rpc[r] = "done" /\ "versions" \in DOMAIN ask[r] =>
       \A i \in 1 .. 2 : got[r][i] = rows[ask[r].of][ask[r].versions[i]]

Settled(k) ==
  /\ cache[k] # None
  /\ \A r \in Reader : rpc[r] \in {"load", "store"} => ask[r].key # k

\* Callers that found a key empty before it was filled store what they loaded, older or
\* newer, over one another.  Once they are through, nobody loads the key again, and what
\* it holds is there for good, whatever is published.
CacheSettles ==
  [][\A k \in Key : Settled(k) => Settled(k)' /\ cache'[k] = cache[k]]_<<vars, catalogVars>>
=============================================================================
