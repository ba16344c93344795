----------------------- MODULE XAppConnectionManager -----------------------
(***************************************************************************)
(* The registry of replicas of one chain (XAppConnectionManager.sol).  An  *)
(* xApp accepts a message only from a contract this registry calls a       *)
(* replica; a watcher that saw fraud signs a notice, and anybody may       *)
(* submit it to cut the replica off.                                       *)
(***************************************************************************)
EXTENDS Naturals, TLAPS

CONSTANTS
    Replicas,   \* addresses of Replica contracts
    NoReplica,  \* address(0)
    Domains,    \* uint32 domains; 0 is an ordinary argument and the default value
    Updaters,   \* addresses of updaters
    UpdaterOf,  \* Replica.updater() of every replica, which no call changes
    HomeOf,     \* Replica.remoteDomain of every replica, the domain in homeDomainHash()
    Watchers    \* keys of watchers

ASSUME RegistryAssumption ==
    /\ NoReplica \notin Replicas
    /\ Domains \subseteq Nat
    /\ 0 \in Domains
    /\ UpdaterOf \in [Replicas -> Updaters]
    /\ HomeOf \in [Replicas -> Domains]

VARIABLES
    replicaToDomain,     \* 0 for a replica that is not enrolled
    domainToReplica,     \* NoReplica for a domain without one
    watcherPermissions,  \* pairs of a watcher and a domain it may speak for
    notices,             \* the failure notifications signed by watchers so far
    sender               \* who made the last call: the owner of the registry, or anybody

vars == <<replicaToDomain, domainToReplica, watcherPermissions, notices, sender>>

Notice == [watcher : Watchers, domain : Domains, updater : Updaters]

Init ==
    /\ replicaToDomain = [r \in Replicas |-> 0]
    /\ domainToReplica = [d \in Domains |-> NoReplica]
    /\ watcherPermissions = {}
    /\ notices = {}
    /\ sender = "owner"

-----------------------------------------------------------------------------
(* Faults.  None of these is part of the system: each is a slip a           *)
(* maintainer could make in the operator it is named after.                 *)

ForgetReplicaFault(r) == [domainToReplica EXCEPT ![0] = NoReplica]  \* the new domain of r
ForgetDomainFault(r) == [replicaToDomain EXCEPT ![r] = NoReplica]   \* the wrong zero
MayUnenrollFault(n, r) ==                                           \* any signer will do
    n.domain = HomeOf[r] /\ n.updater = UpdaterOf[r]

-----------------------------------------------------------------------------
isReplica(r) == replicaToDomain[r] # 0

\* The two halves of _unenrollReplica, which touches domain 0 when r is not enrolled.
ForgetReplica(r) == [domainToReplica EXCEPT ![replicaToDomain[r]] = NoReplica]
ForgetDomain(r) == [replicaToDomain EXCEPT ![r] = 0]

\* What unenrollReplica asks of the signature n about replica r.  The digest
\* hashes the home domain the replica was deployed for, so a notice about
\* another domain recovers to an address that is no watcher.
MayUnenroll(n, r) ==
    /\ n.domain = HomeOf[r]
    /\ n.updater = UpdaterOf[r]
    /\ <<n.watcher, n.domain>> \in watcherPermissions

ownerEnrollReplica(r, d) ==
    /\ replicaToDomain' = [ForgetDomain(r) EXCEPT ![r] = d]
    /\ domainToReplica' = [ForgetReplica(r) EXCEPT ![d] = r]
    /\ sender' = "owner"
    /\ UNCHANGED <<watcherPermissions, notices>>

ownerUnenrollReplica(r) ==
    /\ replicaToDomain' = ForgetDomain(r)
    /\ domainToReplica' = ForgetReplica(r)
    /\ sender' = "owner"
    /\ UNCHANGED <<watcherPermissions, notices>>

setWatcherPermission(w, d, access) ==
    /\ watcherPermissions' = IF access THEN watcherPermissions \cup {<<w, d>>}
                             ELSE watcherPermissions \ {<<w, d>>}
    /\ sender' = "owner"
    /\ UNCHANGED <<replicaToDomain, domainToReplica, notices>>

\* Anybody may submit the signature of a watcher.
unenrollReplica(n) ==
    /\ domainToReplica[n.domain] # NoReplica
    /\ MayUnenroll(n, domainToReplica[n.domain])
    /\ replicaToDomain' = ForgetDomain(domainToReplica[n.domain])
    /\ domainToReplica' = ForgetReplica(domainToReplica[n.domain])
    /\ sender' = "anybody"
    /\ UNCHANGED <<watcherPermissions, notices>>

\* A watcher that has seen fraud signs a notice (Watcher::handle_failure).
Sign(n) ==
    /\ notices' = notices \cup {n}
    /\ UNCHANGED <<replicaToDomain, domainToReplica, watcherPermissions, sender>>

Next ==
    \/ \E r \in Replicas, d \in Domains : ownerEnrollReplica(r, d)
    \/ \E r \in Replicas : ownerUnenrollReplica(r)
    \/ \E w \in Watchers, d \in Domains, access \in BOOLEAN : setWatcherPermission(w, d, access)
    \/ \E n \in notices : unenrollReplica(n)
    \/ \E n \in Notice : Sign(n)

Spec == Init /\ [][Next]_vars

-----------------------------------------------------------------------------
(* Properties *)

\* Every variable holds a value of the shape its declaration promises.
TypeOK ==
    /\ replicaToDomain \in [Replicas -> Domains]
    /\ domainToReplica \in [Domains -> Replicas \cup {NoReplica}]
    /\ watcherPermissions \subseteq Watchers \X Domains
    /\ notices \subseteq Notice
    /\ sender \in {"owner", "anybody"}

\* The replica a domain names is one enrolled for that domain, after any
\* sequence of enrollments that replace, move or repeat each other: what
\* unenrollReplica looks up is never an address the xApps have forgotten, nor
\* one that serves another domain.
ListedIsEnrolled ==
    \A d \in Domains : domainToReplica[d] # NoReplica => replicaToDomain[domainToReplica[d]] = d

\* A call of anybody but the owner enrolls nothing, and a replica is only cut off
\* on the word of a watcher that has the permission now, about the updater of
\* that replica and the domain it is enrolled for.
CutByWatcher(r) ==
    /\ ~isReplica(r)'
    /\ \E n \in notices :
          /\ n.domain = replicaToDomain[r]
          /\ n.updater = UpdaterOf[r]
          /\ <<n.watcher, n.domain>> \in watcherPermissions

WatchersOnlyCutTheirDomain ==
    [][sender' = "anybody" =>
          \A r \in Replicas : replicaToDomain'[r] # replicaToDomain[r] => CutByWatcher(r)]_vars

\* What the comments of ownerEnrollReplica say: any existing replica is
\* un-enrolled first, so that the two mappings are each other's inverse.
TwoWayMapping ==
    \A r \in Replicas : isReplica(r) => domainToReplica[replicaToDomain[r]] = r

-----------------------------------------------------------------------------
(* Proofs *)

\* Every step preserves the declared types.
LEMMA TypeNext == TypeOK /\ [Next]_vars => TypeOK'
<1> SUFFICES ASSUME TypeOK, [Next]_vars
             PROVE  TypeOK'
  OBVIOUS
<1> USE RegistryAssumption DEF TypeOK
<1>1. ASSUME NEW r \in Replicas, NEW d \in Domains, ownerEnrollReplica(r, d)
      PROVE  TypeOK'
  BY <1>1 DEF ownerEnrollReplica, ForgetDomain, ForgetReplica
<1>2. ASSUME NEW r \in Replicas, ownerUnenrollReplica(r)
      PROVE  TypeOK'
  BY <1>2 DEF ownerUnenrollReplica, ForgetDomain, ForgetReplica
<1>3. ASSUME NEW w \in Watchers, NEW d \in Domains, NEW access \in BOOLEAN,
             setWatcherPermission(w, d, access)
      PROVE  TypeOK'
  BY <1>3 DEF setWatcherPermission
<1>4. ASSUME NEW n \in notices, unenrollReplica(n)
      PROVE  TypeOK'
  BY <1>4 DEF unenrollReplica, ForgetDomain, ForgetReplica, Notice
<1>5. ASSUME NEW n \in Notice, Sign(n)
      PROVE  TypeOK'
  BY <1>5 DEF Sign
<1>6. CASE UNCHANGED vars
  BY <1>6 DEF vars
<1>7. QED
  BY <1>1, <1>2, <1>3, <1>4, <1>5, <1>6 DEF Next

\* The registry is type correct, with any number of replicas, domains and watchers.
THEOREM TypeCorrect == Spec => []TypeOK
<1>1. Init => TypeOK
  BY RegistryAssumption DEF Init, TypeOK
<1>2. QED
  BY <1>1, TypeNext, PTL DEF Spec

\* Forgetting a replica, then listing it under d or not at all, leaves every
\* other domain with a replica that is enrolled for it.
LEMMA ListedNext == TypeOK /\ ListedIsEnrolled /\ [Next]_vars => ListedIsEnrolled'
<1> SUFFICES ASSUME TypeOK, ListedIsEnrolled, [Next]_vars
             PROVE  ListedIsEnrolled'
  OBVIOUS
<1> USE RegistryAssumption DEF TypeOK, ListedIsEnrolled
<1>1. ASSUME NEW r \in Replicas, NEW d \in Domains, ownerEnrollReplica(r, d)
      PROVE  ListedIsEnrolled'
  <2>1. ASSUME NEW e \in Domains, domainToReplica'[e] # NoReplica
        PROVE  replicaToDomain'[domainToReplica'[e]] = e
    <3>1. CASE e = d
      BY <1>1, <3>1 DEF ownerEnrollReplica, ForgetDomain, ForgetReplica
    <3>2. CASE e # d
      <4>1. domainToReplica'[e] = domainToReplica[e] /\ replicaToDomain[r] # e
        BY <1>1, <2>1, <3>2 DEF ownerEnrollReplica, ForgetReplica
      <4>2. domainToReplica[e] \in Replicas \ {r}
        BY <2>1, <4>1
      <4>3. QED
        BY <1>1, <4>1, <4>2 DEF ownerEnrollReplica, ForgetDomain
    <3>3. QED
      BY <3>1, <3>2
  <2>2. QED
    BY <2>1
<1>2. ASSUME NEW r \in Replicas, replicaToDomain' = ForgetDomain(r), domainToReplica' = ForgetReplica(r)
      PROVE  ListedIsEnrolled'
  BY <1>2 DEF ForgetDomain, ForgetReplica
<1>3. ASSUME NEW r \in Replicas, ownerUnenrollReplica(r)
      PROVE  ListedIsEnrolled'
  BY <1>2, <1>3 DEF ownerUnenrollReplica
<1>4. ASSUME NEW n \in notices, unenrollReplica(n)
      PROVE  ListedIsEnrolled'
  <2>1. domainToReplica[n.domain] \in Replicas
    BY <1>4 DEF unenrollReplica, Notice
  <2>2. QED
    BY <1>2, <1>4, <2>1 DEF unenrollReplica
<1>5. CASE UNCHANGED <<replicaToDomain, domainToReplica>>
  BY <1>5
<1>6. QED
  BY <1>1, <1>3, <1>4, <1>5 DEF Next, setWatcherPermission, Sign, vars

\* The registry never lists, under a domain, a replica it does not hold to be
\* enrolled for that domain: half of the "two-way mapping", for any number of
\* replicas and domains.  The other half does not hold (TwoWayMapping).
THEOREM ListedCorrect == Spec => []ListedIsEnrolled
<1>1. Init => TypeOK /\ ListedIsEnrolled
  BY RegistryAssumption DEF Init, TypeOK, ListedIsEnrolled
<1>2. TypeOK /\ ListedIsEnrolled /\ [Next]_vars => (TypeOK /\ ListedIsEnrolled)'
  BY TypeNext, ListedNext
<1>3. QED
  BY <1>1, <1>2, PTL DEF Spec

\* Whoever submits a notice can do no more with it than cut off the replica of
\* the domain it speaks of, while its signer has the permission.
THEOREM WatcherReach == Spec => WatchersOnlyCutTheirDomain
<1>1. ASSUME TypeOK, ListedIsEnrolled, [Next]_vars, sender' = "anybody",
             NEW r \in Replicas, replicaToDomain'[r] # replicaToDomain[r]
      PROVE  CutByWatcher(r)
  <2>1. PICK n \in notices : unenrollReplica(n)
    BY <1>1 DEF Next, vars, ownerEnrollReplica, ownerUnenrollReplica, setWatcherPermission, Sign
  <2>2. /\ n \in Notice
        /\ domainToReplica[n.domain] \in Replicas
        /\ replicaToDomain[domainToReplica[n.domain]] = n.domain
    BY <1>1, <2>1 DEF TypeOK, unenrollReplica, ListedIsEnrolled, Notice
  <2>3. r = domainToReplica[n.domain]
    BY <1>1, <2>1, <2>2 DEF unenrollReplica, ForgetDomain, TypeOK
  <2>4. replicaToDomain'[r] = 0
    BY <1>1, <2>1, <2>3 DEF unenrollReplica, ForgetDomain, TypeOK
  <2>5. QED
    BY <2>1, <2>2, <2>3, <2>4 DEF CutByWatcher, isReplica, unenrollReplica, MayUnenroll
<1>2. TypeOK /\ ListedIsEnrolled /\ [Next]_vars =>
         (sender' = "anybody" =>
             \A r \in Replicas : replicaToDomain'[r] # replicaToDomain[r] => CutByWatcher(r))
  BY <1>1
<1>3. Init => TypeOK /\ ListedIsEnrolled
  BY RegistryAssumption DEF Init, TypeOK, ListedIsEnrolled
<1>4. TypeOK /\ ListedIsEnrolled /\ [Next]_vars => (TypeOK /\ ListedIsEnrolled)'
  BY TypeNext, ListedNext
<1>5. QED
  BY <1>2, <1>3, <1>4, PTL DEF Spec, WatchersOnlyCutTheirDomain

=============================================================================
