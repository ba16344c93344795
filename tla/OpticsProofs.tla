---------------------------- MODULE OpticsProofs ----------------------------
(***************************************************************************)
(* Proofs about module Optics, for every value of its constants: that a    *)
(* lie told to the replica is provable, that an honest updater is safe,    *)
(* and that Home and Replica together implement the optimistic channel.    *)
(* What modules HomeProofs and ReplicaProofs show of each contract alone   *)
(* is cited from there.                                                    *)
(***************************************************************************)
EXTENDS Optics, Integers, SequenceTheorems, WellFoundedInduction, TLAPS

HP == INSTANCE HomeProofs WITH
        updater <- homeUpdater, state <- homeState, committedRoot <- homeRoot,
        updates <- homeUpdates

RP == INSTANCE ReplicaProofs WITH
        updater <- replicaUpdater, state <- replicaState, committedRoot <- replicaRoot,
        updates <- replicaUpdates, Messages <- H!Message, InitialRoot <- H!ZeroRoot

\* An update of the log of Home, and one of the log of the replica
HomeEntry == [by : Accounts, oldRoot : Seq(H!Message), newRoot : Seq(H!Message)]
ReplicaEntry == [oldRoot : Roots, newRoot : Roots, at : Nat]

-----------------------------------------------------------------------------
(* Numbers and prefixes *)

\* A set of numbers has a least one.
LEMMA LeastNumber ==
    ASSUME NEW T, T \subseteq Nat, T # {}
    PROVE  \E x \in T : \A y \in T : x <= y
<1> DEFINE Below == {p \in Nat \X Nat : p[1] < p[2]}
<1>1. IsWellFoundedOn(Below, Nat)
  BY NatLessThanWellFounded DEF OpToRel
<1>2. PICK x \in T : \A y \in T : <<y, x>> \notin Below
  <2> HIDE DEF Below
  <2>1. QED
    BY <1>1, WFMin
<1>3. \A y \in T : ~(y < x)
  BY <1>2
<1>4. QED
  BY <1>3

\* The operators on prefixes mean the same in all modules.
LEMMA SamePrefixes ==
    ASSUME NEW s, NEW t
    PROVE  /\ IsPrefix(s, t) <=> HP!IsPrefix(s, t)
           /\ IsStrictPrefix(s, t) <=> HP!IsStrictPrefix(s, t)
           /\ Prefixes(s) = HP!Prefixes(s)
           /\ H!Prefixes(s) = HP!Prefixes(s)
           /\ Last(s) = HP!Last(s) /\ Last(s) = RP!Last(s)
           /\ ToSet(s) = RP!ToSet(s)
  BY DEF IsPrefix, HP!IsPrefix, IsStrictPrefix, HP!IsStrictPrefix, Prefixes, H!Prefixes, HP!Prefixes,
         Last, HP!Last, RP!Last, ToSet, RP!ToSet

\* The assumptions of the two components, as their proofs name them
LEMMA Assumptions ==
    /\ HP!HomeAssumption
    /\ RP!ReplicaAssumption
    /\ Roots \subseteq Seq(H!Message)
    /\ H!ZeroRoot \in Roots
    /\ HP!Message = H!Message
  BY OpticsAssumption DEF H!Message, HP!Message, H!Root, HP!Root, H!ZeroRoot

-----------------------------------------------------------------------------
(* Steps *)

\* A step of the whole is a step of one of the contracts, and the other stands
\* still: on Home a dispatch, an accepted update, a failure or a step that
\* leaves tree and log alone; on the replica an update or a step that leaves
\* its log alone.
HomeRests ==
    /\ UNCHANGED <<homeUpdater, homeRoot, leaves, homeUpdates>>
    /\ \/ UNCHANGED <<homeState, slashed>>
       \/ homeState' = "Failed" /\ homeUpdater \in slashed'
    /\ \/ signed' = signed
       \/ \E a \in signed' : signed' = signed \cup {a} /\ IsStrictPrefix(a.oldRoot, a.newRoot)

\* A step that moves Home is one of its own.
LEMMA HomeSteps ==
    ASSUME Next, ~UNCHANGED homeVars
    PROVE  /\ UNCHANGED replicaVars
           /\ HP!Next
           /\ \/ \E d \in Domains, payload \in Payloads : HP!Dispatch(d, payload)
              \/ \E u \in Accounts, old, new \in H!Presentable : HP!AcceptUpdate(u, old, new)
              \/ HomeRests
<1> USE DEF H!NotFailed, HP!NotFailed, H!Fail, HP!Fail, H!contractVars, HP!contractVars,
            H!managerVars, HP!managerVars
<1>1. H!Presentable = HP!Presentable
  BY SamePrefixes DEF H!Presentable, HP!Presentable
<1>2. ASSUME NEW d \in Domains, NEW payload \in Payloads, H!Dispatch(d, payload)
      PROVE  HP!Dispatch(d, payload)
  BY <1>2 DEF H!Dispatch, HP!Dispatch, H!TreeHasRoom, HP!TreeHasRoom, H!TakeNonce, HP!TakeNonce,
              H!Enqueue, HP!Enqueue
<1>3. ASSUME NEW u \in Accounts, NEW old \in H!Presentable, NEW new \in H!Presentable,
             H!AcceptUpdate(u, old, new)
      PROVE  HP!AcceptUpdate(u, old, new)
  BY <1>3 DEF H!AcceptUpdate, HP!AcceptUpdate, H!CurrentUpdate, HP!CurrentUpdate, H!DequeueUntil,
              HP!DequeueUntil, H!IsUpdaterSignature, HP!IsUpdaterSignature
<1>4. ASSUME NEW u \in Accounts, NEW old \in H!Presentable, NEW new \in H!Presentable,
             H!ImproperUpdate(u, old, new)
      PROVE  HP!ImproperUpdate(u, old, new) /\ HomeRests
  <2>1. HP!ImproperUpdate(u, old, new)
    BY <1>4 DEF H!ImproperUpdate, HP!ImproperUpdate, H!CurrentUpdate, HP!CurrentUpdate,
                H!IsUpdaterSignature, HP!IsUpdaterSignature, H!ToSet, HP!ToSet
  <2>2. HomeRests
    BY <1>4 DEF H!ImproperUpdate, HomeRests
  <2>3. QED
    BY <2>1, <2>2
<1>5. ASSUME NEW u \in Accounts, NEW old \in H!Presentable, NEW new1 \in H!Presentable,
             NEW new2 \in H!Presentable, H!DoubleUpdate(u, old, new1, new2)
      PROVE  HP!DoubleUpdate(u, old, new1, new2) /\ HomeRests
  <2>1. HP!DoubleUpdate(u, old, new1, new2)
    BY <1>5 DEF H!DoubleUpdate, HP!DoubleUpdate, H!ConflictingUpdates, HP!ConflictingUpdates,
                H!IsUpdaterSignature, HP!IsUpdaterSignature
  <2>2. HomeRests
    BY <1>5 DEF H!DoubleUpdate, HomeRests
  <2>3. QED
    BY <2>1, <2>2
<1>6. ASSUME NEW u \in Honest, NEW old \in H!Committed, NEW new \in Prefixes(leaves),
             H!Attest(u, old, new)
      PROVE  /\ old \in HP!Committed /\ new \in HP!Prefixes(leaves)
             /\ HP!Attest(u, old, new)
             /\ HomeRests
  <2>1. old \in HP!Committed /\ new \in HP!Prefixes(leaves)
    BY SamePrefixes DEF H!Committed, HP!Committed, H!ZeroRoot, HP!ZeroRoot
  <2>2. HP!Attest(u, old, new)
    BY <1>6 DEF H!Attest, HP!Attest, H!FreshRoot, HP!FreshRoot, H!IsStrictPrefix, HP!IsStrictPrefix,
                H!IsPrefix, HP!IsPrefix
  <2> DEFINE a == [by |-> u, oldRoot |-> old, newRoot |-> new]
  <2>3. a.oldRoot = old /\ a.newRoot = new
    OBVIOUS
  <2>4. signed' = signed \cup {a} /\ IsStrictPrefix(old, new)
    BY <1>6 DEF H!Attest, H!IsStrictPrefix, IsStrictPrefix, H!IsPrefix, IsPrefix
  <2> HIDE DEF a
  <2>5. HomeRests
    <3>1. \E b \in signed' : signed' = signed \cup {b} /\ IsStrictPrefix(b.oldRoot, b.newRoot)
      BY <2>3, <2>4
    <3>2. QED
      BY <1>6, <3>1 DEF H!Attest, HomeRests
  <2>6. QED
    BY <2>1, <2>2, <2>5
<1>7. ASSUME NEW m \in Managers, H!SetHome(m, TRUE)
      PROVE  HP!SetHome(m, TRUE) /\ HomeRests
  BY <1>7 DEF H!SetHome, HP!SetHome, HomeRests
<1>8. CASE Send
  BY <1>2, <1>8 DEF Send, OnHome, HP!Next
<1>9. CASE Notarize
  <2>1. CASE \E u \in Honest, old \in H!Committed, new \in Prefixes(leaves) : OnHome(H!Attest(u, old, new))
    BY <1>6, <2>1 DEF OnHome, HP!Next
  <2>2. CASE \E u \in Accounts, old, new \in H!Presentable : OnHome(H!Update(u, old, new))
    <3>1. PICK u \in Accounts, old \in H!Presentable, new \in H!Presentable :
              OnHome(H!ImproperUpdate(u, old, new) \/ H!AcceptUpdate(u, old, new))
      BY <2>2 DEF H!Update
    <3>2. QED
      BY <1>1, <1>3, <1>4, <3>1 DEF OnHome, HP!Next, HP!Update
  <2>3. QED
    BY <1>9, <2>1, <2>2 DEF Notarize
<1>10. CASE DisputeOnHome
  BY <1>1, <1>5, <1>10 DEF DisputeOnHome, OnHome, HP!Next
<1>11. CASE Configure
  BY <1>7, <1>11 DEF Configure, OnHome, HP!Next
<1>12. QED
  BY <1>8, <1>9, <1>10, <1>11 DEF Next, Relay, DisputeOnReplica, Deliver, OnReplica

ReplicaRests == UNCHANGED <<replicaUpdater, replicaRoot, replicaUpdates>>

\* A step that moves the replica is one of its own.
LEMMA ReplicaSteps ==
    ASSUME Next, ~UNCHANGED replicaVars
    PROVE  /\ UNCHANGED homeVars
           /\ RP!Next
           /\ \/ \E u \in Accounts, old, new \in Roots : RP!Update(u, old, new) /\ Signable(u, old, new)
              \/ ReplicaRests
<1> USE DEF R!NotFailed, RP!NotFailed
<1>1. ASSUME NEW u \in Accounts, NEW old \in Roots, NEW new \in Roots, R!Update(u, old, new)
      PROVE  RP!Update(u, old, new)
  BY <1>1 DEF R!Update, RP!Update, R!Current, RP!Current, R!SetTimer, RP!SetTimer
<1>2. ASSUME NEW u \in Accounts, NEW old \in Roots, NEW new1 \in Roots, NEW new2 \in Roots,
             R!DoubleUpdate(u, old, new1, new2)
      PROVE  RP!DoubleUpdate(u, old, new1, new2) /\ ReplicaRests
  BY <1>2 DEF R!DoubleUpdate, RP!DoubleUpdate, ReplicaRests
<1>3. ASSUME NEW m, NEW root, R!Prove(m, root)
      PROVE  RP!Prove(m, root) /\ ReplicaRests
  BY <1>3 DEF R!Prove, RP!Prove, R!Unproven, RP!Unproven, R!Proves, RP!Proves, R!ToSet, RP!ToSet,
              R!AcceptableRoot, RP!AcceptableRoot, ReplicaRests
<1>4. ASSUME NEW m, R!CallRecipient(m)
      PROVE  RP!CallRecipient(m) /\ ReplicaRests
  BY <1>4 DEF R!CallRecipient, RP!CallRecipient, R!Guard, RP!Guard, R!MarkProcessed, RP!MarkProcessed,
              ReplicaRests
<1>5. ASSUME NEW m, R!Process(m)
      PROVE  RP!Process(m) /\ ReplicaRests
  BY <1>4, <1>5 DEF R!Process, RP!Process
<1>6. ASSUME NEW m, NEW root, R!ProveAndProcess(m, root)
      PROVE  RP!ProveAndProcess(m, root) /\ ReplicaRests
  BY <1>4, <1>6 DEF R!ProveAndProcess, RP!ProveAndProcess, R!Unproven, RP!Unproven, R!Proves,
                    RP!Proves, R!ToSet, RP!ToSet, R!AcceptableRoot, RP!AcceptableRoot
<1>7. CASE OnReplica(R!Return)
  BY <1>7 DEF OnReplica, R!Return, RP!Return, R!ReleaseGuard, RP!ReleaseGuard, R!Front, RP!Front,
              ReplicaRests, RP!Next
<1>8. CASE OnReplica(R!Tick)
  BY <1>8 DEF OnReplica, R!Tick, RP!Tick, ReplicaRests, RP!Next
<1>9. CASE Relay
  BY <1>1, <1>9 DEF Relay, OnReplica, RP!Next
<1>10. CASE DisputeOnReplica
  BY <1>2, <1>10 DEF DisputeOnReplica, OnReplica, RP!Next
<1>11. CASE Deliver
  <2>1. PICK m \in UNION {ToSet(r) : r \in Roots} :
            \/ \E root \in Roots : OnReplica(R!Prove(m, root))
            \/ OnReplica(R!Process(m))
            \/ \E root \in Roots : OnReplica(R!ProveAndProcess(m, root))
    BY <1>11 DEF Deliver
  <2>2. m \in H!Message
    BY Assumptions, ElementOfSeq DEF ToSet
  <2>3. QED
    BY <1>3, <1>5, <1>6, <2>1, <2>2 DEF OnReplica, RP!Next
<1>12. QED
  BY <1>7, <1>8, <1>9, <1>10, <1>11 DEF Next, Send, Notarize, DisputeOnHome, Configure, OnHome

-----------------------------------------------------------------------------
(* The invariant *)

\* What the two modules know of their contracts alone
HomeInv ==
    /\ HP!TypeOK /\ HP!QueueIsPending /\ HP!UpdatesFormChain
    /\ HP!SignedOnce /\ HP!HonestNeverSlashed
ReplicaInv ==
    /\ RP!TypeOK /\ RP!UpdatesFormChain /\ RP!TimersFromUpdates /\ RP!HandledAfterWindow
    /\ RP!HandledAreProcessed /\ RP!HandledOnce

\* The log of Home only ever held true updates of the one updater.
HomeLogGenuine ==
    \A i \in 1 .. Len(homeUpdates) : Genuine(homeUpdates[i]) /\ homeUpdates[i].by = homeUpdater

\* An honest key has signed what both logs say it has, and each time for a longer root.
SignedPublished ==
    /\ replicaUpdater \in Honest => Published \subseteq signed
    /\ \A a \in signed : IsStrictPrefix(a.oldRoot, a.newRoot)

\* As long as no two published updates contradict each other, the logs tell the
\* same story as far as both go.
LogsAgree ==
    ~DoublePublished =>
        \A i \in 1 .. Len(homeUpdates) : i <= Len(replicaUpdates) =>
            /\ homeUpdates[i].oldRoot = replicaUpdates[i].oldRoot
            /\ homeUpdates[i].newRoot = replicaUpdates[i].newRoot

IInv ==
    /\ HomeInv
    /\ ReplicaInv
    /\ replicaUpdater = homeUpdater
    /\ homeState = "Failed" => homeUpdater \in slashed
    /\ HomeLogGenuine
    /\ SignedPublished
    /\ LogsAgree

\* The types of the two contracts, in the terms of this module
LEMMA Shapes ==
    ASSUME HP!TypeOK, RP!TypeOK
    PROVE  /\ leaves \in Seq(H!Message)
           /\ homeRoot \in Seq(H!Message)
           /\ homeUpdates \in Seq(HomeEntry)
           /\ replicaUpdates \in Seq(ReplicaEntry)
           /\ replicaRoot \in Roots
           /\ Len(homeUpdates) \in Nat /\ Len(replicaUpdates) \in Nat
           /\ \A i \in 1 .. Len(homeUpdates) : homeUpdates[i] \in HomeEntry
           /\ \A i \in 1 .. Len(replicaUpdates) : replicaUpdates[i] \in ReplicaEntry
<1>1. /\ leaves \in Seq(H!Message) /\ homeRoot \in Seq(H!Message)
      /\ homeUpdates \in Seq(HomeEntry)
  BY Assumptions DEF HP!TypeOK, HP!Root, HP!Attestation, HomeEntry
<1>2. replicaUpdates \in Seq(ReplicaEntry) /\ replicaRoot \in Roots
  BY DEF RP!TypeOK, ReplicaEntry
<1>3. QED
  BY <1>1, <1>2, LenProperties, ElementOfSeq

\* The chains of the two logs, in the terms of this module
LEMMA Chains ==
    ASSUME HomeInv, ReplicaInv
    PROVE  /\ Len(homeUpdates) = 0 => homeRoot = <<>>
           /\ Len(homeUpdates) > 0 => /\ homeUpdates[1].oldRoot = <<>>
                                      /\ homeUpdates[Len(homeUpdates)].newRoot = homeRoot
           /\ \A i \in 1 .. Len(homeUpdates) - 1 : homeUpdates[i + 1].oldRoot = homeUpdates[i].newRoot
           /\ \A i \in 1 .. Len(homeUpdates) :
                 IsStrictPrefix(homeUpdates[i].oldRoot, homeUpdates[i].newRoot)
           /\ Len(replicaUpdates) = 0 => replicaRoot = <<>>
           /\ Len(replicaUpdates) > 0 => /\ replicaUpdates[1].oldRoot = <<>>
                                         /\ replicaUpdates[Len(replicaUpdates)].newRoot = replicaRoot
           /\ \A i \in 1 .. Len(replicaUpdates) - 1 :
                 replicaUpdates[i + 1].oldRoot = replicaUpdates[i].newRoot
<1>1. /\ homeUpdates \in Seq(HomeEntry) /\ Len(homeUpdates) \in Nat
      /\ replicaUpdates \in Seq(ReplicaEntry) /\ Len(replicaUpdates) \in Nat
  BY Shapes DEF HomeInv, ReplicaInv
<1>2. /\ Len(homeUpdates) = 0 <=> homeUpdates = <<>>
      /\ Len(replicaUpdates) = 0 <=> replicaUpdates = <<>>
  BY <1>1, EmptySeq
<1>3. \A i \in 1 .. Len(homeUpdates) :
         /\ IsStrictPrefix(homeUpdates[i].oldRoot, homeUpdates[i].newRoot)
         /\ i < Len(homeUpdates) => homeUpdates[i + 1].oldRoot = homeUpdates[i].newRoot
  BY SamePrefixes DEF HomeInv, HP!UpdatesFormChain
<1>4. /\ Len(homeUpdates) = 0 => homeRoot = <<>>
      /\ Len(homeUpdates) > 0 => /\ homeUpdates[1].oldRoot = <<>>
                                 /\ homeUpdates[Len(homeUpdates)].newRoot = homeRoot
  BY <1>2 DEF HomeInv, HP!UpdatesFormChain, HP!ZeroRoot, HP!Last
<1>5. /\ Len(replicaUpdates) = 0 => replicaRoot = <<>>
      /\ Len(replicaUpdates) > 0 => /\ replicaUpdates[1].oldRoot = <<>>
                                    /\ replicaUpdates[Len(replicaUpdates)].newRoot = replicaRoot
  BY <1>2 DEF ReplicaInv, RP!UpdatesFormChain, H!ZeroRoot, RP!Last
<1>6. \A i \in 1 .. Len(replicaUpdates) - 1 :
         replicaUpdates[i + 1].oldRoot = replicaUpdates[i].newRoot
  BY DEF ReplicaInv, RP!UpdatesFormChain
<1>7. QED
  BY <1>1, <1>3, <1>4, <1>5, <1>6

\* Where the logs agree and one is longer, its next update starts where the
\* other contract stands.
LEMMA NextLink ==
    ASSUME IInv, ~DoublePublished
    PROVE  /\ Len(homeUpdates) < Len(replicaUpdates) =>
                 replicaUpdates[Len(homeUpdates) + 1].oldRoot = homeRoot
           /\ Len(replicaUpdates) < Len(homeUpdates) =>
                 homeUpdates[Len(replicaUpdates) + 1].oldRoot = replicaRoot
<1> DEFINE h == Len(homeUpdates)
           r == Len(replicaUpdates)
<1>1. h \in Nat /\ r \in Nat
  BY Shapes DEF IInv, HomeInv, ReplicaInv
<1>2. \A i \in 1 .. h : i <= r => homeUpdates[i].newRoot = replicaUpdates[i].newRoot
  BY DEF IInv, LogsAgree
<1>3. /\ h = 0 => homeRoot = <<>>
      /\ h > 0 => homeUpdates[1].oldRoot = <<>> /\ homeUpdates[h].newRoot = homeRoot
      /\ \A i \in 1 .. h - 1 : homeUpdates[i + 1].oldRoot = homeUpdates[i].newRoot
      /\ r = 0 => replicaRoot = <<>>
      /\ r > 0 => replicaUpdates[1].oldRoot = <<>> /\ replicaUpdates[r].newRoot = replicaRoot
      /\ \A i \in 1 .. r - 1 : replicaUpdates[i + 1].oldRoot = replicaUpdates[i].newRoot
  BY Chains DEF IInv
<1> HIDE DEF h, r
<1>4. ASSUME h < r
      PROVE  replicaUpdates[h + 1].oldRoot = homeRoot
  <2>1. CASE h = 0
    BY <1>1, <1>3, <1>4, <2>1
  <2>2. CASE h > 0
    <3>1. h \in 1 .. h /\ h \in 1 .. r - 1 /\ h <= r
      BY <1>1, <1>4, <2>2
    <3>2. QED
      BY <1>2, <1>3, <2>2, <3>1
  <2>3. QED
    BY <1>1, <2>1, <2>2
<1>5. ASSUME r < h
      PROVE  homeUpdates[r + 1].oldRoot = replicaRoot
  <2>1. CASE r = 0
    BY <1>1, <1>3, <1>5, <2>1
  <2>2. CASE r > 0
    <3>1. r \in 1 .. h /\ r \in 1 .. h - 1 /\ r <= r
      BY <1>1, <1>5, <2>2
    <3>2. QED
      BY <1>2, <1>3, <2>2, <3>1
  <2>3. QED
    BY <1>1, <2>1, <2>2
<1>6. QED
  BY <1>4, <1>5 DEF h, r

-----------------------------------------------------------------------------
(* What the invariant is for *)

\* If the replica has heard an untrue update, the first such is the end of a run
\* that starts where Home stands, or the logs contradict each other before.
LEMMA LiesAreProvable == IInv => FraudIsProvable
<1> SUFFICES ASSUME IInv, ~DoublePublished,
                    NEW bad \in 1 .. Len(replicaUpdates), ~Genuine(replicaUpdates[bad])
             PROVE  ImproperPublished
  BY DEF FraudIsProvable, Disputed
<1> DEFINE h == Len(homeUpdates)
           r == Len(replicaUpdates)
           T == {i \in 1 .. r : ~Genuine(replicaUpdates[i])}
<1>1. h \in Nat /\ r \in Nat
  BY Shapes DEF IInv, HomeInv, ReplicaInv
<1>2. PICK j \in T : \A i \in T : j <= i
  <2>1. T \subseteq Nat /\ T # {}
    BY <1>1
  <2> HIDE DEF T
  <2>2. QED
    BY <2>1, LeastNumber
<1>3. /\ j \in 1 .. r
      /\ ~Genuine(replicaUpdates[j])
      /\ \A k \in 1 .. j - 1 : Genuine(replicaUpdates[k])
  BY <1>1, <1>2
<1> HIDE DEF T
<1>4. h < j
  <2> SUFFICES ASSUME j <= h
               PROVE  FALSE
    BY <1>1, <1>3
  <2>1. j \in 1 .. h
    BY <1>1, <1>3
  <2>2. /\ homeUpdates[j].oldRoot = replicaUpdates[j].oldRoot
        /\ homeUpdates[j].newRoot = replicaUpdates[j].newRoot
    BY <1>3, <2>1 DEF IInv, LogsAgree
  <2>3. Genuine(homeUpdates[j])
    BY <2>1 DEF IInv, HomeLogGenuine
  <2>4. QED
    BY <1>3, <2>2, <2>3 DEF Genuine
<1>5. /\ h + 1 \in 1 .. r
      /\ h + 1 <= j
      /\ \A k \in h + 1 .. j - 1 : k \in 1 .. j - 1
  BY <1>1, <1>3, <1>4
<1>6. replicaUpdates[h + 1].oldRoot = homeRoot
  BY <1>1, <1>5, NextLink
<1>7. replicaUpdater = homeUpdater
  BY DEF IInv
<1>8. QED
  BY <1>3, <1>5, <1>6, <1>7 DEF ImproperPublished

\* What an honest key has signed is true, and never contradicts itself.
LEMMA HonestIsSafe == IInv => HonestIsNeverDisputed
<1> SUFFICES ASSUME IInv, replicaUpdater \in Honest
             PROVE  ~Disputed /\ IsPrefix(replicaRoot, leaves)
  BY DEF HonestIsNeverDisputed
<1>1. /\ replicaUpdater = homeUpdater
      /\ Published \subseteq signed
      /\ \A a \in signed : IsStrictPrefix(a.oldRoot, a.newRoot)
  BY DEF IInv, SignedPublished
<1>2. /\ \A a \in signed : IsPrefix(a.newRoot, leaves)
      /\ \A a, b \in signed : a.by = b.by /\ a.oldRoot = b.oldRoot => a = b
  BY SamePrefixes DEF IInv, HomeInv, HP!SignedOnce
<1>3. homeState # "Failed"
  BY <1>1 DEF IInv, HomeInv, HP!HonestNeverSlashed
<1>4. ~DoublePublished
  BY <1>1, <1>2 DEF DoublePublished
<1>5. \A i \in 1 .. Len(replicaUpdates) : Genuine(replicaUpdates[i])
  <2> SUFFICES ASSUME NEW i \in 1 .. Len(replicaUpdates)
               PROVE  Genuine(replicaUpdates[i])
    OBVIOUS
  <2> DEFINE u == replicaUpdates[i]
             a == [by |-> replicaUpdater, oldRoot |-> u.oldRoot, newRoot |-> u.newRoot]
  <2>1. u \in ToSet(replicaUpdates)
    BY Shapes DEF IInv, HomeInv, ReplicaInv, ToSet
  <2>2. a \in Published /\ a.oldRoot = u.oldRoot /\ a.newRoot = u.newRoot
    BY <2>1 DEF Published
  <2> HIDE DEF a
  <2>3. QED
    BY <1>1, <1>2, <2>2 DEF Genuine
<1>6. ~ImproperPublished
  BY <1>5 DEF ImproperPublished
<1>7. IsPrefix(replicaRoot, leaves)
  <2>1. Len(replicaUpdates) \in Nat /\ leaves \in Seq(H!Message)
    BY Shapes DEF IInv, HomeInv, ReplicaInv
  <2>2. CASE Len(replicaUpdates) = 0
    <3>1. replicaRoot = <<>>
      BY <2>2, Chains DEF IInv
    <3>2. IsPrefix(<<>>, leaves)
      BY <2>1, EmptySeq, SubSeqProperties, LenProperties DEF IsPrefix
    <3>3. QED
      BY <3>1, <3>2
  <2>3. CASE Len(replicaUpdates) > 0
    BY <1>5, <2>1, <2>3, Chains DEF IInv, Genuine
  <2>4. QED
    BY <2>1, <2>2, <2>3
<1>8. QED
  BY <1>3, <1>4, <1>6, <1>7 DEF Disputed

-----------------------------------------------------------------------------
(* The invariant is kept *)

\* The initial state satisfies the invariant.
LEMMA InitInvariant == Init => IInv
<1> SUFFICES ASSUME Init
             PROVE  IInv
  OBVIOUS
<1>1. HP!Init
  BY DEF Init, H!Init, HP!Init, H!ZeroRoot, HP!ZeroRoot
<1>2. RP!Init
  BY DEF Init, R!Init, RP!Init
<1>3. HomeInv
  <2>1. HP!TypeOK /\ HP!QueueIsPending
    BY <1>1, Assumptions, HP!TypeInit, HP!QueueInit
  <2>2. HP!UpdatesFormChain /\ HP!SignedOnce /\ HP!HonestNeverSlashed
    BY <1>1, EmptySeq DEF HP!Init, HP!UpdatesFormChain, HP!SignedOnce, HP!HonestNeverSlashed
  <2>3. QED
    BY <2>1, <2>2 DEF HomeInv
<1>4. ReplicaInv
  <2>1. RP!TypeOK
    BY <1>2, Assumptions, RP!TypeInit
  <2>2. RP!UpdatesFormChain /\ RP!TimersFromUpdates /\ RP!HandledAfterWindow
    BY <1>2, EmptySeq DEF RP!Init, RP!UpdatesFormChain, RP!TimersFromUpdates, RP!HandledAfterWindow
  <2>3. RP!HandledAreProcessed /\ RP!HandledOnce
    BY <1>2, EmptySeq DEF RP!Init, RP!HandledAreProcessed, RP!HandledOnce
  <2>4. QED
    BY <2>1, <2>2, <2>3 DEF ReplicaInv
<1>5. /\ replicaUpdater = homeUpdater /\ homeState = "Active"
      /\ homeUpdates = <<>> /\ replicaUpdates = <<>> /\ signed = {}
  BY DEF Init, H!Init, R!Init
<1>6. Published = {}
  BY <1>5 DEF Published, ToSet
<1>7. QED
  BY <1>3, <1>4, <1>5, <1>6 DEF IInv, HomeLogGenuine, SignedPublished, LogsAgree

\* Each contract keeps its own.
LEMMA ComponentsKeepTheirs ==
    ASSUME IInv, [Next]_vars
    PROVE  HomeInv' /\ ReplicaInv'
<1>1. [HP!Next]_(HP!vars)
  <2>1. CASE UNCHANGED homeVars
    BY <2>1 DEF homeVars, HP!vars, HP!contractVars, HP!managerVars
  <2>2. CASE ~UNCHANGED homeVars
    BY <2>2, HomeSteps DEF vars
  <2>3. QED
    BY <2>1, <2>2
<1>2. [RP!Next]_(RP!vars)
  <2>1. CASE UNCHANGED replicaVars
    BY <2>1 DEF replicaVars, RP!vars
  <2>2. CASE ~UNCHANGED replicaVars
    BY <2>2, ReplicaSteps DEF vars
  <2>3. QED
    BY <2>1, <2>2
<1>3. HomeInv'
  BY <1>1, Assumptions, HP!TypeNext, HP!QueueNext, HP!ChainNext, HP!SignedNext, HP!SignedIsQueued,
     HP!HonestNext DEF IInv, HomeInv
<1>4. ReplicaInv'
  BY <1>2, Assumptions, RP!TypeNext, RP!ChainNext, RP!TimersNext, RP!WindowNext, RP!HandledNext
     DEF IInv, ReplicaInv
<1>5. QED
  BY <1>3, <1>4

\* A dispatch takes nothing back.
LEMMA DispatchStep ==
    ASSUME IInv, [Next]_vars, UNCHANGED replicaVars,
           NEW d \in Domains, NEW payload \in Payloads, HP!Dispatch(d, payload)
    PROVE  IInv'
<1>1. HomeInv' /\ ReplicaInv'
  BY ComponentsKeepTheirs
<1>2. PICK m \in H!Message :
          /\ leaves' = Append(leaves, m)
          /\ UNCHANGED <<homeUpdates, signed>>
  BY Assumptions, HP!DispatchEffect DEF IInv, HomeInv
<1>3. UNCHANGED <<homeUpdater, homeState, slashed, replicaUpdater, replicaUpdates>>
  BY DEF HP!Dispatch, replicaVars
<1>4. HomeLogGenuine'
  <2> SUFFICES ASSUME NEW i \in 1 .. Len(homeUpdates)
               PROVE  IsPrefix(homeUpdates[i].newRoot, leaves')
    BY <1>2, <1>3 DEF IInv, HomeLogGenuine, Genuine
  <2>1. /\ homeUpdates[i].newRoot \in Seq(H!Message) /\ leaves \in Seq(H!Message)
        /\ HP!IsPrefix(homeUpdates[i].newRoot, leaves)
    BY Shapes, SamePrefixes DEF IInv, HomeInv, ReplicaInv, HomeEntry, HomeLogGenuine, Genuine
  <2>2. QED
    BY <1>2, <2>1, HP!PrefixOfAppend, Assumptions, SamePrefixes
<1>5. Published' = Published /\ DoublePublished' = DoublePublished
  BY <1>2, <1>3 DEF Published, DoublePublished
<1>6. QED
  BY <1>1, <1>2, <1>3, <1>4, <1>5 DEF IInv, SignedPublished, LogsAgree

\* Failures, signatures and the deployer's last step leave the logs alone.
LEMMA RestStep ==
    ASSUME IInv, [Next]_vars, HomeRests \/ UNCHANGED homeVars,
           UNCHANGED replicaVars \/ ReplicaRests
    PROVE  IInv'
<1>1. HomeInv' /\ ReplicaInv'
  BY ComponentsKeepTheirs
<1>2. UNCHANGED <<homeUpdater, homeUpdates, leaves, replicaUpdater, replicaUpdates>>
  BY DEF HomeRests, homeVars, ReplicaRests, replicaVars
<1>3. homeState' = "Failed" => homeUpdater' \in slashed'
  BY DEF IInv, HomeRests, homeVars
<1>4. Published' = Published /\ DoublePublished' = DoublePublished
  BY <1>2 DEF Published, DoublePublished
<1>5. signed \subseteq signed' /\ \A a \in signed' : IsStrictPrefix(a.oldRoot, a.newRoot)
  BY DEF IInv, SignedPublished, HomeRests, homeVars
<1>6. QED
  BY <1>1, <1>2, <1>3, <1>4, <1>5 DEF IInv, HomeLogGenuine, Genuine, SignedPublished, LogsAgree

\* What Home accepts is true, and either what the replica heard next or a
\* contradiction to it.
LEMMA AcceptStep ==
    ASSUME IInv, [Next]_vars, UNCHANGED replicaVars,
           NEW u \in Accounts, NEW old \in H!Presentable, NEW new \in H!Presentable,
           HP!AcceptUpdate(u, old, new)
    PROVE  IInv'
<1> DEFINE h == Len(homeUpdates)
           e == [by |-> u, oldRoot |-> old, newRoot |-> new]
<1>1. HomeInv' /\ ReplicaInv'
  BY ComponentsKeepTheirs
<1>2. /\ old = homeRoot /\ homeRoot' = new
      /\ IsPrefix(new, leaves)
      /\ UNCHANGED <<leaves, signed>>
  BY Assumptions, HP!AcceptEffect, SamePrefixes DEF IInv, HomeInv
<1>3. /\ u = homeUpdater
      /\ u \in Honest => e \in signed
      /\ homeUpdates' = Append(homeUpdates, e)
      /\ UNCHANGED <<homeUpdater, homeState, slashed>>
  BY DEF HP!AcceptUpdate, HP!CurrentUpdate, HP!IsUpdaterSignature
<1>4. e.by = u /\ e.oldRoot = old /\ e.newRoot = new
  OBVIOUS
<1> HIDE DEF e
<1>5. UNCHANGED <<replicaUpdater, replicaUpdates>> /\ replicaUpdater = homeUpdater
  BY DEF replicaVars, IInv
<1>6. /\ h \in Nat /\ Len(homeUpdates') = h + 1
      /\ \A i \in 1 .. h : homeUpdates'[i] = homeUpdates[i]
      /\ homeUpdates'[h + 1] = e
  <2>1. homeUpdates \in Seq(HomeEntry) /\ homeUpdates' \in Seq(HomeEntry) /\ homeRoot' \in Seq(H!Message)
    <3>1. homeUpdates \in Seq(HomeEntry)
      BY Shapes DEF IInv, HomeInv, ReplicaInv
    <3>2. HP!TypeOK'
      BY <1>1 DEF HomeInv
    <3>3. QED
      BY <3>1, <3>2, Assumptions DEF HP!TypeOK, HP!Root, HP!Attestation, HomeEntry
  <2>2. h \in Nat
    BY <2>1, LenProperties
  <2>3. e \in HomeEntry
    <3>1. old \in Seq(H!Message) /\ new \in Seq(H!Message)
      BY <1>2, <2>1, Shapes DEF IInv, HomeInv, ReplicaInv
    <3>2. QED
      BY <3>1 DEF e, HomeEntry
  <2>4. QED
    BY <1>3, <2>1, <2>2, <2>3, AppendProperties
<1>7. HomeLogGenuine'
  <2>1. \A i \in 1 .. h + 1 : IsStrictPrefix(homeUpdates'[i].oldRoot, homeUpdates'[i].newRoot)
    BY <1>1, <1>6, SamePrefixes DEF HomeInv, HP!UpdatesFormChain
  <2>2. \A i \in 1 .. h : IsPrefix(homeUpdates[i].newRoot, leaves) /\ homeUpdates[i].by = homeUpdater
    BY DEF IInv, HomeLogGenuine, Genuine
  <2>3. \A i \in 1 .. h + 1 : i \in 1 .. h \/ i = h + 1
    BY <1>6
  <2> HIDE DEF h
  <2>4. QED
    BY <1>2, <1>3, <1>4, <1>6, <2>1, <2>2, <2>3 DEF HomeLogGenuine, Genuine
<1>8. Published' = Published \cup {e}
  <2>1. {homeUpdates'[i] : i \in 1 .. Len(homeUpdates')} = {homeUpdates[i] : i \in 1 .. h} \cup {e}
    BY <1>6
  <2>2. QED
    BY <1>5, <2>1 DEF Published
<1>9. SignedPublished'
  BY <1>2, <1>3, <1>5, <1>8 DEF IInv, SignedPublished
<1>10. LogsAgree'
  <2> SUFFICES ASSUME ~DoublePublished', NEW i \in 1 .. h + 1, i <= Len(replicaUpdates)
               PROVE  /\ homeUpdates'[i].oldRoot = replicaUpdates[i].oldRoot
                      /\ homeUpdates'[i].newRoot = replicaUpdates[i].newRoot
    BY <1>5, <1>6 DEF LogsAgree
  <2>1. ~DoublePublished
    BY <1>3, <1>8 DEF DoublePublished
  <2>2. CASE i \in 1 .. h
    BY <1>6, <2>1, <2>2 DEF IInv, LogsAgree
  <2>3. CASE i = h + 1
    <3>1. Len(replicaUpdates) \in Nat
      BY Shapes DEF IInv, HomeInv, ReplicaInv
    <3>2. replicaUpdates[i].oldRoot = homeRoot
      BY <1>6, <2>1, <2>3, <3>1, NextLink
    <3> DEFINE p == [by |-> replicaUpdater, oldRoot |-> replicaUpdates[i].oldRoot,
                     newRoot |-> replicaUpdates[i].newRoot]
    <3>3. /\ p.by = replicaUpdater /\ p.oldRoot = replicaUpdates[i].oldRoot
          /\ p.newRoot = replicaUpdates[i].newRoot
      OBVIOUS
    <3>4. p \in Published
      <4>1. i \in DOMAIN replicaUpdates
        BY <1>6, <2>3, <3>1, Shapes, LenProperties DEF IInv, HomeInv, ReplicaInv
      <4>2. QED
        BY <4>1 DEF Published, ToSet
    <3> HIDE DEF p
    <3>5. QED
      BY <1>2, <1>3, <1>4, <1>5, <1>6, <1>8, <2>3, <3>2, <3>3, <3>4 DEF DoublePublished
  <2>4. QED
    BY <1>6, <2>2, <2>3
<1>11. QED
  BY <1>1, <1>3, <1>5, <1>7, <1>9, <1>10 DEF IInv

\* What the replica accepts is what Home accepted next, or a contradiction to
\* it, or more than Home has accepted so far.
LEMMA RelayStep ==
    ASSUME IInv, [Next]_vars, UNCHANGED homeVars,
           NEW u \in Accounts, NEW old \in Roots, NEW new \in Roots,
           RP!Update(u, old, new), Signable(u, old, new)
    PROVE  IInv'
<1> DEFINE r == Len(replicaUpdates)
           p == [by |-> u, oldRoot |-> old, newRoot |-> new]
<1>1. HomeInv' /\ ReplicaInv'
  BY ComponentsKeepTheirs
<1>2. PICK e \in ReplicaEntry :
          /\ e.oldRoot = replicaRoot /\ e.newRoot = new
          /\ replicaUpdates' = Append(replicaUpdates, e)
          /\ replicaUpdater' = replicaUpdater
  BY Assumptions, RP!UpdateEffect DEF IInv, ReplicaInv, ReplicaEntry, RP!UpdateEntry
<1>3. u = replicaUpdater /\ old = replicaRoot /\ (u \in Honest => p \in signed)
  BY DEF RP!Update, RP!Current, Signable
<1>4. p.by = u /\ p.oldRoot = old /\ p.newRoot = new
  OBVIOUS
<1>5. /\ replicaUpdater = homeUpdater
      /\ UNCHANGED <<homeUpdater, homeState, slashed, homeUpdates, leaves, signed>>
  BY DEF homeVars, IInv
<1>6. /\ replicaUpdates \in Seq(ReplicaEntry) /\ r \in Nat
      /\ replicaUpdates' \in Seq(ReplicaEntry)
      /\ Len(replicaUpdates') = r + 1
      /\ \A i \in 1 .. r : replicaUpdates'[i] = replicaUpdates[i]
      /\ replicaUpdates'[r + 1] = e
  <2>1. replicaUpdates \in Seq(ReplicaEntry)
    BY Shapes DEF IInv, HomeInv, ReplicaInv
  <2>2. QED
    BY <1>2, <2>1, AppendProperties, LenProperties
<1>7. Published' = Published \cup {p}
  <2>1. ToSet(replicaUpdates') = ToSet(replicaUpdates) \cup {e}
    BY <1>6, LenProperties DEF ToSet
  <2>2. p = [by |-> replicaUpdater, oldRoot |-> e.oldRoot, newRoot |-> e.newRoot]
    BY <1>2, <1>3
  <2> HIDE DEF p
  <2>3. QED
    BY <1>2, <1>5, <2>1, <2>2 DEF Published
<1> HIDE DEF p
<1>8. SignedPublished'
  BY <1>2, <1>3, <1>5, <1>7 DEF IInv, SignedPublished
<1>9. LogsAgree'
  <2> SUFFICES ASSUME ~DoublePublished', NEW i \in 1 .. Len(homeUpdates), i <= r + 1
               PROVE  /\ homeUpdates[i].oldRoot = replicaUpdates'[i].oldRoot
                      /\ homeUpdates[i].newRoot = replicaUpdates'[i].newRoot
    BY <1>5, <1>6 DEF LogsAgree
  <2>1. ~DoublePublished
    BY <1>5, <1>7 DEF DoublePublished
  <2>2. Len(homeUpdates) \in Nat
    BY Shapes DEF IInv, HomeInv, ReplicaInv
  <2>3. CASE i <= r
    <3>1. i \in 1 .. r
      BY <1>6, <2>2, <2>3
    <3>2. QED
      BY <1>6, <2>1, <2>3, <3>1 DEF IInv, LogsAgree
  <2>4. CASE i = r + 1
    <3>1. homeUpdates[i].oldRoot = replicaRoot
      BY <1>6, <2>1, <2>2, <2>4, NextLink
    <3>2. homeUpdates[i] \in Published /\ homeUpdates[i].by = homeUpdater
      BY DEF Published, IInv, HomeLogGenuine
    <3>3. QED
      BY <1>2, <1>3, <1>4, <1>5, <1>6, <1>7, <2>4, <3>1, <3>2 DEF DoublePublished
  <2>5. QED
    BY <1>6, <2>2, <2>3, <2>4
<1>10. QED
  BY <1>1, <1>2, <1>5, <1>8, <1>9 DEF IInv, HomeLogGenuine, Genuine

\* Every step keeps the invariant.
LEMMA NextInvariant == IInv /\ [Next]_vars => IInv'
<1> SUFFICES ASSUME IInv, [Next]_vars
             PROVE  IInv'
  OBVIOUS
<1>1. CASE UNCHANGED homeVars /\ UNCHANGED replicaVars
  BY <1>1, RestStep
<1>2. CASE ~UNCHANGED homeVars
  BY <1>2, HomeSteps, DispatchStep, AcceptStep, RestStep DEF vars
<1>3. CASE ~UNCHANGED replicaVars
  BY <1>3, ReplicaSteps, RelayStep, RestStep DEF vars
<1>4. QED
  BY <1>1, <1>2, <1>3

\* For every number of messages, updates, keys and forged roots, and any order in
\* which the two chains hear of the updater's signatures: a replica that took an
\* update Home did not allow has left a proof that Home accepts.
THEOREM FraudProvable == Spec => []FraudIsProvable
  BY InitInvariant, NextInvariant, LiesAreProvable, PTL DEF Spec

\* For all the same, an updater that signs what Home suggests is never in dispute,
\* and the replica stays in the history of Home.
THEOREM HonestUndisputed == Spec => []HonestIsNeverDisputed
  BY InitInvariant, NextInvariant, HonestIsSafe, PTL DEF Spec

-----------------------------------------------------------------------------
(* The optimistic channel *)

\* Nothing that was published is taken back, and a failed Home stays failed.
LEMMA LogsGrow ==
    ASSUME IInv, [Next]_vars
    PROVE  /\ UNCHANGED <<homeUpdater, replicaUpdater>>
           /\ homeState = "Failed" => homeState' = "Failed"
           /\ \A i \in 1 .. Len(homeUpdates) :
                 i \in 1 .. Len(homeUpdates') /\ homeUpdates'[i] = homeUpdates[i]
           /\ \A i \in 1 .. Len(replicaUpdates) :
                 i \in 1 .. Len(replicaUpdates') /\ replicaUpdates'[i] = replicaUpdates[i]
<1>1. /\ homeUpdates \in Seq(HomeEntry) /\ Len(homeUpdates) \in Nat
      /\ replicaUpdates \in Seq(ReplicaEntry) /\ Len(replicaUpdates) \in Nat
  BY Shapes DEF IInv, HomeInv, ReplicaInv
<1>2. CASE UNCHANGED homeVars /\ UNCHANGED replicaVars
  BY <1>2 DEF homeVars, replicaVars
<1>3. CASE ~UNCHANGED homeVars
  <2>1. UNCHANGED replicaVars
    BY <1>3, HomeSteps DEF vars
  <2>2. CASE \E d \in Domains, payload \in Payloads : HP!Dispatch(d, payload)
    BY <2>1, <2>2 DEF HP!Dispatch, replicaVars
  <2>3. ASSUME NEW u \in Accounts, NEW old \in H!Presentable, NEW new \in H!Presentable,
               HP!AcceptUpdate(u, old, new)
        PROVE  /\ UNCHANGED <<homeUpdater, homeState>>
               /\ \A i \in 1 .. Len(homeUpdates) :
                     i \in 1 .. Len(homeUpdates') /\ homeUpdates'[i] = homeUpdates[i]
    <3> DEFINE e == [by |-> u, oldRoot |-> old, newRoot |-> new]
    <3>1. homeUpdates' = Append(homeUpdates, e) /\ UNCHANGED <<homeUpdater, homeState>>
      BY <2>3 DEF HP!AcceptUpdate
    <3>2. e \in HomeEntry
      <4>1. old \in Seq(H!Message) /\ new \in Seq(H!Message)
        <5>1. HP!TypeOK'
          BY ComponentsKeepTheirs DEF HomeInv
        <5>2. homeRoot' \in Seq(H!Message)
          BY <5>1, Assumptions DEF HP!TypeOK, HP!Root
        <5>3. old = homeRoot /\ homeRoot' = new
          BY <2>3 DEF HP!AcceptUpdate, HP!CurrentUpdate
        <5>4. QED
          BY <5>2, <5>3, Shapes DEF IInv, HomeInv, ReplicaInv
      <4>2. QED
        BY <4>1 DEF HomeEntry
    <3> HIDE DEF e
    <3>3. QED
      BY <1>1, <3>1, <3>2, AppendProperties
  <2>4. CASE HomeRests
    BY <2>1, <2>4 DEF HomeRests, replicaVars
  <2>5. QED
    BY <1>3, <2>1, <2>2, <2>3, <2>4, HomeSteps DEF vars, replicaVars
<1>4. CASE ~UNCHANGED replicaVars
  <2>1. UNCHANGED homeVars
    BY <1>4, ReplicaSteps DEF vars
  <2>2. ASSUME NEW u \in Accounts, NEW old \in Roots, NEW new \in Roots, RP!Update(u, old, new)
        PROVE  /\ replicaUpdater' = replicaUpdater
               /\ \A i \in 1 .. Len(replicaUpdates) :
                     i \in 1 .. Len(replicaUpdates') /\ replicaUpdates'[i] = replicaUpdates[i]
    <3>1. \E e \in ReplicaEntry : replicaUpdates' = Append(replicaUpdates, e)
      BY <2>2, Assumptions, RP!UpdateEffect DEF IInv, ReplicaInv, ReplicaEntry, RP!UpdateEntry
    <3>2. QED
      BY <1>1, <2>2, <3>1, AppendProperties DEF RP!Update
  <2>3. CASE ReplicaRests
    BY <2>1, <2>3 DEF ReplicaRests, homeVars
  <2>4. QED
    BY <1>4, <2>1, <2>2, <2>3, ReplicaSteps DEF vars, homeVars
<1>5. QED
  BY <1>2, <1>3, <1>4

\* A dispute ends only with a dispatch that makes a lie true.
LEMMA DisputeStays ==
    ASSUME IInv, FraudIsProvable', [Next]_vars, leaves' = leaves, Disputed
    PROVE  Disputed'
<1>1. CASE homeState = "Failed"
  BY <1>1, LogsGrow DEF Disputed
<1>2. CASE DoublePublished
  <2>1. {homeUpdates[i] : i \in 1 .. Len(homeUpdates)} \subseteq
            {homeUpdates'[i] : i \in 1 .. Len(homeUpdates')}
    BY LogsGrow
  <2>2. ToSet(replicaUpdates) \subseteq ToSet(replicaUpdates')
    <3>1. \A i \in DOMAIN replicaUpdates : i \in 1 .. Len(replicaUpdates)
      BY Shapes, LenProperties DEF IInv, HomeInv, ReplicaInv
    <3>2. replicaUpdates' \in Seq(ReplicaEntry)
      BY ComponentsKeepTheirs DEF ReplicaInv, RP!TypeOK, ReplicaEntry
    <3>3. \A i \in 1 .. Len(replicaUpdates') : i \in DOMAIN replicaUpdates'
      BY <3>2, LenProperties
    <3>4. QED
      BY <3>1, <3>3, LogsGrow DEF ToSet
  <2>3. Published \subseteq Published'
    BY <2>1, <2>2, LogsGrow DEF Published
  <2>4. DoublePublished'
    BY <1>2, <2>3, LogsGrow DEF DoublePublished
  <2>5. QED
    BY <2>4 DEF Disputed
<1>3. CASE ImproperPublished
  <2>1. PICK j \in 1 .. Len(replicaUpdates) : ~Genuine(replicaUpdates[j])
    BY <1>3 DEF ImproperPublished
  <2>2. j \in 1 .. Len(replicaUpdates') /\ replicaUpdates'[j] = replicaUpdates[j]
    BY LogsGrow
  <2>3. ~Genuine(replicaUpdates[j])'
    BY <2>1, <2>2 DEF Genuine
  <2>4. QED
    BY <2>2, <2>3 DEF FraudIsProvable
<1>4. QED
  BY <1>1, <1>2, <1>3 DEF Disputed

\* A dispatch starts no dispute.
LEMMA DispatchIsSend ==
    ASSUME IInv, FraudIsProvable, [Next]_vars, UNCHANGED replicaVars,
           NEW d \in Domains, NEW payload \in Payloads, HP!Dispatch(d, payload)
    PROVE  \E m \in H!Message :
               /\ ToSet(leaves') = ToSet(leaves) \cup {m}
               /\ Disputed' => Disputed
<1>1. PICK m \in H!Message :
          /\ leaves' = Append(leaves, m)
          /\ UNCHANGED <<homeRoot, homeUpdates>>
  BY Assumptions, HP!DispatchEffect DEF IInv, HomeInv
<1>2. UNCHANGED <<homeUpdater, homeState, replicaUpdater, replicaUpdates>>
  BY DEF HP!Dispatch, replicaVars
<1>3. leaves \in Seq(H!Message)
  BY Shapes DEF IInv, HomeInv, ReplicaInv
<1>4. ToSet(leaves') = ToSet(leaves) \cup {m}
  <2>1. /\ Len(leaves) \in Nat /\ DOMAIN leaves = 1 .. Len(leaves)
        /\ DOMAIN leaves' = 1 .. Len(leaves) + 1
        /\ \A i \in 1 .. Len(leaves) : leaves'[i] = leaves[i]
        /\ leaves'[Len(leaves) + 1] = m
    BY <1>1, <1>3, AppendProperties, LenProperties
  <2>2. QED
    BY <2>1 DEF ToSet
<1>5. ASSUME Disputed'
      PROVE  Disputed
  <2>1. CASE homeState' = "Failed"
    BY <1>2, <2>1 DEF Disputed
  <2>2. CASE DoublePublished'
    BY <1>1, <1>2, <2>2 DEF Disputed, DoublePublished, Published
  <2>3. CASE ImproperPublished'
    <3>1. PICK j \in 1 .. Len(replicaUpdates) : ~Genuine(replicaUpdates[j])'
      BY <1>2, <2>3 DEF ImproperPublished
    <3>2. ~Genuine(replicaUpdates[j])
      <4> SUFFICES ASSUME Genuine(replicaUpdates[j])
                   PROVE  FALSE
        OBVIOUS
      <4>1. replicaUpdates[j].newRoot \in Seq(H!Message)
        BY Shapes, Assumptions DEF IInv, HomeInv, ReplicaInv, ReplicaEntry
      <4>2. HP!IsPrefix(replicaUpdates[j].newRoot, leaves)
        BY SamePrefixes DEF Genuine
      <4>3. IsPrefix(replicaUpdates[j].newRoot, leaves')
        BY <1>1, <1>3, <4>1, <4>2, HP!PrefixOfAppend, Assumptions, SamePrefixes
      <4>4. QED
        BY <1>2, <3>1, <4>3 DEF Genuine
    <3>3. QED
      BY <3>2 DEF FraudIsProvable
  <2>4. QED
    BY <1>5, <2>1, <2>2, <2>3 DEF Disputed
<1>6. QED
  BY <1>4, <1>5

\* The messages the replica has handed over, one for every call of a recipient
Received == [i \in 1 .. Len(handled) |-> handled[i].message]

\* What is handed over was dispatched, or vouched for by a published lie, and
\* not handed over before.
LEMMA CallIsReceive ==
    ASSUME IInv, IInv', FraudIsProvable, [Next]_vars, UNCHANGED homeVars,
           NEW m \in H!Message, RP!CallRecipient(m), messages[m] # "Processed"
    PROVE  /\ \A i \in DOMAIN Received : Received[i] # m
           /\ Received' = Append(Received, m)
           /\ m \in ToSet(leaves) \/ Disputed
           /\ Disputed' = Disputed
<1>1. PICK e \in RP!CallEntry :
          /\ e.message = m
          /\ handled' = Append(handled, e)
          /\ UNCHANGED <<replicaUpdater, replicaUpdates>>
  BY Assumptions, RP!CallEffect DEF IInv, ReplicaInv
<1>2. handled \in Seq(RP!CallEntry)
  BY DEF IInv, ReplicaInv, RP!TypeOK, RP!CallEntry
<1>3. /\ Len(handled) \in Nat /\ Len(handled') = Len(handled) + 1
      /\ \A i \in 1 .. Len(handled) : handled'[i] = handled[i]
      /\ handled'[Len(handled) + 1] = e
  BY <1>1, <1>2, AppendProperties, LenProperties
<1>4. Received' = Append(Received, m)
  <2> DEFINE S == {handled[i].message : i \in 1 .. Len(handled)} \cup {m}
  <2>1. Received \in Seq(S) /\ Len(Received) = Len(handled) /\ m \in S
    BY <1>3 DEF Received
  <2>2. Received' \in Seq(S) /\ Len(Received') = Len(handled) + 1
    BY <1>1, <1>3 DEF Received
  <2> HIDE DEF S
  <2>3. /\ Append(Received, m) \in Seq(S) /\ Len(Append(Received, m)) = Len(handled) + 1
        /\ \A i \in 1 .. Len(handled) : Append(Received, m)[i] = Received[i]
        /\ Append(Received, m)[Len(handled) + 1] = m
    BY <2>1, AppendProperties
  <2>4. \A i \in 1 .. Len(handled) + 1 : Append(Received, m)[i] = Received'[i]
    BY <1>1, <1>3, <2>3 DEF Received
  <2>5. QED
    BY <2>2, <2>3, <2>4, SeqEqual
<1>5. \A i \in DOMAIN Received : Received[i] # m
  BY DEF Received, IInv, ReplicaInv, RP!HandledAreProcessed
<1>6. m \in ToSet(leaves) \/ Disputed
  <2>1. PICK root \in Roots :
            /\ RP!Proves(root, m)
            /\ root = H!ZeroRoot \/ \E i \in 1 .. Len(replicaUpdates) : replicaUpdates[i].newRoot = root
    <3>1. RP!HandledAfterWindow'
      BY DEF IInv, ReplicaInv
    <3>2. Len(handled) + 1 \in 1 .. Len(handled')
      BY <1>3
    <3>3. \E root \in Roots :
              /\ RP!Proves(root, handled'[Len(handled) + 1].message)
              /\ root = H!ZeroRoot \/ \E i \in 1 .. Len(replicaUpdates') : replicaUpdates'[i].newRoot = root
      BY <3>1, <3>2 DEF RP!HandledAfterWindow, RP!Undisputed
    <3>4. QED
      BY <1>1, <1>3, <3>3
  <2>2. m \in ToSet(root)
    BY <2>1, SamePrefixes DEF RP!Proves
  <2>3. root # <<>>
    BY <2>2, EmptySeq DEF ToSet
  <2>4. PICK i \in 1 .. Len(replicaUpdates) : replicaUpdates[i].newRoot = root
    BY <2>1, <2>3 DEF H!ZeroRoot
  <2>5. CASE Genuine(replicaUpdates[i])
    <3>1. root \in Seq(H!Message) /\ leaves \in Seq(H!Message)
      BY Assumptions, Shapes DEF IInv, HomeInv, ReplicaInv
    <3>2. HP!IsPrefix(root, leaves)
      BY <2>4, <2>5, SamePrefixes DEF Genuine
    <3>3. /\ Len(root) \in Nat /\ Len(leaves) \in Nat /\ Len(root) <= Len(leaves)
          /\ \A k \in 1 .. Len(root) : root[k] = leaves[k]
      BY <3>1, <3>2, HP!PrefixPointwise, Assumptions, LenProperties
    <3>4. DOMAIN root = 1 .. Len(root) /\ DOMAIN leaves = 1 .. Len(leaves)
      BY <3>1, LenProperties
    <3>5. QED
      BY <2>2, <3>3, <3>4 DEF ToSet
  <2>6. CASE ~Genuine(replicaUpdates[i])
    BY <2>6 DEF FraudIsProvable
  <2>7. QED
    BY <2>5, <2>6
<1>7. Disputed' = Disputed
  BY <1>1 DEF homeVars, Disputed, DoublePublished, Published, ImproperPublished, Genuine
<1>8. QED
  BY <1>4, <1>5, <1>6, <1>7

\* Every step of the two contracts is a step of the channel, or none.
LEMMA ChannelStep ==
    ASSUME IInv, IInv', FraudIsProvable, FraudIsProvable', [Next]_vars
    PROVE  [Channel!Next]_(Channel!vars)
<1> DEFINE sent == ToSet(leaves)
<1>1. ASSUME UNCHANGED <<leaves, handled>>
      PROVE  UNCHANGED Channel!vars \/ Channel!Dispute
  <2>1. sent' = sent /\ Received' = Received
    BY <1>1 DEF Received
  <2>2. Disputed => Disputed'
    BY <1>1, DisputeStays
  <2>3. CASE Disputed' /\ ~Disputed
    <3>1. Disputed' = TRUE
      BY <2>3
    <3>2. QED
      BY <2>1, <3>1 DEF Channel!Dispute, Received
  <2>4. CASE Disputed' = Disputed
    BY <2>1, <2>4 DEF Channel!vars, Received
  <2>5. Disputed \in BOOLEAN /\ Disputed' \in BOOLEAN
    BY DEF Disputed
  <2>6. QED
    BY <2>2, <2>3, <2>4, <2>5
<1>2. CASE UNCHANGED homeVars /\ UNCHANGED replicaVars
  <2>1. UNCHANGED <<leaves, handled>>
    BY <1>2 DEF homeVars, replicaVars
  <2>2. QED
    BY <1>1, <2>1 DEF Channel!Next
<1>3. CASE ~UNCHANGED homeVars
  <2>1. UNCHANGED replicaVars /\ UNCHANGED handled
    BY <1>3, HomeSteps DEF vars, replicaVars
  <2>2. CASE \E d \in Domains, payload \in Payloads : HP!Dispatch(d, payload)
    <3>1. PICK m \in H!Message : sent' = sent \cup {m} /\ (Disputed' => Disputed)
      BY <2>1, <2>2, DispatchIsSend
    <3>2. Disputed' \in {Disputed, FALSE}
      <4>1. Disputed \in BOOLEAN /\ Disputed' \in BOOLEAN
        BY DEF Disputed
      <4>2. QED
        BY <3>1, <4>1
    <3>3. Received' = Received
      BY <2>1 DEF Received
    <3>4. Channel!Send(m)
      BY <3>1, <3>2, <3>3 DEF Channel!Send, Received
    <3>5. QED
      BY <3>4 DEF Channel!Next
  <2>3. CASE ~\E d \in Domains, payload \in Payloads : HP!Dispatch(d, payload)
    <3>1. leaves' = leaves
      BY <1>3, <2>3, HomeSteps DEF vars, HP!AcceptUpdate, HomeRests
    <3>2. QED
      BY <1>1, <2>1, <3>1 DEF Channel!Next
  <2>4. QED
    BY <2>2, <2>3
<1>4. CASE ~UNCHANGED replicaVars
  <2>1. UNCHANGED homeVars /\ leaves' = leaves /\ RP!Next
    BY <1>4, ReplicaSteps DEF vars, homeVars
  <2>2. ASSUME NEW m \in H!Message, RP!CallRecipient(m), messages[m] # "Processed"
        PROVE  Channel!Receive(m)
    <3>1. /\ \A i \in DOMAIN Received : Received[i] # m
          /\ Received' = Append(Received, m)
          /\ m \in sent \/ Disputed
          /\ Disputed' = Disputed
      BY <2>1, <2>2, CallIsReceive
    <3>2. sent' = sent
      BY <2>1
    <3>3. QED
      BY <3>1, <3>2 DEF Channel!Receive, Received
  <2>3. ASSUME handled' = handled
        PROVE  UNCHANGED Channel!vars \/ Channel!Dispute
    BY <1>1, <2>1, <2>3
  <2>4. \/ \E m \in H!Message : RP!CallRecipient(m) /\ messages[m] # "Processed"
        \/ handled' = handled
    BY <2>1 DEF RP!Next, RP!Update, RP!DoubleUpdate, RP!Prove, RP!Process, RP!ProveAndProcess,
               RP!Unproven, RP!Return, RP!Tick
  <2>5. QED
    BY <2>2, <2>3, <2>4 DEF Channel!Next
<1>5. QED
  BY <1>2, <1>3, <1>4

\* For every value of the constants, the two contracts keep the promise of the
\* channel: each message at most once, and none that was not sent unless proof of
\* a lie is public.
THEOREM ChannelImplemented == Spec => ImplementsChannel
<1>1. Init => Channel!Init
  <2> SUFFICES ASSUME Init
               PROVE  Channel!Init
    OBVIOUS
  <2>1. /\ leaves = <<>> /\ handled = <<>> /\ homeState = "Active"
        /\ homeUpdates = <<>> /\ replicaUpdates = <<>>
    BY DEF Init, H!Init, R!Init
  <2>2. ToSet(leaves) = {} /\ [i \in 1 .. Len(handled) |-> handled[i].message] = <<>>
    BY <2>1, EmptySeq DEF ToSet
  <2>3. Published = {}
    BY <2>1, EmptySeq DEF Published, ToSet
  <2>4. ~Disputed
    BY <2>1, <2>3, EmptySeq DEF Disputed, DoublePublished, ImproperPublished
  <2>5. Disputed = FALSE
    BY <2>4 DEF Disputed
  <2>6. QED
    BY <2>2, <2>5 DEF Channel!Init
<1>2. IInv /\ IInv' /\ FraudIsProvable /\ FraudIsProvable' /\ [Next]_vars
         => [Channel!Next]_(Channel!vars)
  BY ChannelStep
<1>3. QED
  BY <1>1, <1>2, InitInvariant, NextInvariant, LiesAreProvable, PTL
     DEF Spec, ImplementsChannel, Channel!Spec

=============================================================================
