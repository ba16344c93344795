------------------------- MODULE UpdaterAgentProofs -------------------------
(***************************************************************************)
(* Proofs about module UpdaterAgent, for any number of kills, messages and *)
(* rotations: that it is type correct, and that the agent is an honest     *)
(* updater in the sense of module Home.  What HomeProofs shows of Home     *)
(* with an honest updater is cited from there.                             *)
(***************************************************************************)
EXTENDS UpdaterAgent, SequenceTheorems, TLAPS

HP == INSTANCE HomeProofs WITH Honest <- {Agent}

-----------------------------------------------------------------------------
(* The invariant *)

\* A root that Home has computed, or bytes32(0)
Computed(root) == root \in Seq(H!Message) /\ HP!IsPrefix(root, leaves)

\* What is stored, and what was sent out, is about computed roots.
StoredIsComputed ==
    /\ \A r \in DOMAIN produced : Computed(r) /\ Computed(produced[r])
    /\ \A a \in broadcast : Computed(a.oldRoot) /\ Computed(a.newRoot)

\* What the agent has signed is exactly what it has stored, so that a restart
\* forgets none of it.
StoredIsSigned ==
    /\ \A a \in signed : a.oldRoot \in DOMAIN produced /\ a.newRoot = produced[a.oldRoot]
    /\ \A r \in DOMAIN produced : [by |-> Agent, oldRoot |-> r, newRoot |-> produced[r]] \in signed

\* What the producer means to sign is a suggestion of Home, if a stale one.
CandidateIsSuggestion ==
    candidate # None =>
        /\ candidate.oldRoot \in H!Committed
        /\ Computed(candidate.oldRoot) /\ Computed(candidate.newRoot)
        /\ HP!IsStrictPrefix(candidate.oldRoot, candidate.newRoot)

IInv ==
    /\ TypeOK
    /\ HP!QueueIsPending
    /\ HP!UpdatesFormChain
    /\ StoredIsComputed
    /\ StoredIsSigned
    /\ CandidateIsSuggestion

-----------------------------------------------------------------------------
(* Home here and in HomeProofs *)

\* The assumptions of HomeProofs
LEMMA Assumptions ==
    /\ HP!HomeAssumption
    /\ HP!Message = H!Message
  BY AgentAssumption DEF H!HomeAssumption, HP!HomeAssumption, H!Message, HP!Message, H!Root, HP!Root

\* The types of Home are those of HomeProofs.
LEMMA SameTypes == H!TypeOK <=> HP!TypeOK
  BY DEF H!TypeOK, HP!TypeOK, H!Root, HP!Root, H!Message, HP!Message, H!Attestation, HP!Attestation

\* So are its steps.
LEMMA SameSteps ==
    ASSUME [H!Next]_(H!vars)
    PROVE  [HP!Next]_(HP!vars)
<1> USE DEF H!NotFailed, HP!NotFailed, H!Fail, HP!Fail, H!contractVars, HP!contractVars,
            H!managerVars, HP!managerVars
<1>1. H!Presentable = HP!Presentable
  BY DEF H!Presentable, HP!Presentable, H!Prefixes, HP!Prefixes
<1>2. ASSUME NEW d \in Domains, NEW payload \in Payloads, H!Dispatch(d, payload)
      PROVE  HP!Dispatch(d, payload)
  BY <1>2 DEF H!Dispatch, HP!Dispatch, H!TreeHasRoom, HP!TreeHasRoom, H!TakeNonce, HP!TakeNonce,
              H!Enqueue, HP!Enqueue
<1>3. ASSUME NEW u \in Accounts, NEW old \in H!Presentable, NEW new \in H!Presentable,
             H!AcceptUpdate(u, old, new)
      PROVE  HP!AcceptUpdate(u, old, new)
  BY <1>3 DEF H!AcceptUpdate, HP!AcceptUpdate, H!CurrentUpdate, HP!CurrentUpdate, H!DequeueUntil,
              HP!DequeueUntil, H!IsUpdaterSignature, HP!IsUpdaterSignature
<1>4. ASSUME NEW u \in Accounts, NEW old \in H!Presentable, NEW new \in H!Presentable,
             H!ImproperUpdate(u, old, new)
      PROVE  HP!ImproperUpdate(u, old, new)
  BY <1>4 DEF H!ImproperUpdate, HP!ImproperUpdate, H!CurrentUpdate, HP!CurrentUpdate,
              H!IsUpdaterSignature, HP!IsUpdaterSignature, H!ToSet, HP!ToSet
<1>5. ASSUME NEW u \in Accounts, NEW old \in H!Presentable, NEW new1 \in H!Presentable,
             NEW new2 \in H!Presentable, H!DoubleUpdate(u, old, new1, new2)
      PROVE  HP!DoubleUpdate(u, old, new1, new2)
  BY <1>5 DEF H!DoubleUpdate, HP!DoubleUpdate, H!ConflictingUpdates, HP!ConflictingUpdates,
              H!IsUpdaterSignature, HP!IsUpdaterSignature
<1>6. ASSUME NEW m \in Managers, H!SetUpdaterManager(m)
      PROVE  HP!SetUpdaterManager(m)
  BY <1>6 DEF H!SetUpdaterManager, HP!SetUpdaterManager
<1>7. ASSUME NEW m \in Managers, NEW isThisHome \in BOOLEAN, H!SetHome(m, isThisHome)
      PROVE  HP!SetHome(m, isThisHome)
  BY <1>7 DEF H!SetHome, HP!SetHome
<1>8. ASSUME NEW m \in Managers, NEW u \in Accounts, H!SetUpdater(m, u)
      PROVE  HP!SetUpdater(m, u)
  BY <1>8 DEF H!SetUpdater, HP!SetUpdater
<1>9. ASSUME NEW u \in {Agent}, NEW old \in H!Committed, NEW new \in H!Prefixes(leaves),
             H!Attest(u, old, new)
      PROVE  /\ old \in HP!Committed /\ new \in HP!Prefixes(leaves)
             /\ HP!Attest(u, old, new)
  BY <1>9 DEF H!Committed, HP!Committed, H!ZeroRoot, HP!ZeroRoot, H!Prefixes, HP!Prefixes,
              H!Attest, HP!Attest, H!FreshRoot, HP!FreshRoot, H!IsStrictPrefix, HP!IsStrictPrefix,
              H!IsPrefix, HP!IsPrefix
<1>10. CASE UNCHANGED H!vars
  BY <1>10 DEF H!vars, HP!vars
<1>11. CASE H!Next
  BY <1>1, <1>2, <1>3, <1>4, <1>5, <1>6, <1>7, <1>8, <1>9, <1>11
     DEF H!Next, HP!Next, H!Update, HP!Update
<1>12. QED
  BY <1>10, <1>11

\* A computed root is one a caller can present to Home.
LEMMA ComputedIsPresentable ==
    ASSUME H!TypeOK, NEW root, Computed(root)
    PROVE  root \in H!Root /\ root \in H!Prefixes(leaves) /\ root \in H!Presentable
<1>1. leaves \in Seq(H!Message) /\ root \in Seq(H!Message) /\ HP!IsPrefix(root, leaves)
  BY DEF H!TypeOK, Computed
<1>2. Len(root) \in 0 .. Len(leaves) /\ root = SubSeq(leaves, 1, Len(root))
  BY <1>1, Assumptions, HP!PrefixIsSubSeq
<1>3. QED
  BY <1>1, <1>2 DEF H!Root, H!Prefixes, H!Presentable

\* Home forgets neither what it computed nor what it logged.
LEMMA HomeGrows ==
    ASSUME H!TypeOK, [H!Next]_(H!vars)
    PROVE  /\ \A root : Computed(root) => Computed(root)'
           /\ H!Committed \subseteq H!Committed'
           /\ 0 .. Len(updates) \subseteq 0 .. Len(updates')
<1>1. [HP!Next]_(HP!vars) /\ HP!TypeOK
  BY SameSteps, SameTypes
<1>2. leaves \in Seq(H!Message) /\ updates \in Seq(HP!Attestation) /\ Len(updates) \in Nat
  BY <1>1, Assumptions, LenProperties DEF HP!TypeOK
<1>3. CASE \E d \in Domains, payload \in Payloads : HP!Dispatch(d, payload)
  <2>1. PICK m \in H!Message : leaves' = Append(leaves, m) /\ updates' = updates
    BY <1>1, <1>3, Assumptions, HP!DispatchEffect
  <2>2. ASSUME NEW root, Computed(root)
        PROVE  Computed(root)'
    BY <1>2, <2>1, <2>2, Assumptions, HP!PrefixOfAppend DEF Computed
  <2>3. QED
    BY <2>1, <2>2 DEF H!Committed
<1>4. ASSUME NEW u \in Accounts, NEW old \in HP!Presentable, NEW new \in HP!Presentable,
             HP!AcceptUpdate(u, old, new)
      PROVE  /\ leaves' = leaves
             /\ Len(updates') = Len(updates) + 1
             /\ \A i \in 1 .. Len(updates) : updates'[i] = updates[i]
  <2> DEFINE e == [by |-> u, oldRoot |-> old, newRoot |-> new]
  <2>1. leaves' = leaves /\ updates' = Append(updates, e)
    BY <1>4 DEF HP!AcceptUpdate
  <2>2. e \in HP!Attestation
    BY <1>1, Assumptions, HP!PresentableIsRoot DEF HP!Attestation
  <2> HIDE DEF e
  <2>3. QED
    BY <1>2, <2>1, <2>2, AppendProperties
<1>5. CASE \E u \in Accounts, old \in HP!Presentable, new \in HP!Presentable :
               HP!AcceptUpdate(u, old, new)
  <2>1. /\ leaves' = leaves
        /\ Len(updates') = Len(updates) + 1
        /\ \A i \in 1 .. Len(updates) : updates'[i] = updates[i]
    BY <1>4, <1>5
  <2>2. \A i \in 1 .. Len(updates) : i \in 1 .. Len(updates')
    BY <1>2, <2>1
  <2>3. H!Committed \subseteq H!Committed'
    BY <2>1, <2>2 DEF H!Committed
  <2>4. QED
    BY <1>2, <2>1, <2>3 DEF Computed
<1>6. CASE UNCHANGED <<leaves, updates>>
  BY <1>6 DEF Computed, H!Committed
<1>7. QED
  BY <1>1, <1>3, <1>5, <1>6, Assumptions, HP!ChainSteps

-----------------------------------------------------------------------------
(* The agent's steps, as Home sees them *)

\* The producer signs a root at most once, over restarts too; the others only
\* carry what is signed.
LEMMA StepOfHome ==
    ASSUME IInv, [Next]_vars
    PROVE  [H!Next]_(H!vars)
<1> USE DEF homeVars, agentVars, indexVars, produceVars, submitVars, H!vars, H!contractVars,
            H!managerVars
<1>1. ASSUME Exit
      PROVE  UNCHANGED H!vars
  BY <1>1 DEF Exit
<1>2. CASE Start \/ Stop \/ Index \/ Suggest \/ Recheck \/ ReadRoot \/ Submit \/ Receipt
  BY <1>1, <1>2 DEF Start, Stop, Index, Suggest, Recheck, ReadRoot, Submit, Receipt
<1>3. CASE SignAndStore
  <2>1. CASE Conflicts(candidate)
    BY <1>1, <1>3, <2>1 DEF SignAndStore
  <2> DEFINE a == [by |-> Agent, oldRoot |-> candidate.oldRoot, newRoot |-> candidate.newRoot]
  <2>2. CASE ~Conflicts(candidate)
    <3>1. UNCHANGED homeVars /\ signed' = signed \cup {a}
      BY <1>3, <2>2 DEF SignAndStore
    <3>2. /\ candidate.oldRoot \in H!Committed
          /\ candidate.newRoot \in H!Prefixes(leaves)
          /\ H!IsStrictPrefix(candidate.oldRoot, candidate.newRoot)
      <4>1. candidate # None
        BY <1>3 DEF SignAndStore, IInv, TypeOK
      <4>2. QED
        BY <4>1, ComputedIsPresentable DEF IInv, TypeOK, CandidateIsSuggestion, H!IsStrictPrefix,
             HP!IsStrictPrefix, H!IsPrefix, HP!IsPrefix
    <3>3. CASE candidate.oldRoot \in DOMAIN produced
      <4>1. produced[candidate.oldRoot] = candidate.newRoot
        BY <2>2, <3>3 DEF Conflicts
      <4>2. a \in signed
        BY <3>3, <4>1 DEF IInv, StoredIsSigned
      <4>3. signed' = signed
        BY <3>1, <4>2
      <4>4. QED
        BY <3>1, <4>3
    <3>4. CASE candidate.oldRoot \notin DOMAIN produced
      <4>1. H!FreshRoot(Agent, candidate.oldRoot)
        BY <3>4 DEF IInv, StoredIsSigned, H!FreshRoot
      <4>2. H!Attest(Agent, candidate.oldRoot, candidate.newRoot)
        BY <3>1, <3>2, <4>1 DEF H!Attest
      <4>3. QED
        BY <3>2, <4>2 DEF H!Next
    <3>5. QED
      BY <3>3, <3>4
  <2>3. QED
    BY <2>1, <2>2
<1>4. CASE Include
  <2>1. PICK a \in broadcast : H!Update(Agent, a.oldRoot, a.newRoot)
    BY <1>4 DEF Include, OnChain
  <2>2. a.oldRoot \in H!Presentable /\ a.newRoot \in H!Presentable
    BY ComputedIsPresentable DEF IInv, TypeOK, StoredIsComputed
  <2>3. QED
    BY <2>1, <2>2, AgentAssumption DEF H!Next
<1>5. CASE Chain
  BY <1>5, AgentAssumption DEF Chain, OnChain, H!Next
<1>6. CASE UNCHANGED vars
  BY <1>6 DEF vars
<1>7. QED
  BY <1>2, <1>3, <1>4, <1>5, <1>6 DEF Next

-----------------------------------------------------------------------------
(* The invariant is kept *)

\* What Home suggests now is a computed root beyond the committed one.
LEMMA SuggestionIsFresh ==
    ASSUME IInv, queue # <<>>
    PROVE  /\ committedRoot \in H!Committed
           /\ Computed(committedRoot) /\ Computed(Last(queue))
           /\ HP!IsStrictPrefix(committedRoot, Last(queue))
<1>1. /\ leaves \in Seq(H!Message) /\ committedRoot \in Seq(H!Message)
      /\ queue \in Seq(H!Root) /\ updates \in Seq(H!Attestation)
      /\ HP!QueueIsPending
  BY DEF IInv, TypeOK, H!TypeOK, H!Root
<1>2. committedRoot \in H!Committed
  <2>1. CASE updates = <<>>
    BY <2>1 DEF IInv, HP!UpdatesFormChain, H!Committed, H!ZeroRoot, HP!ZeroRoot
  <2>2. CASE updates # <<>>
    <3>1. Len(updates) \in 1 .. Len(updates)
      BY <1>1, <2>2, EmptySeq
    <3>2. QED
      BY <2>2, <3>1 DEF IInv, HP!UpdatesFormChain, HP!Last, H!Committed
  <2>3. QED
    BY <2>1, <2>2
<1>3. /\ Len(queue) \in Nat \ {0} /\ Len(committedRoot) \in Nat /\ Len(leaves) \in Nat
      /\ Len(committedRoot) + Len(queue) = Len(leaves)
  BY <1>1, EmptySeq, LenProperties DEF HP!QueueIsPending
<1>4. Last(queue) = SubSeq(leaves, 1, Len(leaves))
  BY <1>1, <1>3 DEF Last, HP!QueueIsPending
<1>5. Last(queue) = leaves /\ HP!IsPrefix(leaves, leaves)
  BY <1>1, <1>4, SubSeqFull, <1>3 DEF HP!IsPrefix
<1>6. HP!IsPrefix(committedRoot, leaves) /\ committedRoot # leaves
  BY <1>1, <1>3 DEF HP!QueueIsPending
<1>7. QED
  BY <1>1, <1>2, <1>5, <1>6 DEF Computed, HP!IsStrictPrefix

\* The initial state satisfies the invariant.
LEMMA InitInvariant == Init => IInv
<1> SUFFICES ASSUME Init
             PROVE  IInv
  OBVIOUS
<1>1. HP!Init
  BY DEF Init, H!Init, HP!Init, H!ZeroRoot, HP!ZeroRoot
<1>2. HP!TypeOK /\ HP!QueueIsPending
  BY <1>1, Assumptions, HP!TypeInit, HP!QueueInit
<1>3. HP!UpdatesFormChain
  BY <1>1, EmptySeq DEF HP!Init, HP!UpdatesFormChain
<1>4. updates = <<>> /\ signed = {}
  BY <1>1 DEF HP!Init
<1>5. TypeOK
  <2>1. H!TypeOK
    BY <1>2, SameTypes
  <2>2. cursor \in 0 .. Len(updates) /\ stops \in 0 .. MaxStops
    BY <1>4, AgentAssumption, EmptySeq DEF Init
  <2>3. DOMAIN produced = {} /\ (candidate = None) = (stage = "polling")
    BY DEF Init
  <2>4. QED
    BY <2>1, <2>2, <2>3 DEF Init, TypeOK
<1>6. StoredIsComputed /\ StoredIsSigned /\ CandidateIsSuggestion
  BY <1>4 DEF Init, StoredIsComputed, StoredIsSigned, CandidateIsSuggestion
<1>7. QED
  BY <1>2, <1>3, <1>5, <1>6 DEF IInv

\* What the invariant says of Home, in the next state.
LEMMA HomeNext ==
    ASSUME IInv, [Next]_vars
    PROVE  /\ (H!TypeOK /\ HP!QueueIsPending /\ HP!UpdatesFormChain)'
           /\ \A root : Computed(root) => Computed(root)'
           /\ H!Committed \subseteq H!Committed'
           /\ cursor \in 0 .. Len(updates')
<1>1. [H!Next]_(H!vars) /\ H!TypeOK
  BY StepOfHome DEF IInv, TypeOK
<1>2. [HP!Next]_(HP!vars) /\ HP!TypeOK
  BY <1>1, SameSteps, SameTypes
<1>3. (HP!TypeOK /\ HP!QueueIsPending /\ HP!UpdatesFormChain)'
  BY <1>2, Assumptions, HP!TypeNext, HP!QueueNext, HP!ChainNext DEF IInv
<1>4. H!TypeOK'
  BY <1>3 DEF H!TypeOK, HP!TypeOK, H!Root, HP!Root, H!Message, HP!Message, H!Attestation, HP!Attestation
<1>5. QED
  BY <1>1, <1>3, <1>4, HomeGrows DEF IInv, TypeOK

\* The process ends: what is left is in the database or sent out.
LEMMA ExitKeeps ==
    ASSUME IInv, [Next]_vars, Exit, stops' \in 0 .. MaxStops
    PROVE  IInv'
<1> USE HomeNext DEF homeVars, indexVars
<1>1. TypeOK'
  BY DEF Exit, IInv, TypeOK
<1>2. StoredIsComputed'
  BY DEF Exit, IInv, StoredIsComputed
<1>3. StoredIsSigned' /\ CandidateIsSuggestion'
  BY DEF Exit, IInv, StoredIsSigned, CandidateIsSuggestion
<1>4. QED
  BY <1>1, <1>2, <1>3 DEF IInv

\* Steps that neither suggest, sign nor submit
LEMMA OthersKeep ==
    ASSUME IInv, [Next]_vars, TypeOK', UNCHANGED <<produced, broadcast, signed>>,
           candidate' = candidate \/ candidate' = None
    PROVE  IInv'
<1>1. StoredIsComputed'
  BY HomeNext DEF IInv, StoredIsComputed
<1>2. StoredIsSigned'
  BY DEF IInv, StoredIsSigned
<1>3. CandidateIsSuggestion'
  BY HomeNext DEF IInv, CandidateIsSuggestion
<1>4. QED
  BY <1>1, <1>2, <1>3, HomeNext DEF IInv

\* Every step keeps the invariant.
LEMMA NextInvariant == IInv /\ [Next]_vars => IInv'
<1> SUFFICES ASSUME IInv, [Next]_vars
             PROVE  IInv'
  OBVIOUS
<1> USE DEF homeVars, agentVars, indexVars, produceVars, submitVars
<1>1. CASE Start
  <2>1. TypeOK'
    BY <1>1, HomeNext DEF Start, ResumePoints, IInv, TypeOK
  <2>2. QED
    BY <1>1, <2>1, OthersKeep DEF Start
<1>2. CASE Stop
  <2>1. stops' \in 0 .. MaxStops
    BY <1>2, AgentAssumption DEF Stop, IInv, TypeOK
  <2>2. QED
    BY <1>2, <2>1, ExitKeeps DEF Stop
<1>3. CASE Index
  <2>1. cursor' \in 1 .. Len(updates)
    BY <1>3, LenProperties DEF Index, IInv, TypeOK, H!TypeOK
  <2>2. updates[cursor'] \in H!Attestation
    BY <2>1, ElementOfSeq DEF IInv, TypeOK, H!TypeOK
  <2>3. TypeOK'
    BY <1>3, <2>1, <2>2, HomeNext DEF Index, IInv, TypeOK, H!Attestation
  <2>4. QED
    BY <1>3, <2>3, OthersKeep DEF Index
<1>4. CASE Suggest
  <2>1. /\ committedRoot \in H!Committed
        /\ Computed(committedRoot) /\ Computed(Last(queue))
        /\ HP!IsStrictPrefix(committedRoot, Last(queue))
    BY <1>4, SuggestionIsFresh DEF Suggest
  <2> DEFINE c == [oldRoot |-> committedRoot, newRoot |-> Last(queue)]
  <2>2. c \in Update /\ c # None /\ c.oldRoot = committedRoot /\ c.newRoot = Last(queue)
    BY <2>1, AgentAssumption DEF Update, H!Root, Computed
  <2>3. /\ candidate' = c /\ stage' = "pausing"
        /\ UNCHANGED <<homeVars, running, indexVars, produced, signed, submitVars, stops>>
    BY <1>4 DEF Suggest
  <2> HIDE DEF c
  <2>4. TypeOK'
    BY <2>2, <2>3, HomeNext DEF IInv, TypeOK
  <2>5. CandidateIsSuggestion'
    BY <2>1, <2>2, <2>3, HomeNext DEF CandidateIsSuggestion
  <2>6. (StoredIsComputed /\ StoredIsSigned)'
    BY <2>3, HomeNext DEF IInv, StoredIsComputed, StoredIsSigned
  <2>7. QED
    BY <2>4, <2>5, <2>6, HomeNext DEF IInv
<1>5. CASE Recheck
  <2>1. TypeOK'
    BY <1>5, HomeNext DEF Recheck, IInv, TypeOK
  <2>2. QED
    BY <1>5, <2>1, OthersKeep DEF Recheck
<1>6. CASE SignAndStore
  <2>1. CASE Conflicts(candidate)
    BY <1>6, <2>1, ExitKeeps DEF SignAndStore, IInv, TypeOK
  <2>2. CASE ~Conflicts(candidate)
    <3> DEFINE old == candidate.oldRoot
               new == candidate.newRoot
               a == [by |-> Agent, oldRoot |-> old, newRoot |-> new]
    <3>1. candidate \in Update /\ candidate # None
      BY <1>6 DEF SignAndStore, IInv, TypeOK
    <3>2. Computed(old) /\ Computed(new) /\ old \in H!Root /\ new \in H!Root
      BY <3>1 DEF IInv, CandidateIsSuggestion, Update
    <3>3. /\ DOMAIN produced' = DOMAIN produced \cup {old}
          /\ produced'[old] = new
          /\ \A r \in DOMAIN produced : r # old => produced'[r] = produced[r]
      BY <1>6, <2>2 DEF SignAndStore
    <3>4. old \in DOMAIN produced => produced[old] = new
      BY <2>2 DEF Conflicts
    <3>5. /\ signed' = signed \cup {a} /\ stage' = "polling" /\ candidate' = None
          /\ UNCHANGED <<homeVars, running, indexVars, submitVars, stops>>
      BY <1>6, <2>2 DEF SignAndStore
    <3>6. a.oldRoot = old /\ a.newRoot = new
      OBVIOUS
    <3>7. StoredIsSigned'
      BY <3>3, <3>4, <3>5, <3>6 DEF IInv, StoredIsSigned
    <3> HIDE DEF old, new, a
    <3>8. TypeOK'
      BY <3>2, <3>3, <3>5, HomeNext DEF IInv, TypeOK
    <3>9. StoredIsComputed'
      BY <3>2, <3>3, <3>5, HomeNext DEF IInv, StoredIsComputed
    <3>10. CandidateIsSuggestion'
      BY <3>5 DEF CandidateIsSuggestion
    <3>11. QED
      BY <3>7, <3>8, <3>9, <3>10, HomeNext DEF IInv
  <2>3. QED
    BY <2>1, <2>2
<1>7. CASE ReadRoot
  <2>1. TypeOK'
    BY <1>7, HomeNext DEF ReadRoot, IInv, TypeOK, H!TypeOK
  <2>2. QED
    BY <1>7, <2>1, OthersKeep DEF ReadRoot
<1>8. CASE Submit
  <2> DEFINE a == [oldRoot |-> submitterRoot, newRoot |-> produced[submitterRoot]]
  <2>1. CASE Executable(a)
    <3>1. /\ pending' = a /\ broadcast' = broadcast \cup {a}
          /\ submitterRoot \in DOMAIN produced
          /\ UNCHANGED <<homeVars, running, indexVars, produceVars, submitterRoot, stops>>
      BY <1>8, <2>1 DEF Submit
    <3>2. a \in Update /\ a.oldRoot = submitterRoot /\ a.newRoot = produced[submitterRoot]
      BY <3>1 DEF IInv, TypeOK, Update
    <3> HIDE DEF a
    <3>3. TypeOK'
      BY <3>1, <3>2, HomeNext DEF IInv, TypeOK
    <3>4. StoredIsComputed'
      BY <3>1, <3>2, HomeNext DEF IInv, StoredIsComputed
    <3>5. StoredIsSigned' /\ CandidateIsSuggestion'
      BY <3>1, HomeNext DEF IInv, StoredIsSigned, CandidateIsSuggestion
    <3>6. QED
      BY <3>3, <3>4, <3>5, HomeNext DEF IInv
  <2>2. CASE ~Executable(a)
    BY <1>8, <2>2, ExitKeeps DEF Submit, IInv, TypeOK
  <2>3. QED
    BY <2>1, <2>2
<1>9. CASE Receipt
  <2>1. TypeOK'
    BY <1>9, HomeNext DEF Receipt, IInv, TypeOK, Update
  <2>2. QED
    BY <1>9, <2>1, OthersKeep DEF Receipt
<1>10. CASE (Include \/ Chain) \/ UNCHANGED vars
  <2>1. UNCHANGED <<agentVars>>
    BY <1>10 DEF Include, Chain, OnChain, vars
  <2>2. TypeOK'
    BY <2>1, HomeNext DEF IInv, TypeOK
  <2>3. QED
    BY <2>1, <2>2, OthersKeep
<1>11. QED
  BY <1>1, <1>2, <1>3, <1>4, <1>5, <1>6, <1>7, <1>8, <1>9, <1>10 DEF Next

\* Types hold, and the indexer is never ahead of the chain, whatever the number
\* of kills, messages, keys and rotations.
THEOREM TypeCorrect == Spec => []TypeOK
<1>1. IInv => TypeOK
  BY DEF IInv
<1>2. QED
  BY <1>1, InitInvariant, NextInvariant, PTL DEF Spec

\* For any number of kills and restarts, stale reads and rotations, what the
\* agent makes public is what module Home takes an honest updater to sign.
THEOREM AgentIsHonest == Spec => ImplementsHome
<1>1. Init => H!Init
  BY DEF Init
<1>2. IInv /\ [Next]_vars => [H!Next]_(H!vars)
  BY StepOfHome
<1>3. QED
  BY <1>1, <1>2, InitInvariant, NextInvariant, PTL DEF Spec, ImplementsHome, H!Spec

-----------------------------------------------------------------------------
(* The submitter *)

\* The submitter's transaction is about an update that is stored, and either
\* is still to run or has run.
PendingIsAhead ==
    pending # None =>
        /\ pending.oldRoot \in DOMAIN produced /\ pending.newRoot = produced[pending.oldRoot]
        /\ pending.newRoot \in H!Committed \/ pending.oldRoot = committedRoot

\* What is true of the submitter as long as the key is in office
SubmitterBehind ==
    /\ state # "Failed"
    /\ submitterRoot # None => submitterRoot \in H!Committed
    /\ PendingIsAhead

\* The log of updates ends in the committed root.
LEMMA CommittedRootIsLogged ==
    ASSUME IInv
    PROVE  committedRoot \in H!Committed
<1>1. CASE updates = <<>>
  BY <1>1 DEF IInv, HP!UpdatesFormChain, H!Committed, H!ZeroRoot, HP!ZeroRoot
<1>2. CASE updates # <<>>
  <2>1. Len(updates) \in 1 .. Len(updates)
    BY <1>2, EmptySeq, LenProperties DEF IInv, TypeOK, H!TypeOK
  <2>2. QED
    BY <1>2, <2>1 DEF IInv, HP!UpdatesFormChain, HP!Last, H!Committed
<1>3. QED
  BY <1>1, <1>2

\* Home does not fail while the agent is its updater.
LEMMA HomeStaysActive ==
    ASSUME state # "Failed", updater = Agent, HP!HonestNeverSlashed', [H!Next]_(H!vars)
    PROVE  state' # "Failed"
<1>1. ASSUME H!Fail
      PROVE  FALSE
  BY <1>1 DEF H!Fail, HP!HonestNeverSlashed
<1>2. state' = state \/ H!Fail
  BY DEF H!Next, H!vars, H!contractVars, H!managerVars, H!Dispatch, H!Update, H!AcceptUpdate,
         H!ImproperUpdate, H!DoubleUpdate, H!SetUpdaterManager, H!SetHome, H!SetUpdater, H!Attest
<1>3. QED
  BY <1>1, <1>2

\* The update the submitter waits for is the only one Home can accept from its
\* old root.
LEMMA PendingRuns ==
    ASSUME IInv, PendingIsAhead, updater = Agent, [Next]_vars,
           pending' = pending, pending # None
    PROVE  pending.newRoot \in H!Committed' \/ pending.oldRoot = committedRoot'
<1>1. [HP!Next]_(HP!vars) /\ HP!TypeOK
  BY StepOfHome, SameSteps, SameTypes DEF IInv, TypeOK
<1>2. CASE pending.newRoot \in H!Committed
  BY <1>2, HomeNext
<1>3. CASE committedRoot' = committedRoot
  BY <1>2, <1>3 DEF PendingIsAhead
<1>4. ASSUME NEW u \in Accounts, NEW old \in HP!Presentable, NEW new \in HP!Presentable,
             HP!AcceptUpdate(u, old, new), pending.oldRoot = committedRoot
      PROVE  pending.newRoot \in H!Committed'
  <2>1. /\ old = committedRoot /\ committedRoot' = new
        /\ [by |-> Agent, oldRoot |-> old, newRoot |-> new] \in signed
    BY <1>4 DEF HP!AcceptUpdate, HP!CurrentUpdate, HP!IsUpdaterSignature
  <2>2. new = produced[old]
    BY <2>1 DEF IInv, StoredIsSigned
  <2>3. pending.newRoot = committedRoot'
    BY <1>4, <2>1, <2>2 DEF PendingIsAhead
  <2>4. IInv'
    BY NextInvariant
  <2>5. (committedRoot \in H!Committed)'
    BY <2>4, CommittedRootIsLogged, PTL
  <2>6. QED
    BY <2>3, <2>5
<1>5. CASE committedRoot' # committedRoot /\ pending.newRoot \notin H!Committed
  <2>1. PICK u \in Accounts, old \in HP!Presentable, new \in HP!Presentable : HP!AcceptUpdate(u, old, new)
    BY <1>1, <1>5, HP!ChainSteps, Assumptions DEF HP!Dispatch
  <2>2. QED
    BY <1>4, <1>5, <2>1 DEF PendingIsAhead
<1>6. QED
  BY <1>2, <1>3, <1>5

\* While the key is in office every step keeps the submitter behind the chain.
LEMMA SubmitterNext ==
    ASSUME IInv, SubmitterBehind, updater = Agent, HP!HonestNeverSlashed', [Next]_vars
    PROVE  SubmitterBehind'
<1> USE DEF homeVars, agentVars, indexVars, produceVars, submitVars
<1>1. state' # "Failed" /\ H!Committed \subseteq H!Committed'
  BY StepOfHome, HomeStaysActive, HomeNext DEF SubmitterBehind
<1>2. \A r \in DOMAIN produced : r \in DOMAIN produced' /\ produced'[r] = produced[r]
  <2>1. CASE SignAndStore
    BY <2>1 DEF SignAndStore, Exit, Conflicts
  <2>2. CASE UNCHANGED produced
    BY <2>2
  <2>3. QED
    BY <2>1, <2>2 DEF Next, Start, Stop, Exit, Index, Suggest, Recheck, ReadRoot, Submit, Receipt,
                      Include, Chain, OnChain, vars
<1>3. CASE UNCHANGED <<submitterRoot, pending>>
  <2>1. PendingIsAhead'
    <3>1. pending # None => pending.newRoot \in H!Committed' \/ pending.oldRoot = committedRoot'
      BY <1>3, PendingRuns DEF SubmitterBehind
    <3>2. QED
      BY <1>2, <1>3, <3>1 DEF SubmitterBehind, PendingIsAhead
  <2>2. QED
    BY <1>1, <1>3, <2>1 DEF SubmitterBehind
<1>4. CASE submitterRoot' = None /\ pending' = None
  BY <1>1, <1>4 DEF SubmitterBehind, PendingIsAhead
<1>5. CASE ReadRoot
  <2>1. /\ submitterRoot' = committedRoot /\ pending' = pending
        /\ UNCHANGED <<committedRoot, updates, produced>>
    BY <1>5 DEF ReadRoot
  <2>2. committedRoot \in H!Committed'
    BY <1>1, CommittedRootIsLogged
  <2>3. PendingIsAhead'
    BY <1>1, <2>1 DEF SubmitterBehind, PendingIsAhead
  <2>4. QED
    BY <1>1, <2>1, <2>2, <2>3 DEF SubmitterBehind
<1>6. CASE Submit
  <2> DEFINE a == [oldRoot |-> submitterRoot, newRoot |-> produced[submitterRoot]]
  <2>1. CASE Executable(a)
    <3>1. /\ submitterRoot \in DOMAIN produced /\ pending' = a /\ submitterRoot' = submitterRoot
          /\ UNCHANGED <<committedRoot, updates, produced>>
      BY <1>6, <2>1 DEF Submit
    <3>2. committedRoot = a.oldRoot
      BY <2>1 DEF Executable
    <3>3. PendingIsAhead'
      BY <3>1, <3>2 DEF PendingIsAhead
    <3>4. QED
      BY <1>1, <3>1, <3>3 DEF SubmitterBehind
  <2>2. CASE ~Executable(a)
    BY <1>4, <1>6, <2>2 DEF Submit, Exit
  <2>3. QED
    BY <2>1, <2>2
<1>7. CASE Receipt
  <2>1. /\ pending # None /\ ~Executable(pending)
        /\ submitterRoot' = pending.newRoot /\ pending' = None
    BY <1>7 DEF Receipt
  <2>2. pending.newRoot \in H!Committed
    BY <2>1 DEF Executable, SubmitterBehind, PendingIsAhead
  <2>3. QED
    BY <1>1, <2>1, <2>2 DEF SubmitterBehind, PendingIsAhead
<1>8. QED
  BY <1>3, <1>4, <1>5, <1>6, <1>7
     DEF Next, Start, Stop, Exit, Index, Suggest, Recheck, SignAndStore, Include, Chain, OnChain, vars

\* While the agent's key stays in office, the submitter, which never looks at
\* the outcome of its transaction, is never ahead of the chain: however often
\* the process was killed, and whatever was broadcast before.
THEOREM SubmitterStaysBehind == Spec => SubmitterNotAhead
<1>1. Init => SubmitterBehind
  BY DEF Init, H!Init, SubmitterBehind, PendingIsAhead
<1>2. SubmitterBehind => (submitterRoot # None => submitterRoot \in H!Committed)
  BY DEF SubmitterBehind
<1>3. IInv /\ SubmitterBehind /\ updater = Agent /\ HP!HonestNeverSlashed' /\ [Next]_vars
         => SubmitterBehind'
  BY SubmitterNext
<1>4. Init => HP!Init
  BY DEF Init, H!Init, HP!Init, H!ZeroRoot, HP!ZeroRoot
<1>5. IInv /\ [Next]_vars => [HP!Next]_(HP!vars)
  BY StepOfHome, SameSteps
<1>6. HP!Spec => [](HP!AttestationsStayProper /\ HP!HonestNeverSlashed)
  BY Assumptions, HP!HonestSafe
<1>7. QED
  BY <1>1, <1>2, <1>3, <1>4, <1>5, <1>6, InitInvariant, NextInvariant, PTL
     DEF Spec, SubmitterNotAhead, HP!Spec

=============================================================================
