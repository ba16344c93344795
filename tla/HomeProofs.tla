----------------------------- MODULE HomeProofs -----------------------------
(***************************************************************************)
(* Proofs about module Home, for every value of its constants.             *)
(***************************************************************************)
EXTENDS Home, SequenceTheorems, TLAPS

-----------------------------------------------------------------------------
(* Prefixes *)

\* A prefix agrees with the whole at each of its positions: the form in
\* which the proofs below use IsPrefix.
LEMMA PrefixPointwise ==
    ASSUME NEW S, NEW s \in Seq(S), NEW t \in Seq(S)
    PROVE  IsPrefix(s, t) <=> Len(s) <= Len(t) /\ \A i \in 1 .. Len(s) : s[i] = t[i]
<1>1. /\ Len(s) \in Nat /\ Len(t) \in Nat
      /\ SubSeq(s, 1, Len(s)) = s
  BY LenProperties, SubSeqFull
<1>2. ASSUME Len(s) <= Len(t)
      PROVE  SubSeq(t, 1, Len(s)) = s <=> \A i \in 1 .. Len(s) : s[i] = t[i]
  <2>1. /\ SubSeq(t, 1, Len(s)) \in Seq(S)
        /\ Len(SubSeq(t, 1, Len(s))) = Len(s)
        /\ \A i \in 1 .. Len(s) : SubSeq(t, 1, Len(s))[i] = t[i]
    BY <1>1, <1>2, SubSeqProperties
  <2>2. QED
    BY <2>1, SeqEqual
<1>3. QED
  BY <1>1, <1>2 DEF IsPrefix

\* The first k elements of a sequence are a prefix of it, of length k.
LEMMA SubSeqIsPrefix ==
    ASSUME NEW S, NEW t \in Seq(S), NEW k \in 0 .. Len(t)
    PROVE  /\ SubSeq(t, 1, k) \in Seq(S)
           /\ Len(SubSeq(t, 1, k)) = k
           /\ IsPrefix(SubSeq(t, 1, k), t)
<1>1. /\ SubSeq(t, 1, k) \in Seq(S)
      /\ Len(SubSeq(t, 1, k)) = k
      /\ \A i \in 1 .. k : SubSeq(t, 1, k)[i] = t[i]
  BY LenProperties, SubSeqProperties
<1>2. \A p \in Seq(S) :
         Len(p) = k /\ (\A i \in 1 .. k : p[i] = t[i]) => IsPrefix(p, t)
  BY LenProperties, PrefixPointwise
<1>3. QED
  BY <1>1, <1>2

\* A prefix of t is made of the first elements of t.
LEMMA PrefixIsSubSeq ==
    ASSUME NEW S, NEW s \in Seq(S), NEW t \in Seq(S), IsPrefix(s, t)
    PROVE  /\ Len(s) \in 0 .. Len(t)
           /\ s = SubSeq(t, 1, Len(s))
  BY LenProperties, SubSeqFull DEF IsPrefix

\* Appending to the whole leaves its prefixes prefixes.
LEMMA PrefixOfAppend ==
    ASSUME NEW S, NEW s \in Seq(S), NEW t \in Seq(S), NEW x \in S, IsPrefix(s, t)
    PROVE  IsPrefix(s, Append(t, x))
<1>1. /\ Append(t, x) \in Seq(S)
      /\ Len(Append(t, x)) = Len(t) + 1
      /\ \A i \in 1 .. Len(t) : Append(t, x)[i] = t[i]
      /\ Len(s) \in Nat /\ Len(t) \in Nat
  BY AppendProperties, LenProperties
<1>2. Len(s) <= Len(t) /\ \A i \in 1 .. Len(s) : s[i] = t[i]
  BY PrefixPointwise
<1>3. \A p \in Seq(S) :
         Len(s) <= Len(p) /\ (\A i \in 1 .. Len(s) : s[i] = p[i]) => IsPrefix(s, p)
  BY PrefixPointwise
<1>4. Len(s) <= Len(Append(t, x)) /\ \A i \in 1 .. Len(s) : s[i] = Append(t, x)[i]
  BY <1>1, <1>2
<1>5. QED
  BY <1>1, <1>3, <1>4

\* Of two prefixes of one sequence the shorter is a prefix of the longer.
LEMMA PrefixesAreNested ==
    ASSUME NEW S, NEW s1 \in Seq(S), NEW s2 \in Seq(S), NEW t \in Seq(S),
           IsPrefix(s1, t), IsPrefix(s2, t), Len(s1) <= Len(s2)
    PROVE  IsPrefix(s1, s2)
<1>1. /\ \A i \in 1 .. Len(s1) : s1[i] = t[i]
      /\ \A i \in 1 .. Len(s2) : s2[i] = t[i]
      /\ Len(s1) \in Nat /\ Len(s2) \in Nat
  BY PrefixPointwise, LenProperties
<1>2. QED
  BY <1>1, PrefixPointwise

\* Appending does not change the first elements.
LEMMA SubSeqOfAppend ==
    ASSUME NEW S, NEW t \in Seq(S), NEW x \in S, NEW k \in 0 .. Len(t)
    PROVE  SubSeq(Append(t, x), 1, k) = SubSeq(t, 1, k)
<1>1. /\ Append(t, x) \in Seq(S)
      /\ Len(Append(t, x)) = Len(t) + 1
      /\ \A i \in 1 .. Len(t) : Append(t, x)[i] = t[i]
      /\ Len(t) \in Nat
  BY AppendProperties, LenProperties
<1>2. /\ SubSeq(Append(t, x), 1, k) \in Seq(S)
      /\ Len(SubSeq(Append(t, x), 1, k)) = k
      /\ \A i \in 1 .. k : SubSeq(Append(t, x), 1, k)[i] = Append(t, x)[i]
  BY <1>1, SubSeqProperties
<1>3. /\ SubSeq(t, 1, k) \in Seq(S)
      /\ Len(SubSeq(t, 1, k)) = k
      /\ \A i \in 1 .. k : SubSeq(t, 1, k)[i] = t[i]
  BY <1>1, SubSeqProperties
<1>4. QED
  BY <1>1, <1>2, <1>3, SeqEqual

-----------------------------------------------------------------------------
(* Types *)

\* Whoever calls Home presents a sequence of messages.
LEMMA PresentableIsRoot ==
    ASSUME TypeOK
    PROVE  Presentable \subseteq Root
<1>1. \A k \in 0 .. Len(leaves) : SubSeq(leaves, 1, k) \in Seq(Message)
  BY SubSeqIsPrefix DEF TypeOK
<1>2. QED
  BY <1>1, HomeAssumption DEF Presentable, Prefixes, Root

\* A root that has been committed is a sequence of messages.
LEMMA CommittedIsRoot ==
    ASSUME TypeOK
    PROVE  Committed \subseteq Root
<1>1. ZeroRoot \in Root
  BY EmptySeq DEF ZeroRoot, Root
<1>2. ASSUME NEW i \in 1 .. Len(updates)
      PROVE  updates[i].newRoot \in Root
  <2>1. updates[i] \in Attestation
    BY ElementOfSeq DEF TypeOK
  <2>2. QED
    BY <2>1 DEF Attestation
<1>3. QED
  BY <1>1, <1>2 DEF Committed

\* The initial state has the declared types.
LEMMA TypeInit == Init => TypeOK
  BY HomeAssumption, EmptySeq DEF Init, TypeOK, Root, ZeroRoot

\* _fail changes only the state and the record of who was slashed.
LEMMA TypeFail ==
    ASSUME TypeOK, Fail, UNCHANGED <<managerVars, signed>>
    PROVE  TypeOK'
  BY DEF TypeOK, Fail, managerVars

\* Every step preserves the declared types.
LEMMA TypeNext == TypeOK /\ [Next]_vars => TypeOK'
<1> SUFFICES ASSUME TypeOK, [Next]_vars
             PROVE  TypeOK'
  OBVIOUS
<1>1. ASSUME NEW d \in Domains, NEW payload \in Payloads, Dispatch(d, payload)
      PROVE  TypeOK'
  <2> DEFINE m == [destination |-> d, nonce |-> nonces[d], payload |-> payload]
  <2>1. m \in Message
    BY DEF TypeOK, Message
  <2>2. leaves' \in Seq(Message) /\ Len(leaves') = Len(leaves) + 1
    BY <1>1, <2>1, AppendProperties DEF TypeOK, Dispatch
  <2>3. Len(leaves') <= MaxLeaves
    BY <1>1, <2>2, LenProperties, HomeAssumption DEF TypeOK, Dispatch, TreeHasRoom
  <2>4. nonces' \in [Domains -> 0 .. NonceSpace - 1]
    <3>1. (nonces[d] + 1) % NonceSpace \in 0 .. NonceSpace - 1
      BY HomeAssumption DEF TypeOK
    <3>2. QED
      BY <1>1, <3>1 DEF TypeOK, Dispatch, TakeNonce
  <2>5. queue' \in Seq(Root)
    BY <1>1, <2>2, AppendProperties DEF TypeOK, Dispatch, Enqueue, Root
  <2>6. QED
    BY <1>1, <2>2, <2>3, <2>4, <2>5 DEF TypeOK, Dispatch, managerVars
<1>2. ASSUME NEW u \in Accounts, NEW old \in Presentable, NEW new \in Presentable,
             ImproperUpdate(u, old, new)
      PROVE  TypeOK'
  BY <1>2, TypeFail DEF ImproperUpdate
<1>3. ASSUME NEW u \in Accounts, NEW old \in Presentable, NEW new \in Presentable,
             Update(u, old, new)
      PROVE  TypeOK'
  <2>1. CASE ImproperUpdate(u, old, new)
    BY <1>2, <2>1
  <2>2. CASE AcceptUpdate(u, old, new)
    <3>1. old \in Root /\ new \in Root
      BY PresentableIsRoot
    <3>2. updates' \in Seq(Attestation)
      <4>1. [by |-> u, oldRoot |-> old, newRoot |-> new] \in Attestation
        BY <3>1 DEF Attestation
      <4>2. \A a \in Attestation : Append(updates, a) \in Seq(Attestation)
        BY AppendProperties DEF TypeOK
      <4>3. QED
        BY <2>2, <4>1, <4>2 DEF AcceptUpdate
    <3>3. queue' \in Seq(Root)
      <4>1. PICK k \in 1 .. Len(queue) : queue' = SubSeq(queue, k + 1, Len(queue))
        BY <2>2 DEF AcceptUpdate, DequeueUntil
      <4>2. QED
        BY <4>1, LenProperties, SubSeqProperties DEF TypeOK
    <3>4. QED
      BY <2>2, <3>1, <3>2, <3>3 DEF TypeOK, AcceptUpdate, managerVars
  <2>3. QED
    BY <1>3, <2>1, <2>2 DEF Update
<1>4. ASSUME NEW u \in Accounts, NEW old \in Presentable,
             NEW new1 \in Presentable, NEW new2 \in Presentable,
             DoubleUpdate(u, old, new1, new2)
      PROVE  TypeOK'
  BY <1>4, TypeFail DEF DoubleUpdate
<1>5. ASSUME NEW m \in Managers, SetUpdaterManager(m)
      PROVE  TypeOK'
  BY <1>5 DEF TypeOK, SetUpdaterManager, contractVars
<1>6. ASSUME NEW m \in Managers, NEW isThisHome \in BOOLEAN, SetHome(m, isThisHome)
      PROVE  TypeOK'
  BY <1>6 DEF TypeOK, SetHome, contractVars
<1>7. ASSUME NEW m \in Managers, NEW u \in Accounts, SetUpdater(m, u)
      PROVE  TypeOK'
  BY <1>7 DEF TypeOK, SetUpdater
<1>8. ASSUME NEW u \in Honest, NEW old \in Committed, NEW new \in Prefixes(leaves),
             Attest(u, old, new)
      PROVE  TypeOK'
  <2>1. old \in Root /\ new \in Root
    BY CommittedIsRoot, PresentableIsRoot DEF Presentable
  <2>2. [by |-> u, oldRoot |-> old, newRoot |-> new] \in Attestation
    BY <2>1, HomeAssumption DEF Attestation
  <2>3. QED
    BY <1>8, <2>2 DEF TypeOK, Attest, contractVars, managerVars
<1>9. CASE UNCHANGED vars
  BY <1>9 DEF TypeOK, vars, contractVars, managerVars
<1>10. QED
  BY <1>1, <1>2, <1>3, <1>4, <1>5, <1>6, <1>7, <1>8, <1>9 DEF Next

\* Type correctness: no sequence of calls leaves a variable without its type;
\* in particular the tree never holds more than MaxLeaves leaves.
THEOREM TypeCorrect == Spec => []TypeOK
  BY TypeInit, TypeNext, PTL DEF Spec

-----------------------------------------------------------------------------
(* The queue *)

\* Only dispatch and an accepted update touch the tree, the queue, the nonces,
\* the committed root or the log.
LEMMA ChainSteps ==
    ASSUME [Next]_vars
    PROVE  \/ \E d \in Domains, payload \in Payloads : Dispatch(d, payload)
           \/ \E u \in Accounts, old \in Presentable, new \in Presentable : AcceptUpdate(u, old, new)
           \/ UNCHANGED <<committedRoot, nonces, leaves, queue, updates>>
  BY DEF Next, vars, contractVars, managerVars, Update, ImproperUpdate, DoubleUpdate, Fail,
         SetUpdaterManager, SetHome, SetUpdater, Attest

\* What a dispatch makes of the tree and the queue.
LEMMA DispatchEffect ==
    ASSUME TypeOK, NEW d \in Domains, NEW payload \in Payloads, Dispatch(d, payload)
    PROVE  \E m \in Message :
               /\ m.destination = d /\ m.nonce = nonces[d]
               /\ leaves' = Append(leaves, m)
               /\ queue' = Append(queue, leaves')
               /\ leaves' \in Seq(Message)
               /\ UNCHANGED <<committedRoot, updates, signed>>
<1> DEFINE m == [destination |-> d, nonce |-> nonces[d], payload |-> payload]
<1>1. m \in Message /\ m.destination = d /\ m.nonce = nonces[d]
  BY DEF TypeOK, Message
<1>2. leaves' = Append(leaves, m) /\ queue' = Append(queue, leaves')
  BY DEF Dispatch, Enqueue
<1>3. UNCHANGED <<committedRoot, updates, signed>>
  BY DEF Dispatch
<1>4. leaves' \in Seq(Message)
  BY <1>1, <1>2, AppendProperties DEF TypeOK
<1> HIDE DEF m
<1>5. QED
  BY <1>1, <1>2, <1>3, <1>4

\* What an accepted update commits: a queued root, and through it a longer
\* prefix of the tree.
LEMMA AcceptEffect ==
    ASSUME TypeOK, QueueIsPending,
           NEW u, NEW old, NEW new, AcceptUpdate(u, old, new)
    PROVE  \E k \in 1 .. Len(queue) :
               /\ old = committedRoot
               /\ new = SubSeq(leaves, 1, Len(committedRoot) + k)
               /\ committedRoot' = new
               /\ committedRoot' \in Seq(Message)
               /\ Len(committedRoot') = Len(committedRoot) + k
               /\ IsPrefix(committedRoot', leaves)
               /\ queue' = SubSeq(queue, k + 1, Len(queue))
               /\ UNCHANGED <<leaves, nonces, signed>>
<1>1. PICK k \in 1 .. Len(queue) : queue[k] = new /\ queue' = SubSeq(queue, k + 1, Len(queue))
  BY DEF AcceptUpdate, DequeueUntil
<1>2. /\ Len(committedRoot) \in Nat /\ Len(leaves) \in Nat
      /\ Len(committedRoot) + k \in 0 .. Len(leaves)
      /\ new = SubSeq(leaves, 1, Len(committedRoot) + k)
  BY <1>1, LenProperties DEF TypeOK, QueueIsPending, Root
<1>3. /\ new \in Seq(Message)
      /\ Len(new) = Len(committedRoot) + k
      /\ IsPrefix(new, leaves)
  BY <1>2, SubSeqIsPrefix DEF TypeOK
<1>4. QED
  BY <1>1, <1>2, <1>3 DEF AcceptUpdate, CurrentUpdate

\* Every step keeps the queue complete and in order.
LEMMA QueueNext == TypeOK /\ QueueIsPending /\ [Next]_vars => QueueIsPending'
<1> SUFFICES ASSUME TypeOK, QueueIsPending, [Next]_vars
             PROVE  QueueIsPending'
  OBVIOUS
<1>1. /\ committedRoot \in Seq(Message) /\ leaves \in Seq(Message) /\ queue \in Seq(Root)
      /\ Len(committedRoot) \in Nat /\ Len(leaves) \in Nat /\ Len(queue) \in Nat
  BY LenProperties DEF TypeOK, Root
<1>2. ASSUME NEW d \in Domains, NEW payload \in Payloads, Dispatch(d, payload)
      PROVE  QueueIsPending'
  <2>1. PICK m \in Message :
            /\ leaves' = Append(leaves, m)
            /\ queue' = Append(queue, leaves')
            /\ leaves' \in Root
            /\ committedRoot' = committedRoot
    BY <1>2, DispatchEffect DEF Root
  <2>2. IsPrefix(committedRoot', leaves')
    BY <1>1, <2>1, PrefixOfAppend DEF QueueIsPending
  <2>3. /\ Len(leaves') = Len(leaves) + 1
        /\ Len(queue') = Len(queue) + 1
        /\ \A i \in 1 .. Len(queue) : queue'[i] = queue[i]
        /\ queue'[Len(queue) + 1] = leaves'
    BY <1>1, <2>1, AppendProperties
  <2>4. ASSUME NEW i \in 1 .. Len(queue')
        PROVE  queue'[i] = SubSeq(leaves', 1, Len(committedRoot) + i)
    <3>1. CASE i <= Len(queue)
      <4>1. Len(committedRoot) + i \in 0 .. Len(leaves)
        BY <1>1, <3>1 DEF QueueIsPending
      <4>2. SubSeq(leaves', 1, Len(committedRoot) + i) = SubSeq(leaves, 1, Len(committedRoot) + i)
        BY <1>1, <2>1, <4>1, SubSeqOfAppend
      <4>3. QED
        BY <1>1, <2>3, <3>1, <4>2 DEF QueueIsPending
    <3>2. CASE i = Len(queue) + 1
      <4>1. Len(committedRoot) + i = Len(leaves')
        BY <1>1, <2>3, <3>2 DEF QueueIsPending
      <4>2. SubSeq(leaves', 1, Len(leaves')) = leaves'
        BY <2>1, SubSeqFull DEF Root
      <4>3. QED
        BY <2>3, <3>2, <4>1, <4>2
    <3>3. QED
      BY <1>1, <2>3, <3>1, <3>2
  <2>5. QED
    BY <1>1, <2>1, <2>2, <2>3, <2>4 DEF QueueIsPending
<1>3. ASSUME NEW u \in Accounts, NEW old \in Presentable, NEW new \in Presentable,
             AcceptUpdate(u, old, new)
      PROVE  QueueIsPending'
  <2>1. PICK k \in 1 .. Len(queue) :
            /\ Len(committedRoot') = Len(committedRoot) + k
            /\ IsPrefix(committedRoot', leaves)
            /\ queue' = SubSeq(queue, k + 1, Len(queue))
            /\ leaves' = leaves
    BY <1>3, AcceptEffect
  <2>2. /\ Len(queue') = Len(queue) - k
        /\ \A i \in 1 .. Len(queue) - k : queue'[i] = queue[k + i]
    BY <1>1, <2>1, SubSeqProperties
  <2>3. ASSUME NEW i \in 1 .. Len(queue')
        PROVE  queue'[i] = SubSeq(leaves', 1, Len(committedRoot') + i)
    <3>1. /\ k + i \in 1 .. Len(queue)
          /\ Len(committedRoot) + (k + i) = Len(committedRoot') + i
      BY <1>1, <2>1, <2>2
    <3>2. queue[k + i] = SubSeq(leaves, 1, Len(committedRoot) + (k + i))
      BY <3>1 DEF QueueIsPending
    <3>3. QED
      BY <2>1, <2>2, <3>1, <3>2
  <2>4. QED
    BY <1>1, <2>1, <2>2, <2>3 DEF QueueIsPending
<1>4. CASE UNCHANGED <<committedRoot, nonces, leaves, queue, updates>>
  BY <1>4 DEF QueueIsPending
<1>5. QED
  BY <1>2, <1>3, <1>4, ChainSteps

\* Nothing is under the empty root yet, and nothing is queued.
LEMMA QueueInit == Init => QueueIsPending
<1>1. IsPrefix(<<>>, <<>>)
  BY SubSeqFull, EmptySeq DEF IsPrefix
<1>2. QED
  BY <1>1, EmptySeq DEF Init, QueueIsPending, ZeroRoot

\* The queue of Home holds exactly the roots of the messages that are not yet
\* signed for, in the order of dispatch: no interleaving of dispatches and
\* updates loses one or repeats one.
THEOREM QueueCorrect == Spec => []QueueIsPending
<1>1. Init => TypeOK /\ QueueIsPending
  BY TypeInit, QueueInit
<1>2. TypeOK /\ QueueIsPending /\ [Next]_vars => (TypeOK /\ QueueIsPending)'
  BY TypeNext, QueueNext
<1>3. QED
  BY <1>1, <1>2, PTL DEF Spec

-----------------------------------------------------------------------------
(* The log *)

\* Every step extends the chain of updates by a link or leaves it alone.
LEMMA ChainNext == TypeOK /\ QueueIsPending /\ UpdatesFormChain /\ [Next]_vars => UpdatesFormChain'
<1> SUFFICES ASSUME TypeOK, QueueIsPending, UpdatesFormChain, [Next]_vars
             PROVE  UpdatesFormChain'
  OBVIOUS
<1>1. ASSUME NEW d \in Domains, NEW payload \in Payloads, Dispatch(d, payload)
      PROVE  UpdatesFormChain'
  BY <1>1, DispatchEffect DEF UpdatesFormChain, Last
<1>2. ASSUME NEW u \in Accounts, NEW old \in Presentable, NEW new \in Presentable,
             AcceptUpdate(u, old, new)
      PROVE  UpdatesFormChain'
  <2> DEFINE a == [by |-> u, oldRoot |-> old, newRoot |-> new]
             n == Len(updates)
  <2>1. /\ old = committedRoot
        /\ committedRoot' = new
        /\ updates' = Append(updates, a)
    BY <1>2 DEF AcceptUpdate, CurrentUpdate
  <2>2. IsStrictPrefix(old, new)
    <3>1. PICK k \in 1 .. Len(queue) :
              /\ committedRoot' \in Seq(Message)
              /\ Len(committedRoot') = Len(committedRoot) + k
              /\ IsPrefix(committedRoot', leaves)
      BY <1>2, AcceptEffect
    <3>2. /\ committedRoot \in Seq(Message) /\ leaves \in Seq(Message)
          /\ Len(committedRoot) \in Nat
          /\ IsPrefix(committedRoot, leaves)
      BY LenProperties DEF TypeOK, Root, QueueIsPending
    <3>3. IsPrefix(committedRoot, committedRoot')
      BY <3>1, <3>2, PrefixesAreNested
    <3>4. committedRoot # committedRoot'
      BY <3>1, <3>2
    <3>5. QED
      BY <2>1, <3>3, <3>4 DEF IsStrictPrefix
  <2>3. a \in Attestation /\ a.oldRoot = old /\ a.newRoot = new
    BY PresentableIsRoot DEF Attestation
  <2> HIDE DEF a
  <2>4. /\ n \in Nat
        /\ Len(updates') = n + 1
        /\ \A i \in 1 .. n : updates'[i] = updates[i]
        /\ updates'[n + 1] = a
        /\ updates' # <<>>
    BY <2>1, <2>3, AppendProperties, LenProperties DEF TypeOK
  <2>5. Last(updates').newRoot = committedRoot'
    BY <2>1, <2>3, <2>4 DEF Last
  <2>6. updates'[1].oldRoot = ZeroRoot
    <3>1. CASE updates = <<>>
      <4>1. n = 0
        BY <3>1, EmptySeq
      <4>2. QED
        BY <2>1, <2>3, <2>4, <3>1, <4>1 DEF UpdatesFormChain
    <3>2. CASE updates # <<>>
      <4>1. 1 \in 1 .. n
        BY <2>4, <3>2, EmptySeq DEF TypeOK
      <4>2. QED
        BY <2>4, <3>2, <4>1 DEF UpdatesFormChain
    <3>3. QED
      BY <3>1, <3>2
  <2>7. ASSUME NEW i \in 1 .. Len(updates')
        PROVE  /\ IsStrictPrefix(updates'[i].oldRoot, updates'[i].newRoot)
               /\ i < Len(updates') => updates'[i + 1].oldRoot = updates'[i].newRoot
    <3>1. CASE i = n + 1
      BY <2>2, <2>3, <2>4, <3>1
    <3>2. CASE i = n
      <4>1. updates # <<>> /\ i \in 1 .. n
        BY <2>4, <3>2, EmptySeq
      <4>2. updates[i].newRoot = committedRoot
        BY <3>2, <4>1 DEF UpdatesFormChain, Last
      <4>3. QED
        BY <2>1, <2>3, <2>4, <3>2, <4>1, <4>2 DEF UpdatesFormChain
    <3>3. CASE i < n
      <4>1. i \in 1 .. n /\ i + 1 \in 1 .. n
        BY <2>4, <3>3
      <4>2. QED
        BY <2>4, <3>3, <4>1 DEF UpdatesFormChain
    <3>4. QED
      BY <2>4, <3>1, <3>2, <3>3
  <2>8. QED
    BY <2>4, <2>5, <2>6, <2>7 DEF UpdatesFormChain
<1>3. CASE UNCHANGED <<committedRoot, nonces, leaves, queue, updates>>
  BY <1>3 DEF UpdatesFormChain, Last
<1>4. QED
  BY <1>1, <1>2, <1>3, ChainSteps

\* The Update events of Home are one chain from bytes32(0) to the committed
\* root, and every link adds messages: what docs/README.md calls "a chain of
\* signed updates", whatever else the updater signs.
THEOREM ChainCorrect == Spec => []UpdatesFormChain
<1>1. Init => TypeOK /\ QueueIsPending /\ UpdatesFormChain
  <2>1. Init => UpdatesFormChain
    BY EmptySeq DEF Init, UpdatesFormChain
  <2>2. QED
    BY <2>1, TypeInit, QueueInit
<1>2. TypeOK /\ QueueIsPending /\ UpdatesFormChain /\ [Next]_vars
         => (TypeOK /\ QueueIsPending /\ UpdatesFormChain)'
  BY TypeNext, QueueNext, ChainNext
<1>3. QED
  BY <1>1, <1>2, PTL DEF Spec

-----------------------------------------------------------------------------
(* The honest updater *)

\* What is true of the attestations of honest keys, in whatever state Home is:
\* they name a root Home has computed, longer than the one they start from,
\* and a key signs at most once on top of a root.
SignedOnce ==
    /\ \A a \in signed : IsPrefix(a.newRoot, leaves) /\ Len(a.oldRoot) < Len(a.newRoot)
    /\ \A a, b \in signed : a.by = b.by /\ a.oldRoot = b.oldRoot => a = b

\* Every step keeps the attestations so.
LEMMA SignedNext == TypeOK /\ QueueIsPending /\ SignedOnce /\ [Next]_vars => SignedOnce'
<1> SUFFICES ASSUME TypeOK, QueueIsPending, SignedOnce, [Next]_vars
             PROVE  SignedOnce'
  OBVIOUS
<1>1. CASE UNCHANGED <<leaves, signed>>
  BY <1>1 DEF SignedOnce
<1>2. ASSUME NEW d \in Domains, NEW payload \in Payloads, Dispatch(d, payload)
      PROVE  SignedOnce'
  <2>1. PICK m \in Message : leaves' = Append(leaves, m) /\ signed' = signed
    BY <1>2, DispatchEffect
  <2>2. ASSUME NEW a \in signed
        PROVE  IsPrefix(a.newRoot, leaves')
    <3>1. a.newRoot \in Seq(Message) /\ leaves \in Seq(Message)
      BY DEF TypeOK, Attestation, Root
    <3>2. QED
      BY <2>1, <3>1, PrefixOfAppend DEF SignedOnce
  <2>3. QED
    BY <2>1, <2>2 DEF SignedOnce
<1>3. ASSUME NEW u \in Honest, NEW old \in Committed, NEW new \in Prefixes(leaves),
             Attest(u, old, new)
      PROVE  SignedOnce'
  <2> DEFINE a == [by |-> u, oldRoot |-> old, newRoot |-> new]
  <2>1. /\ signed' = signed \cup {a}
        /\ leaves' = leaves
        /\ IsStrictPrefix(old, new)
        /\ \A b \in signed : b.by = u => b.oldRoot # old
    BY <1>3 DEF Attest, FreshRoot, contractVars
  <2>2. a.by = u /\ a.oldRoot = old /\ a.newRoot = new
    OBVIOUS
  <2> HIDE DEF a
  <2>3. PICK k \in 0 .. Len(leaves) : new = SubSeq(leaves, 1, k)
    BY DEF Prefixes
  <2>4. IsPrefix(new, leaves) /\ new \in Seq(Message)
    BY <2>3, SubSeqIsPrefix DEF TypeOK
  <2>5. Len(old) < Len(new)
    <3>1. /\ old \in Seq(Message)
          /\ Len(old) \in Nat /\ Len(new) \in Nat
      BY <2>4, CommittedIsRoot, LenProperties DEF Root
    <3>2. Len(old) <= Len(new)
      BY <2>1 DEF IsStrictPrefix, IsPrefix
    <3>3. CASE Len(old) = Len(new)
      <4>1. old = SubSeq(new, 1, Len(new))
        BY <2>1, <2>4, <3>1, <3>3, PrefixIsSubSeq DEF IsStrictPrefix
      <4>2. old = new
        BY <2>4, <4>1, SubSeqFull
      <4>3. QED
        BY <2>1, <4>2 DEF IsStrictPrefix
    <3>4. QED
      BY <3>1, <3>2, <3>3
  <2>6. QED
    BY <2>1, <2>2, <2>4, <2>5 DEF SignedOnce
<1>4. UNCHANGED <<leaves, signed>>
         \/ (\E d \in Domains, payload \in Payloads : Dispatch(d, payload))
         \/ (\E u \in Honest, old \in Committed, new \in Prefixes(leaves) : Attest(u, old, new))
  BY DEF Next, vars, contractVars, managerVars, Update, AcceptUpdate, ImproperUpdate,
         DoubleUpdate, Fail, SetUpdaterManager, SetHome, SetUpdater
<1>5. QED
  BY <1>1, <1>2, <1>3, <1>4

\* An attestation on the committed root names a queued root.
LEMMA SignedIsQueued == TypeOK /\ QueueIsPending /\ SignedOnce => AttestationsStayProper
<1> SUFFICES ASSUME TypeOK, QueueIsPending, SignedOnce,
                    NEW a \in signed, a.oldRoot = committedRoot
             PROVE  a.newRoot \in ToSet(queue)
  BY DEF AttestationsStayProper
<1> DEFINE i == Len(a.newRoot) - Len(committedRoot)
<1>1. a.newRoot \in Seq(Message) /\ leaves \in Seq(Message) /\ IsPrefix(a.newRoot, leaves)
  BY DEF TypeOK, Attestation, Root, SignedOnce
<1>2. Len(a.newRoot) \in 0 .. Len(leaves) /\ a.newRoot = SubSeq(leaves, 1, Len(a.newRoot))
  BY <1>1, PrefixIsSubSeq
<1>3. /\ Len(committedRoot) < Len(a.newRoot)
      /\ Len(committedRoot) \in Nat /\ Len(queue) \in Nat /\ Len(leaves) \in Nat
  BY LenProperties DEF TypeOK, Root, SignedOnce
<1>4. i \in 1 .. Len(queue) /\ Len(committedRoot) + i = Len(a.newRoot)
  BY <1>2, <1>3 DEF QueueIsPending
<1>5. queue[i] = a.newRoot
  BY <1>2, <1>4 DEF QueueIsPending
<1>6. i \in DOMAIN queue
  BY <1>4, LenProperties DEF TypeOK
<1>7. QED
  BY <1>5, <1>6 DEF ToSet

\* No step slashes an honest updater: improperUpdate would need an attestation
\* on a root outside the queue, doubleUpdate two of them on one root.
LEMMA HonestNext ==
    TypeOK /\ SignedOnce /\ AttestationsStayProper /\ HonestNeverSlashed /\ [Next]_vars
       => HonestNeverSlashed'
<1> SUFFICES ASSUME TypeOK, SignedOnce, AttestationsStayProper, HonestNeverSlashed, [Next]_vars
             PROVE  HonestNeverSlashed'
  OBVIOUS
<1>1. CASE slashed' = slashed
  BY <1>1 DEF HonestNeverSlashed
<1>2. ASSUME NEW u \in Accounts, NEW old \in Presentable, NEW new \in Presentable,
             ImproperUpdate(u, old, new)
      PROVE  HonestNeverSlashed'
  <2>1. updater \notin Honest
    <3>1. /\ u = updater /\ old = committedRoot /\ new \notin ToSet(queue)
          /\ u \in Honest => [by |-> u, oldRoot |-> old, newRoot |-> new] \in signed
      BY <1>2 DEF ImproperUpdate, CurrentUpdate, IsUpdaterSignature
    <3>2. QED
      BY <3>1 DEF AttestationsStayProper
  <2>2. slashed' = slashed \cup {updater}
    BY <1>2 DEF ImproperUpdate, Fail
  <2>3. QED
    BY <2>1, <2>2 DEF HonestNeverSlashed
<1>3. ASSUME NEW u \in Accounts, NEW old \in Presentable,
             NEW new1 \in Presentable, NEW new2 \in Presentable,
             DoubleUpdate(u, old, new1, new2)
      PROVE  HonestNeverSlashed'
  <2>1. updater \notin Honest
    <3>1. /\ u = updater /\ new1 # new2
          /\ u \in Honest => /\ [by |-> u, oldRoot |-> old, newRoot |-> new1] \in signed
                             /\ [by |-> u, oldRoot |-> old, newRoot |-> new2] \in signed
      BY <1>3 DEF DoubleUpdate, ConflictingUpdates, IsUpdaterSignature
    <3>2. QED
      BY <3>1 DEF SignedOnce
  <2>2. slashed' = slashed \cup {updater}
    BY <1>3 DEF DoubleUpdate, Fail
  <2>3. QED
    BY <2>1, <2>2 DEF HonestNeverSlashed
<1>4. \/ slashed' = slashed
      \/ \E u \in Accounts, old \in Presentable, new \in Presentable : ImproperUpdate(u, old, new)
      \/ \E u \in Accounts, old, new1, new2 \in Presentable : DoubleUpdate(u, old, new1, new2)
  BY DEF Next, vars, contractVars, managerVars, Update, AcceptUpdate, Dispatch,
         SetUpdaterManager, SetHome, SetUpdater, Attest
<1>5. QED
  BY <1>1, <1>2, <1>3, <1>4

\* An updater that signs what Home suggested, once per committed root, is never
\* slashed and never finds its signature improper, for any number of other
\* keys, of rotations and of messages: the queue and the updater's own record
\* of its signatures are what this rests on.
THEOREM HonestSafe == Spec => [](AttestationsStayProper /\ HonestNeverSlashed)
<1> DEFINE IInv == TypeOK /\ QueueIsPending /\ SignedOnce /\ HonestNeverSlashed
<1>1. Init => IInv
  <2>1. Init => SignedOnce /\ HonestNeverSlashed
    BY DEF Init, SignedOnce, HonestNeverSlashed
  <2>2. QED
    BY <2>1, TypeInit, QueueInit
<1>2. IInv /\ [Next]_vars => IInv'
  BY TypeNext, QueueNext, SignedNext, SignedIsQueued, HonestNext
<1>3. IInv => AttestationsStayProper /\ HonestNeverSlashed
  BY SignedIsQueued
<1>4. QED
  BY <1>1, <1>2, <1>3, PTL DEF Spec

\* Of the two, the one a run checks by itself: what an honest key has signed on
\* the committed root is still waiting in the queue.
THEOREM AttestationsProper == Spec => []AttestationsStayProper
  BY HonestSafe, PTL

-----------------------------------------------------------------------------
(* Nonces *)

\* The nonces given to the messages for d.
NoncesOf(d) == {m.nonce : m \in {l \in ToSet(leaves) : l.destination = d}}

\* A destination has been given no more nonces than there are leaves: the tree
\* is full before a counter is.
NoncesBounded == \A d \in Domains : nonces[d] <= Len(leaves)

\* A dispatch gives the next number, the sum does not wrap.
LEMMA NonceEffect ==
    ASSUME TypeOK, NoncesBounded, NEW d \in Domains, NEW payload \in Payloads, Dispatch(d, payload)
    PROVE  /\ nonces' = [nonces EXCEPT ![d] = @ + 1]
           /\ Len(leaves') = Len(leaves) + 1
<1>1. Len(leaves') = Len(leaves) + 1
  BY DispatchEffect, AppendProperties DEF TypeOK
<1>2. nonces[d] \in Nat /\ nonces[d] + 1 < NonceSpace
  BY LenProperties, HomeAssumption DEF TypeOK, NoncesBounded, Dispatch, TreeHasRoom
<1>3. (nonces[d] + 1) % NonceSpace = nonces[d] + 1
  BY <1>2, HomeAssumption
<1>4. QED
  BY <1>1, <1>3 DEF Dispatch, TakeNonce

\* Every step keeps the numbering.
LEMMA NoncesNext ==
    TypeOK /\ NoncesBounded /\ NoncesNumberMessages /\ [Next]_vars
       => (NoncesBounded /\ NoncesNumberMessages)'
<1> SUFFICES ASSUME TypeOK, NoncesBounded, NoncesNumberMessages, [Next]_vars
             PROVE  (NoncesBounded /\ NoncesNumberMessages)'
  OBVIOUS
<1>1. CASE UNCHANGED <<nonces, leaves>>
  BY <1>1 DEF NoncesBounded, NoncesNumberMessages
<1>2. ASSUME NEW d \in Domains, NEW payload \in Payloads, Dispatch(d, payload)
      PROVE  (NoncesBounded /\ NoncesNumberMessages)'
  <2>1. PICK m \in Message :
            /\ m.destination = d /\ m.nonce = nonces[d]
            /\ leaves' = Append(leaves, m)
    BY <1>2, DispatchEffect
  <2>2. /\ nonces' = [nonces EXCEPT ![d] = @ + 1]
        /\ nonces \in [Domains -> Nat]
        /\ nonces[d] \in Nat
        /\ Len(leaves) \in Nat
    BY <1>2, NonceEffect, LenProperties, HomeAssumption DEF TypeOK
  <2>3. /\ Len(leaves') = Len(leaves) + 1
        /\ \A i \in 1 .. Len(leaves) : leaves'[i] = leaves[i]
        /\ leaves'[Len(leaves) + 1] = m
        /\ leaves' \in Seq(Message)
    BY <2>1, AppendProperties DEF TypeOK
  <2>4. NoncesBounded'
    BY <2>2, <2>3 DEF NoncesBounded
  <2>5. \A e \in Domains : NoncesOf(e) = 0 .. nonces[e] - 1
    BY DEF NoncesNumberMessages, NoncesOf
  <2>6. ASSUME NEW i \in 1 .. Len(leaves'), NEW j \in 1 .. Len(leaves'),
               i < j, leaves'[i].destination = leaves'[j].destination
        PROVE  leaves'[i].nonce < leaves'[j].nonce
    <3>1. i \in 1 .. Len(leaves) /\ (j \in 1 .. Len(leaves) \/ j = Len(leaves) + 1)
      <4>1. i \in Nat /\ j \in Nat /\ 1 <= i /\ i < j /\ j <= Len(leaves) + 1
        BY <2>2, <2>3, <2>6
      <4>2. QED
        BY <2>2, <4>1
    <3>2. leaves'[i] = leaves[i]
      BY <2>3, <3>1
    <3>3. CASE j \in 1 .. Len(leaves)
      <4>1. leaves'[j] = leaves[j]
        BY <2>3, <3>3
      <4>2. QED
        BY <2>6, <3>1, <3>2, <3>3, <4>1 DEF NoncesNumberMessages
    <3>4. CASE j = Len(leaves) + 1
      <4>1. i \in DOMAIN leaves /\ leaves'[j] = m
        BY <2>3, <3>1, <3>4, LenProperties DEF TypeOK
      <4>2. leaves[i].nonce \in NoncesOf(d)
        BY <2>1, <2>6, <3>2, <4>1 DEF NoncesOf, ToSet
      <4>3. QED
        BY <2>1, <2>2, <2>5, <3>2, <4>1, <4>2
    <3>5. QED
      BY <3>1, <3>3, <3>4
  <2>7. ASSUME NEW e \in Domains
        PROVE  NoncesOf(e)' = 0 .. nonces'[e] - 1
    <3>1. ToSet(leaves') = ToSet(leaves) \cup {m}
      <4>1. DOMAIN leaves = 1 .. Len(leaves) /\ DOMAIN leaves' = 1 .. Len(leaves) + 1
        BY <2>3, LenProperties DEF TypeOK
      <4>2. QED
        BY <2>2, <2>3, <4>1 DEF ToSet
    <3>2. CASE e = d
      <4>1. NoncesOf(d)' = NoncesOf(d) \cup {nonces[d]}
        BY <2>1, <3>1 DEF NoncesOf
      <4>2. nonces'[d] = nonces[d] + 1
        BY <2>2
      <4>3. QED
        BY <2>2, <2>5, <3>2, <4>1, <4>2
    <3>3. CASE e # d
      <4>1. NoncesOf(e)' = NoncesOf(e)
        BY <2>1, <3>1, <3>3 DEF NoncesOf
      <4>2. nonces'[e] = nonces[e]
        BY <2>2, <3>3
      <4>3. QED
        BY <2>5, <4>1, <4>2
    <3>4. QED
      BY <3>2, <3>3
  <2>8. QED
    BY <2>4, <2>6, <2>7 DEF NoncesNumberMessages, NoncesOf
<1>3. QED
  BY <1>1, <1>2, ChainSteps DEF AcceptUpdate

\* Messages to a destination are numbered 0, 1, 2, ... in the order of their
\* leaves although the counter is never checked: MerkleLib.insert refuses the
\* leaf before the uint32 can wrap, given that MAX_LEAVES is below 2^32.
THEOREM NoncesCorrect == Spec => []NoncesNumberMessages
<1> DEFINE IInv == TypeOK /\ NoncesBounded /\ NoncesNumberMessages
<1>1. Init => IInv
  <2>1. Init => NoncesBounded
    BY EmptySeq DEF Init, NoncesBounded
  <2>2. Init => NoncesNumberMessages
    BY EmptySeq DEF Init, NoncesNumberMessages, ToSet
  <2>3. QED
    BY <2>1, <2>2, TypeInit
<1>2. IInv /\ [Next]_vars => IInv'
  BY TypeNext, NoncesNext
<1>3. QED
  BY <1>1, <1>2, PTL DEF Spec

-----------------------------------------------------------------------------
(* Failure *)

\* A failed Home takes no message and no update, and nothing revives it,
\* whoever becomes its updater.
THEOREM FailureFinal == Spec => FailureIsFinal
<1>1. [Next]_vars =>
         (state = "Failed" =>
             UNCHANGED <<state, committedRoot, nonces, leaves, queue, updates, slashed>>)
  BY DEF Next, vars, contractVars, managerVars, Dispatch, Update, AcceptUpdate, ImproperUpdate,
         DoubleUpdate, Fail, CurrentUpdate, NotFailed, SetUpdaterManager, SetHome, SetUpdater, Attest
<1>2. QED
  BY <1>1, PTL DEF Spec, FailureIsFinal

=============================================================================
