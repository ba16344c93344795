--------------------------- MODULE ReplicaProofs ---------------------------
(***************************************************************************)
(* Proofs about module Replica, for every value of its constants, and so   *)
(* for every length of a run: MaxTime and MaxUpdates are any two numbers.  *)
(***************************************************************************)
EXTENDS Replica, SequenceTheorems, TLAPS

\* An entry of the log of updates, and one of the log of calls of handle.
UpdateEntry == [oldRoot : Roots, newRoot : Roots, at : Nat]
CallEntry == [message : Messages, at : Nat]

-----------------------------------------------------------------------------
(* Types *)

\* initialize gives every variable its type.
LEMMA TypeInit == Init => TypeOK
  BY ReplicaAssumption, EmptySeq DEF Init, TypeOK

\* What an accepted update does to the log.
LEMMA UpdateEffect ==
    ASSUME TypeOK, NEW by, NEW old \in Roots, NEW new \in Roots, Update(by, old, new)
    PROVE  \E e \in UpdateEntry :
               /\ e.oldRoot = committedRoot /\ e.newRoot = new /\ e.at = now
               /\ updates' = Append(updates, e)
               /\ updates' \in Seq(UpdateEntry)
               /\ committedRoot' = new
               /\ confirmAt' = [confirmAt EXCEPT ![new] = now + OptimisticSeconds]
               /\ UNCHANGED <<updater, state, messages, entered, now, calls, handled>>
<1> DEFINE e == [oldRoot |-> old, newRoot |-> new, at |-> now]
<1>1. /\ e \in UpdateEntry
      /\ e.oldRoot = committedRoot /\ e.newRoot = new /\ e.at = now
  BY DEF UpdateEntry, TypeOK, Update, Current
<1>2. updates' = Append(updates, e)
  BY DEF Update
<1>3. /\ committedRoot' = new
      /\ confirmAt' = [confirmAt EXCEPT ![new] = now + OptimisticSeconds]
      /\ UNCHANGED <<updater, state, messages, entered, now, calls, handled>>
  BY DEF Update, SetTimer
<1> HIDE DEF e
<1>4. updates' \in Seq(UpdateEntry)
  BY <1>1, <1>2, AppendProperties DEF TypeOK, UpdateEntry
<1>5. QED
  BY <1>1, <1>2, <1>3, <1>4

\* What process does up to its call of the recipient.
LEMMA CallEffect ==
    ASSUME TypeOK, NEW m \in Messages, CallRecipient(m)
    PROVE  \E e \in CallEntry :
               /\ e.message = m /\ e.at = now
               /\ handled' = Append(handled, e)
               /\ handled' \in Seq(CallEntry)
               /\ calls' = Append(calls, m)
               /\ calls' \in Seq(Messages)
               /\ entered = 1 /\ entered' = 0
               /\ messages' = [messages EXCEPT ![m] = "Processed"]
               /\ UNCHANGED <<updater, state, committedRoot, confirmAt, now, updates>>
<1> DEFINE e == [message |-> m, at |-> now]
<1>1. e \in CallEntry /\ e.message = m /\ e.at = now
  BY DEF CallEntry, TypeOK
<1>2. handled' = Append(handled, e) /\ calls' = Append(calls, m)
  BY DEF CallRecipient
<1>3. /\ entered = 1 /\ entered' = 0
      /\ messages' = [messages EXCEPT ![m] = "Processed"]
      /\ UNCHANGED <<updater, state, committedRoot, confirmAt, now, updates>>
  BY DEF CallRecipient, Guard, MarkProcessed
<1> HIDE DEF e
<1>4. handled' \in Seq(CallEntry) /\ calls' \in Seq(Messages)
  BY <1>1, <1>2, AppendProperties DEF TypeOK, CallEntry
<1>5. QED
  BY <1>1, <1>2, <1>3, <1>4

\* What a step can be, with the two entry points of process taken together:
\* they differ in the status they find and in who vouches for the message.
LEMMA StepCases ==
    ASSUME [Next]_vars
    PROVE  \/ \E by \in Accounts, old, new \in Roots : Update(by, old, new)
           \/ \E by \in Accounts, old, new1, new2 \in Roots : DoubleUpdate(by, old, new1, new2)
           \/ \E m \in Messages, root \in Roots : Prove(m, root)
           \/ \E m \in Messages : CallRecipient(m) /\ Process(m)
           \/ \E m \in Messages, root \in Roots : CallRecipient(m) /\ ProveAndProcess(m, root)
           \/ Return
           \/ Tick
           \/ UNCHANGED vars
  BY DEF Next, Process, ProveAndProcess

\* Every step preserves the declared types.
LEMMA TypeNext == TypeOK /\ [Next]_vars => TypeOK'
<1> SUFFICES ASSUME TypeOK, [Next]_vars
             PROVE  TypeOK'
  OBVIOUS
<1>1. ASSUME NEW by \in Accounts, NEW old \in Roots, NEW new \in Roots, Update(by, old, new)
      PROVE  TypeOK'
  <2>1. /\ updates' \in Seq(UpdateEntry)
        /\ committedRoot' = new
        /\ confirmAt' = [confirmAt EXCEPT ![new] = now + OptimisticSeconds]
        /\ UNCHANGED <<updater, state, messages, entered, now, calls, handled>>
    BY <1>1, UpdateEffect
  <2>2. confirmAt' \in [Roots -> Nat]
    BY <2>1, ReplicaAssumption DEF TypeOK
  <2>3. QED
    BY <2>1, <2>2 DEF TypeOK, UpdateEntry
<1>2. ASSUME NEW m \in Messages, CallRecipient(m)
      PROVE  TypeOK'
  BY <1>2, CallEffect DEF TypeOK, CallEntry
<1>3. ASSUME NEW m \in Messages, NEW root \in Roots, Prove(m, root)
      PROVE  TypeOK'
  BY <1>3 DEF TypeOK, Prove
<1>4. CASE Return
  <2>1. Front(calls) \in Seq(Messages)
    BY <1>4, EmptySeq, LenProperties, SubSeqProperties DEF Return, Front, TypeOK
  <2>2. QED
    BY <1>4, <2>1 DEF TypeOK, Return, ReleaseGuard
<1>5. ASSUME NEW by \in Accounts, NEW old \in Roots, NEW new1 \in Roots, NEW new2 \in Roots,
             DoubleUpdate(by, old, new1, new2)
      PROVE  TypeOK'
  BY <1>5 DEF TypeOK, DoubleUpdate
<1>6. CASE Tick
  BY <1>6 DEF TypeOK, Tick
<1>7. CASE UNCHANGED vars
  BY <1>7 DEF TypeOK, vars
<1>8. QED
  BY <1>1, <1>2, <1>3, <1>4, <1>5, <1>6, <1>7, StepCases

\* Type correctness of the replica, its re-entrancy guard included.
THEOREM TypeCorrect == Spec => []TypeOK
  BY TypeInit, TypeNext, PTL DEF Spec

-----------------------------------------------------------------------------
(* The guard *)

\* Every step keeps the guard and the running handler in agreement.
LEMMA GuardNext == TypeOK /\ HandlersDoNotNest /\ [Next]_vars => HandlersDoNotNest'
<1> SUFFICES ASSUME TypeOK, HandlersDoNotNest, [Next]_vars
             PROVE  HandlersDoNotNest'
  OBVIOUS
<1>1. ASSUME NEW m \in Messages, CallRecipient(m)
      PROVE  HandlersDoNotNest'
  <2>1. /\ calls = <<>> /\ calls' = Append(calls, m)
        /\ entered' = 0
    BY <1>1, CallEffect DEF HandlersDoNotNest
  <2>2. /\ Len(Append(calls, m)) = Len(calls) + 1
        /\ Append(calls, m) # <<>>
    BY AppendProperties DEF TypeOK
  <2>3. Len(calls') = 1 /\ calls' # <<>>
    BY <2>1, <2>2, EmptySeq
  <2>4. QED
    BY <2>1, <2>3 DEF HandlersDoNotNest
<1>2. CASE Return
  <2>1. Len(calls) = 1 /\ calls' = SubSeq(calls, 1, Len(calls) - 1) /\ entered' = 1
    <3>1. Len(calls) \in Nat \ {0}
      BY <1>2, EmptySeq DEF Return, TypeOK
    <3>2. Len(calls) <= 1
      BY Zenon DEF HandlersDoNotNest
    <3>3. Len(calls) = 1
      BY <3>1, <3>2
    <3>4. QED
      BY <1>2, <3>3 DEF Return, ReleaseGuard, Front
  <2>2. calls' = <<>>
    BY <2>1, SubSeqEmpty
  <2>3. QED
    BY <2>1, <2>2, EmptySeq DEF HandlersDoNotNest
<1>3. CASE UNCHANGED <<calls, entered>>
  BY <1>3 DEF HandlersDoNotNest
<1>4. \/ \E m \in Messages : CallRecipient(m)
      \/ Return
      \/ UNCHANGED <<calls, entered>>
  BY StepCases DEF Update, DoubleUpdate, Prove, Tick, vars
<1>5. QED
  BY <1>1, <1>2, <1>3, <1>4

\* No recipient runs inside another recipient's handle, however they call the
\* replica back, and between transactions the guard is always open: no
\* message can wedge process for the next one.
THEOREM GuardCorrect == Spec => []HandlersDoNotNest
<1>1. Init => TypeOK /\ HandlersDoNotNest
  <2>1. Init => HandlersDoNotNest
    BY EmptySeq DEF Init, HandlersDoNotNest
  <2>2. QED
    BY <2>1, TypeInit
<1>2. TypeOK /\ HandlersDoNotNest /\ [Next]_vars => (TypeOK /\ HandlersDoNotNest)'
  BY TypeNext, GuardNext
<1>3. QED
  BY <1>1, <1>2, PTL DEF Spec

-----------------------------------------------------------------------------
(* One call per message *)

\* A message that was handed to its recipient is marked for good.
HandledAreProcessed == \A i \in 1 .. Len(handled) : messages[handled[i].message] = "Processed"

\* Every step keeps it so.
LEMMA HandledNext ==
    TypeOK /\ HandledAreProcessed /\ HandledOnce /\ [Next]_vars
       => (HandledAreProcessed /\ HandledOnce)'
<1> SUFFICES ASSUME TypeOK, HandledAreProcessed, HandledOnce, [Next]_vars
             PROVE  (HandledAreProcessed /\ HandledOnce)'
  OBVIOUS
<1> DEFINE n == Len(handled)
<1>0. /\ n \in Nat
      /\ \A i \in 1 .. n : handled[i].message \in Messages
  <2>1. \A i \in 1 .. n : handled[i] \in CallEntry
    BY ElementOfSeq DEF TypeOK, CallEntry
  <2>2. QED
    BY <2>1, LenProperties DEF TypeOK, CallEntry
<1>1. ASSUME NEW m \in Messages, CallRecipient(m), messages[m] # "Processed"
      PROVE  (HandledAreProcessed /\ HandledOnce)'
  <2>1. PICK e \in CallEntry :
            /\ e.message = m
            /\ handled' = Append(handled, e)
            /\ messages' = [messages EXCEPT ![m] = "Processed"]
    BY <1>1, CallEffect
  <2>2. /\ Len(handled') = n + 1
        /\ \A i \in 1 .. n : handled'[i] = handled[i]
        /\ handled'[n + 1] = e
    BY <2>1, AppendProperties DEF TypeOK, CallEntry
  <2>3. \A i \in 1 .. n : handled[i].message # m
    BY <1>1 DEF HandledAreProcessed
  <2>4. ASSUME NEW i \in 1 .. Len(handled')
        PROVE  messages'[handled'[i].message] = "Processed"
    <3>1. CASE i \in 1 .. n
      BY <1>0, <2>1, <2>2, <3>1 DEF HandledAreProcessed, TypeOK
    <3>2. CASE i = n + 1
      BY <2>1, <2>2, <3>2 DEF TypeOK
    <3>3. QED
      BY <1>0, <2>2, <3>1, <3>2
  <2>5. ASSUME NEW i \in 1 .. Len(handled'), NEW j \in 1 .. Len(handled'),
               handled'[i].message = handled'[j].message
        PROVE  i = j
    <3>1. CASE i \in 1 .. n /\ j \in 1 .. n
      BY <2>2, <2>5, <3>1 DEF HandledOnce
    <3>2. CASE i = n + 1 /\ j \in 1 .. n
      BY <2>1, <2>2, <2>3, <2>5, <3>2
    <3>3. CASE i \in 1 .. n /\ j = n + 1
      BY <2>1, <2>2, <2>3, <2>5, <3>3
    <3>4. CASE i = n + 1 /\ j = n + 1
      BY <3>4
    <3>5. QED
      BY <1>0, <2>2, <3>1, <3>2, <3>3, <3>4
  <2>6. QED
    BY <2>4, <2>5 DEF HandledAreProcessed, HandledOnce
<1>2. ASSUME NEW m \in Messages, NEW root \in Roots, Prove(m, root)
      PROVE  (HandledAreProcessed /\ HandledOnce)'
  <2>1. /\ messages[m] = "None"
        /\ messages' = [messages EXCEPT ![m] = "Proven"]
        /\ handled' = handled
    BY <1>2 DEF Prove, Unproven
  <2>2. HandledAreProcessed'
    BY <1>0, <2>1 DEF HandledAreProcessed, TypeOK
  <2>3. QED
    BY <2>1, <2>2 DEF HandledOnce
<1>3. CASE UNCHANGED <<messages, handled>>
  BY <1>3 DEF HandledAreProcessed, HandledOnce
<1>4. \/ \E m \in Messages : CallRecipient(m) /\ messages[m] # "Processed"
      \/ \E m \in Messages, root \in Roots : Prove(m, root)
      \/ UNCHANGED <<messages, handled>>
  <2>1. \A m \in Messages : Process(m) => messages[m] # "Processed"
    BY DEF Process
  <2>2. \A m \in Messages, root \in Roots : ProveAndProcess(m, root) => messages[m] # "Processed"
    BY DEF ProveAndProcess, Unproven
  <2>3. QED
    BY <2>1, <2>2, StepCases DEF Update, DoubleUpdate, Return, Tick, vars
<1>5. QED
  BY <1>1, <1>2, <1>3, <1>4

\* handle runs at most once for a message, for every interleaving of prove,
\* process and proveAndProcess and for re-entrant recipients.
THEOREM OnceCorrect == Spec => []HandledOnce
<1> DEFINE IInv == TypeOK /\ HandledAreProcessed /\ HandledOnce
<1>1. Init => IInv
  <2>1. Init => HandledAreProcessed /\ HandledOnce
    BY EmptySeq DEF Init, HandledAreProcessed, HandledOnce
  <2>2. QED
    BY <2>1, TypeInit
<1>2. IInv /\ [Next]_vars => IInv'
  BY TypeNext, HandledNext
<1>3. QED
  BY <1>1, <1>2, PTL DEF Spec

\* The status of a message only moves from None over Proven to Processed, and
\* to Processed only together with the one call of its recipient.
THEOREM StatusCorrect == Spec => StatusAdvances
<1>1. ASSUME TypeOK, [Next]_vars, NEW m \in Messages
      PROVE  Advances(m)
  <2>1. ASSUME NEW k \in Messages, CallRecipient(k)
        PROVE  Advances(m)
    <3>1. /\ messages' = [messages EXCEPT ![k] = "Processed"]
          /\ handled' = Append(handled, [message |-> k, at |-> now])
      BY <2>1 DEF CallRecipient, MarkProcessed
    <3>2. CASE m = k
      BY <1>1, <3>1, <3>2 DEF TypeOK, Advances
    <3>3. CASE m # k
      BY <1>1, <3>1, <3>3 DEF TypeOK, Advances
    <3>4. QED
      BY <3>2, <3>3
  <2>2. ASSUME NEW k \in Messages, NEW root \in Roots, Prove(k, root)
        PROVE  Advances(m)
    BY <1>1, <2>2 DEF Prove, Unproven, TypeOK, Advances
  <2>3. CASE messages' = messages
    BY <2>3 DEF Advances
  <2>4. \/ \E k \in Messages : CallRecipient(k)
        \/ \E k \in Messages, root \in Roots : Prove(k, root)
        \/ messages' = messages
    BY <1>1, StepCases DEF Update, DoubleUpdate, Return, Tick, vars
  <2>5. QED
    BY <2>1, <2>2, <2>3, <2>4
<1>2. TypeOK /\ [Next]_vars => \A m \in Messages : Advances(m)
  BY <1>1
<1>3. QED
  BY <1>2, TypeCorrect, PTL DEF Spec, StatusAdvances

-----------------------------------------------------------------------------
(* The optimistic window *)

\* A timer that was ever set is that of the initial root, or stands
\* OptimisticSeconds after an update to its root.
TimersFromUpdates ==
    \A root \in Roots :
        confirmAt[root] # 0 =>
            \/ root = InitialRoot
            \/ \E i \in 1 .. Len(updates) :
                  updates[i].newRoot = root /\ updates[i].at + OptimisticSeconds = confirmAt[root]

\* The log keeps what it has, and time does not run back.
LEMMA LogGrows ==
    ASSUME TypeOK, [Next]_vars
    PROVE  /\ now <= now' /\ now \in Nat /\ now' \in Nat
           /\ Len(updates) <= Len(updates') /\ Len(updates) \in Nat /\ Len(updates') \in Nat
           /\ \A i \in 1 .. Len(updates) : updates'[i] = updates[i]
<1>1. now \in Nat /\ Len(updates) \in Nat
  BY LenProperties DEF TypeOK
<1>2. ASSUME NEW by \in Accounts, NEW old \in Roots, NEW new \in Roots, Update(by, old, new)
      PROVE  /\ now' = now
             /\ Len(updates') = Len(updates) + 1
             /\ \A i \in 1 .. Len(updates) : updates'[i] = updates[i]
  <2>1. PICK e \in UpdateEntry : updates' = Append(updates, e) /\ now' = now
    BY <1>2, UpdateEffect
  <2>2. QED
    BY <2>1, AppendProperties DEF TypeOK, UpdateEntry
<1>3. CASE now' = now + 1 /\ updates' = updates
  BY <1>1, <1>3
<1>4. CASE now' = now /\ updates' = updates
  BY <1>1, <1>4
<1>5. \/ \E by \in Accounts, old, new \in Roots : Update(by, old, new)
      \/ now' = now + 1 /\ updates' = updates
      \/ now' = now /\ updates' = updates
  BY StepCases DEF DoubleUpdate, Prove, CallRecipient, Return, Tick, vars
<1>6. CASE \E by \in Accounts, old, new \in Roots : Update(by, old, new)
  BY <1>1, <1>2, <1>6
<1>7. QED
  BY <1>3, <1>4, <1>5, <1>6

\* What has been undisputed for the window stays so.
LEMMA UndisputedIsStable ==
    ASSUME TypeOK, [Next]_vars, NEW root, NEW t \in Nat, NEW u \in Nat, t <= u, Undisputed(root, t)
    PROVE  Undisputed(root, u)'
<1>1. CASE root = InitialRoot
  BY <1>1 DEF Undisputed
<1>2. CASE root # InitialRoot
  <2>1. PICK i \in 1 .. Len(updates) :
            updates[i].newRoot = root /\ updates[i].at + OptimisticSeconds <= t
    BY <1>2 DEF Undisputed
  <2>2. updates[i].at \in Nat
    <3>1. updates[i] \in UpdateEntry
      BY ElementOfSeq DEF TypeOK, UpdateEntry
    <3>2. QED
      BY <3>1 DEF UpdateEntry
  <2>3. updates[i].at + OptimisticSeconds <= u
    BY <2>1, <2>2, ReplicaAssumption
  <2>4. i \in 1 .. Len(updates') /\ updates'[i] = updates[i]
    BY LogGrows
  <2>5. QED
    BY <2>1, <2>3, <2>4 DEF Undisputed
<1>3. QED
  BY <1>1, <1>2

\* What acceptableRoot lets through has been undisputed for the window.
LEMMA AcceptableIsUndisputed ==
    ASSUME TypeOK, TimersFromUpdates, NEW root \in Roots, AcceptableRoot(root)
    PROVE  Undisputed(root, now)
<1>1. confirmAt[root] # 0 /\ confirmAt[root] <= now
  BY DEF AcceptableRoot, TypeOK
<1>2. QED
  BY <1>1 DEF TimersFromUpdates, Undisputed

\* Only an update sets a timer, and it logs when.
LEMMA TimersNext == TypeOK /\ TimersFromUpdates /\ [Next]_vars => TimersFromUpdates'
<1> SUFFICES ASSUME TypeOK, TimersFromUpdates, [Next]_vars
             PROVE  TimersFromUpdates'
  OBVIOUS
<1>1. ASSUME NEW by \in Accounts, NEW old \in Roots, NEW new \in Roots, Update(by, old, new)
      PROVE  TimersFromUpdates'
  <2>1. PICK e \in UpdateEntry :
            /\ e.newRoot = new /\ e.at = now
            /\ updates' = Append(updates, e)
            /\ confirmAt' = [confirmAt EXCEPT ![new] = now + OptimisticSeconds]
    BY <1>1, UpdateEffect
  <2>2. /\ Len(updates) \in Nat
        /\ Len(updates') = Len(updates) + 1
        /\ \A i \in 1 .. Len(updates) : updates'[i] = updates[i]
        /\ updates'[Len(updates) + 1] = e
    BY <2>1, AppendProperties, LenProperties DEF TypeOK, UpdateEntry
  <2>3. SUFFICES ASSUME NEW root \in Roots, confirmAt'[root] # 0, root # InitialRoot
                 PROVE  \E i \in 1 .. Len(updates') :
                            /\ updates'[i].newRoot = root
                            /\ updates'[i].at + OptimisticSeconds = confirmAt'[root]
    BY DEF TimersFromUpdates
  <2>4. CASE root = new
    <3>1. confirmAt'[root] = now + OptimisticSeconds
      BY <2>1, <2>4 DEF TypeOK
    <3>2. Len(updates) + 1 \in 1 .. Len(updates')
      BY <2>2
    <3>3. QED
      BY <2>1, <2>2, <2>4, <3>1, <3>2
  <2>5. CASE root # new
    <3>1. confirmAt'[root] = confirmAt[root]
      BY <2>1, <2>5 DEF TypeOK
    <3>2. PICK i \in 1 .. Len(updates) :
              updates[i].newRoot = root /\ updates[i].at + OptimisticSeconds = confirmAt[root]
      BY <2>3, <3>1 DEF TimersFromUpdates
    <3>3. i \in 1 .. Len(updates') /\ updates'[i] = updates[i]
      BY <2>2
    <3>4. QED
      BY <3>1, <3>2, <3>3
  <2>6. QED
    BY <2>4, <2>5
<1>2. CASE UNCHANGED <<confirmAt, updates>>
  BY <1>2 DEF TimersFromUpdates
<1>3. (\E by \in Accounts, old, new \in Roots : Update(by, old, new)) \/ UNCHANGED <<confirmAt, updates>>
  BY StepCases DEF DoubleUpdate, Prove, CallRecipient, Return, Tick, vars
<1>4. QED
  BY <1>1, <1>2, <1>3

\* Every step keeps the window.
LEMMA WindowNext == TypeOK /\ TimersFromUpdates /\ HandledAfterWindow /\ [Next]_vars => HandledAfterWindow'
<1> SUFFICES ASSUME TypeOK, TimersFromUpdates, HandledAfterWindow, [Next]_vars
             PROVE  HandledAfterWindow'
  OBVIOUS
<1>1. /\ Len(handled) \in Nat
      /\ \A i \in 1 .. Len(handled) : handled[i].at \in Nat
      /\ now \in Nat /\ now' \in Nat /\ now <= now'
  <2>1. \A i \in 1 .. Len(handled) : handled[i] \in CallEntry
    BY ElementOfSeq DEF TypeOK, CallEntry
  <2>2. QED
    BY <2>1, LogGrows, LenProperties DEF TypeOK, CallEntry
<1>2. ASSUME NEW i \in 1 .. Len(handled)
      PROVE  \E root \in Roots :
                 /\ Proves(root, handled[i].message)
                 /\ \A t \in Nat : t = handled[i].at => Undisputed(root, t)'
  <2>1. PICK root \in Roots : Proves(root, handled[i].message) /\ Undisputed(root, handled[i].at)
    BY DEF HandledAfterWindow
  <2>2. ASSUME NEW t \in Nat, t = handled[i].at
        PROVE  Undisputed(root, t)'
    BY <2>1, <2>2, UndisputedIsStable
  <2>3. QED
    BY <2>1, <2>2
<1>3. ASSUME NEW root \in Roots, Undisputed(root, now)
      PROVE  Undisputed(root, now)'
  <2>1. ASSUME NEW t \in Nat, t = now'
        PROVE  Undisputed(root, t)'
    BY <1>1, <1>3, <2>1, UndisputedIsStable
  <2>2. QED
    BY <1>1, <2>1 DEF Undisputed
<1>4. ASSUME handled' = handled
      PROVE  \A i \in 1 .. Len(handled') :
                 \E root \in Roots :
                     Proves(root, handled'[i].message) /\ Undisputed(root, handled[i].at)'
  <2>1. SUFFICES ASSUME NEW i \in 1 .. Len(handled')
                 PROVE  \E root \in Roots :
                            Proves(root, handled'[i].message) /\ Undisputed(root, handled[i].at)'
    OBVIOUS
  <2>2. PICK root \in Roots : /\ Proves(root, handled[i].message)
                             /\ \A t \in Nat : t = handled[i].at => Undisputed(root, t)'
    BY <1>2, <1>4
  <2>3. Undisputed(root, handled[i].at)'
    BY <1>1, <1>4, <2>2 DEF Undisputed
  <2>4. QED
    BY <1>4, <2>2, <2>3
<1>5. ASSUME NEW m \in Messages, CallRecipient(m),
             NEW root \in Roots, Proves(root, m), Undisputed(root, now)
      PROVE  HandledAfterWindow'
  <2>1. PICK e \in CallEntry :
            /\ e.message = m /\ e.at = now
            /\ handled' = Append(handled, e)
            /\ messages' = [messages EXCEPT ![m] = "Processed"]
    BY <1>5, CallEffect
  <2>2. /\ Len(handled') = Len(handled) + 1
        /\ \A i \in 1 .. Len(handled) : handled'[i] = handled[i]
        /\ handled'[Len(handled) + 1] = e
    BY <2>1, AppendProperties DEF TypeOK, CallEntry
  <2>3. ASSUME NEW i \in 1 .. Len(handled')
        PROVE  \E r \in Roots :
                   Proves(r, handled'[i].message) /\ Undisputed(r, handled[i].at)'
    <3>1. CASE i \in 1 .. Len(handled)
      <4>1. PICK r \in Roots : /\ Proves(r, handled[i].message)
                              /\ \A t \in Nat : t = handled[i].at => Undisputed(r, t)'
        BY <1>2, <3>1
      <4>2. handled'[i] = handled[i] /\ handled[i].at \in Nat
        BY <1>1, <2>2, <3>1
      <4>3. Undisputed(r, handled[i].at)'
        BY <4>1, <4>2 DEF Undisputed
      <4>4. QED
        BY <4>1, <4>2, <4>3
    <3>2. CASE i = Len(handled) + 1
      <4>1. handled'[i].message = m /\ handled'[i].at = now
        BY <2>1, <2>2, <3>2
      <4>2. ASSUME NEW t \in Nat, t = now
            PROVE  Undisputed(root, t)'
        BY <1>1, <1>5, <4>2, UndisputedIsStable
      <4>3. Undisputed(root, handled[i].at)'
        BY <1>1, <4>1, <4>2 DEF Undisputed
      <4>4. QED
        BY <1>5, <4>1, <4>3
    <3>3. QED
      BY <1>1, <2>2, <3>1, <3>2
  <2>4. ASSUME NEW k \in Messages, messages'[k] = "Proven"
        PROVE  \E r \in Roots : Proves(r, k) /\ Undisputed(r, now)'
    <3>1. messages[k] = "Proven"
      BY <2>1, <2>4 DEF TypeOK
    <3>2. PICK r \in Roots : Proves(r, k) /\ Undisputed(r, now)
      BY <3>1 DEF HandledAfterWindow
    <3>3. QED
      BY <1>3, <3>2
  <2>5. QED
    BY <2>3, <2>4 DEF HandledAfterWindow, Proves
<1>6. ASSUME NEW m \in Messages, NEW root \in Roots, Prove(m, root)
      PROVE  HandledAfterWindow'
  <2>1. /\ Proves(root, m) /\ AcceptableRoot(root)
        /\ messages' = [messages EXCEPT ![m] = "Proven"]
        /\ handled' = handled
    BY <1>6 DEF Prove
  <2>2. Undisputed(root, now)
    BY <2>1, AcceptableIsUndisputed
  <2>3. ASSUME NEW k \in Messages, messages'[k] = "Proven"
        PROVE  \E r \in Roots : Proves(r, k) /\ Undisputed(r, now)'
    <3>1. CASE k = m
      BY <1>3, <2>1, <2>2, <3>1
    <3>2. CASE k # m
      <4>1. messages[k] = "Proven"
        BY <2>1, <2>3, <3>2 DEF TypeOK
      <4>2. PICK r \in Roots : Proves(r, k) /\ Undisputed(r, now)
        BY <4>1 DEF HandledAfterWindow
      <4>3. QED
        BY <1>3, <4>2
    <3>3. QED
      BY <3>1, <3>2
  <2>4. QED
    BY <1>4, <2>1, <2>3 DEF HandledAfterWindow, Proves
<1>7. ASSUME UNCHANGED <<messages, handled>>
      PROVE  HandledAfterWindow'
  <2>1. ASSUME NEW k \in Messages, messages'[k] = "Proven"
        PROVE  \E r \in Roots : Proves(r, k) /\ Undisputed(r, now)'
    <3>1. PICK r \in Roots : Proves(r, k) /\ Undisputed(r, now)
      BY <1>7, <2>1 DEF HandledAfterWindow
    <3>2. QED
      BY <1>3, <3>1
  <2>2. QED
    BY <1>4, <1>7, <2>1 DEF HandledAfterWindow, Proves
<1>8. ASSUME NEW m \in Messages, CallRecipient(m), Process(m)
      PROVE  HandledAfterWindow'
  <2>1. PICK root \in Roots : Proves(root, m) /\ Undisputed(root, now)
    BY <1>8 DEF Process, HandledAfterWindow
  <2>2. QED
    BY <1>5, <1>8, <2>1
<1>9. ASSUME NEW m \in Messages, NEW root \in Roots, CallRecipient(m), ProveAndProcess(m, root)
      PROVE  HandledAfterWindow'
  <2>1. Proves(root, m) /\ Undisputed(root, now)
    BY <1>9, AcceptableIsUndisputed DEF ProveAndProcess
  <2>2. QED
    BY <1>5, <1>9, <2>1
<1>10. \/ \E m \in Messages, root \in Roots : Prove(m, root)
       \/ \E m \in Messages : CallRecipient(m) /\ Process(m)
       \/ \E m \in Messages, root \in Roots : CallRecipient(m) /\ ProveAndProcess(m, root)
       \/ UNCHANGED <<messages, handled>>
  BY StepCases DEF Update, DoubleUpdate, Return, Tick, vars
<1>11. QED
  BY <1>6, <1>7, <1>8, <1>9, <1>10

\* No message is handled, or proven, unless a root over it was on this chain
\* for the optimistic window, for every window and every order of updates,
\* re-submitted roots, proofs and calls: the promise a watcher relies on.
THEOREM WindowCorrect == Spec => []HandledAfterWindow
<1> DEFINE IInv == TypeOK /\ TimersFromUpdates /\ HandledAfterWindow
<1>1. Init => IInv
  <2>1. Init => TimersFromUpdates
    BY DEF Init, TimersFromUpdates
  <2>2. Init => HandledAfterWindow
    BY EmptySeq DEF Init, HandledAfterWindow
  <2>3. QED
    BY <2>1, <2>2, TypeInit
<1>2. IInv /\ [Next]_vars => IInv'
  BY TypeNext, TimersNext, WindowNext
<1>3. QED
  BY <1>1, <1>2, PTL DEF Spec

-----------------------------------------------------------------------------
(* The log *)

\* Every step extends the chain of updates by a link or leaves it alone.
LEMMA ChainNext == TypeOK /\ UpdatesFormChain /\ [Next]_vars => UpdatesFormChain'
<1> SUFFICES ASSUME TypeOK, UpdatesFormChain, [Next]_vars
             PROVE  UpdatesFormChain'
  OBVIOUS
<1>1. ASSUME NEW by \in Accounts, NEW old \in Roots, NEW new \in Roots, Update(by, old, new)
      PROVE  UpdatesFormChain'
  <2> DEFINE n == Len(updates)
  <2>1. PICK e \in UpdateEntry :
            /\ e.oldRoot = committedRoot /\ e.newRoot = new
            /\ updates' = Append(updates, e)
            /\ committedRoot' = new
    BY <1>1, UpdateEffect
  <2>2. /\ n \in Nat
        /\ Len(updates') = n + 1
        /\ \A i \in 1 .. n : updates'[i] = updates[i]
        /\ updates'[n + 1] = e
        /\ updates' # <<>>
    BY <2>1, AppendProperties, LenProperties DEF TypeOK, UpdateEntry
  <2>3. Last(updates').newRoot = committedRoot'
    BY <2>1, <2>2 DEF Last
  <2>4. updates # <<>> => n \in 1 .. n /\ updates[n].newRoot = committedRoot
    <3>1. updates # <<>> => n \in Nat \ {0}
      BY EmptySeq DEF TypeOK
    <3>2. QED
      BY <3>1 DEF UpdatesFormChain, Last
  <2>5. updates'[1].oldRoot = InitialRoot
    <3>1. CASE updates = <<>>
      <4>1. n = 0
        BY <3>1, EmptySeq
      <4>2. QED
        BY <2>1, <2>2, <3>1, <4>1 DEF UpdatesFormChain
    <3>2. CASE updates # <<>>
      <4>1. 1 \in 1 .. n
        BY <2>2, <2>4, <3>2
      <4>2. QED
        BY <2>2, <3>2, <4>1 DEF UpdatesFormChain
    <3>3. QED
      BY <3>1, <3>2
  <2>6. ASSUME NEW i \in 1 .. Len(updates') - 1
        PROVE  updates'[i + 1].oldRoot = updates'[i].newRoot
    <3>1. i \in 1 .. n
      BY <2>2
    <3>2. CASE i = n
      <4>1. updates # <<>>
        BY <3>1, EmptySeq
      <4>2. QED
        BY <2>1, <2>2, <2>4, <3>1, <3>2, <4>1
    <3>3. CASE i # n
      <4>1. i \in 1 .. n - 1 /\ i + 1 \in 1 .. n
        BY <2>2, <3>1, <3>3
      <4>2. updates[i + 1].oldRoot = updates[i].newRoot
        BY <4>1 DEF UpdatesFormChain
      <4>3. QED
        BY <2>2, <3>1, <4>1, <4>2
    <3>4. QED
      BY <3>2, <3>3
  <2>7. QED
    BY <2>2, <2>3, <2>5, <2>6 DEF UpdatesFormChain
<1>2. CASE UNCHANGED <<committedRoot, updates>>
  BY <1>2 DEF UpdatesFormChain, Last
<1>3. (\E by \in Accounts, old, new \in Roots : Update(by, old, new))
         \/ UNCHANGED <<committedRoot, updates>>
  BY StepCases DEF DoubleUpdate, Prove, CallRecipient, Return, Tick, vars
<1>4. QED
  BY <1>1, <1>2, <1>3

\* A replica follows one chain of updates from the root it was initialized
\* with to its committed root, whatever forks the updater has signed.
THEOREM ChainCorrect == Spec => []UpdatesFormChain
<1>1. Init => TypeOK /\ UpdatesFormChain
  <2>1. Init => UpdatesFormChain
    BY EmptySeq DEF Init, UpdatesFormChain
  <2>2. QED
    BY <2>1, TypeInit
<1>2. TypeOK /\ UpdatesFormChain /\ [Next]_vars => (TypeOK /\ UpdatesFormChain)'
  BY TypeNext, ChainNext
<1>3. QED
  BY <1>1, <1>2, PTL DEF Spec

=============================================================================
