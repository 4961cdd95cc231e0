------------------------ MODULE MessageLedger_proofs ------------------------
(* Proofs about the send path and about the console that shares it.  First  *)
(* the ledger, for any number of customers, keys and senders, any cap and   *)
(* any window length; then the console and its calls, for any number of     *)
(* requests, polls, presses and syncs.  The two specifications have no      *)
(* name in common, and neither part uses a fact of the other.               *)
EXTENDS MessageLedger, Desk, SequenceTheorems, FiniteSetTheorems, TLAPS

LEMMA WindowFinite ==
  ASSUME NEW S \in SUBSET Key
  PROVE  IsFiniteSet(S) /\ Cardinality(S) \in Nat
  BY KeysAssumption, FS_Subset, FS_CardinalityType

LEMMA InitIInv == Init => IInv
  <1>. SUFFICES ASSUME Init PROVE IInv
    OBVIOUS
  <1>1. TypeOK
    BY TimeAssumption
    DEF Init, TypeOK, Row, NoRow, Status, Kind, Call, Idle, Never
  <1>2. LockSound /\ RoomLeft /\ CheckedBeforeOptOut /\ OneDispatcher
    BY NoneAssumption DEF Init, LockSound, RoomLeft, CheckedBeforeOptOut, OneDispatcher, Idle,
                          InTransaction, Logged, NoRow
  <1>3. FrequencyCap
    <2>1. \A c, t : {k \in Recent(c, t) : log[k].sentAt <= t} = {}
      BY DEF Init, Recent, Counted, Logged, NoRow
    <2>. QED BY <2>1, FS_EmptySet, CapAssumption DEF FrequencyCap
  <1>4. AtMostOneTouch /\ OptOutHonoured /\ SuppressedNeverSent
    BY DEF Init, AtMostOneTouch, OptOutHonoured, SuppressedNeverSent, Logged, NoRow
  <1>. QED BY <1>1, <1>2, <1>3, <1>4 DEF IInv

\* What the windows of the cap are made of.
SameRows ==
  \A k \in Key : /\ Logged(k)' <=> Logged(k)
                 /\ log'[k].kind = log[k].kind
                 /\ log'[k].sentAt = log[k].sentAt

\* A step that adds no row leaves every window, so the cap and the room, alone.
LEMMA SameRowsSameWindows ==
  ASSUME SameRows
  PROVE  /\ \A c, t : Recent(c, t)' = Recent(c, t)
         /\ FrequencyCap => FrequencyCap'
  <1>1. \A c, t : Recent(c, t)' = Recent(c, t)
    BY DEF SameRows, Recent, Counted
  <1>2. \A c, t : {k \in Recent(c, t) : log[k].sentAt <= t}'
                    = {k \in Recent(c, t) : log[k].sentAt <= t}
    BY <1>1 DEF SameRows, Recent, Counted
  <1>. QED BY <1>1, <1>2 DEF FrequencyCap

LEMMA UnchangedSameRows == UNCHANGED log => SameRows
  BY DEF SameRows, Logged

\* Inside the claim: steps that touch only the caller's own call and its lock.
LEMMA ClaimStepInv ==
  ASSUME IInv, NEW s \in Sender,
         \/ \E k \in Key, kind \in Kind, cap \in Cap : Begin(s, k, kind, cap)
         \/ Acquire(s) \/ CheckOptOut(s) \/ CountRecent(s) \/ Crash(s)
  PROVE  IInv'
  <1>. USE DEF IInv
  <1>1. UNCHANGED <<clock, log, optedOut, accepted>>
    BY DEF Begin, Acquire, CheckOptOut, CountRecent, Crash
  <1>2. \A t \in Sender : t # s => call'[t] = call[t]
    BY DEF Begin, Acquire, CheckOptOut, CountRecent, Crash, Refuse, TypeOK
  <1>3. TypeOK'
    <2>1. lock' \in [Customer -> Sender \cup {None}]
      BY DEF TypeOK, Begin, Acquire, CheckOptOut, CountRecent, Crash, Refuse, EndTransaction
    <2>2. call' \in [Sender -> Call]
      <3>1. Idle \in Call /\ call[s] \in Call
        BY TimeAssumption DEF Idle, Call, Kind, TypeOK
      <3>2. \A pc \in {"check", "count", "insert"} : [call[s] EXCEPT !.pc = pc] \in Call
        BY <3>1 DEF Call
      <3>3. ASSUME NEW k \in Key, NEW kind \in Kind, NEW cap \in Cap, Begin(s, k, kind, cap)
            PROVE  call' \in [Sender -> Call]
        BY <3>3 DEF Begin, TypeOK, Call
      <3>4. CASE Acquire(s) \/ CheckOptOut(s) \/ CountRecent(s) \/ Crash(s)
        BY <3>1, <3>2, <3>4 DEF Acquire, CheckOptOut, CountRecent, Crash, Refuse, TypeOK
      <3>. QED BY <3>3, <3>4
    <2>. QED BY <2>1, <2>2, <1>1 DEF TypeOK
  <1>4. LockSound'
    <2>1. ASSUME NEW k \in Key, NEW kind \in Kind, NEW cap \in Cap, Begin(s, k, kind, cap)
          PROVE  LockSound'
      BY <2>1, <1>2 DEF Begin, LockSound, InTransaction, TypeOK
    <2>2. CASE Acquire(s)
      BY <2>2, <1>2, NoneAssumption, KeysAssumption DEF Acquire, LockSound, InTransaction, TypeOK, Call
    <2>3. CASE CheckOptOut(s)
      BY <2>3, <1>2, NoneAssumption, KeysAssumption
      DEF CheckOptOut, Refuse, EndTransaction, Idle, LockSound, InTransaction, TypeOK, Call
    <2>4. CASE CountRecent(s)
      BY <2>4, <1>2, NoneAssumption, KeysAssumption
      DEF CountRecent, Refuse, EndTransaction, Idle, LockSound, InTransaction, TypeOK, Call
    <2>5. CASE Crash(s)
      BY <2>5, <1>2, NoneAssumption, KeysAssumption
      DEF Crash, EndTransaction, Idle, LockSound, InTransaction, TypeOK, Call
    <2>. QED BY <2>1, <2>2, <2>3, <2>4, <2>5
  <1>5. RoomLeft'
    <2>1. \A c, t : Recent(c, t)' = Recent(c, t)
      BY <1>1, UnchangedSameRows, SameRowsSameWindows
    <2>2. call'[s].pc = "insert" /\ call'[s].kind = "touch"
            => Cardinality(Recent(KeyCustomer[call'[s].key], call'[s].begun)) < MaxCap
      <3>1. SUFFICES ASSUME call'[s].pc = "insert", call'[s].kind = "touch"
                     PROVE  Cardinality(Recent(KeyCustomer[call'[s].key], call'[s].begun)) < MaxCap
        OBVIOUS
      <3>. DEFINE R == Recent(KeyCustomer[call[s].key], call[s].begun)
      <3>2. /\ call[s].pc = "count" /\ call'[s].key = call[s].key /\ call'[s].begun = call[s].begun
            /\ ~(Cardinality(R) >= call[s].cap)
        BY <3>1 DEF TypeOK, Begin, Acquire, CheckOptOut, CountRecent, Crash, Refuse, Call, Idle
      <3>3. Cardinality(R) \in Nat
        BY WindowFinite DEF Recent, Counted
      <3>4. call[s].cap \in 1..MaxCap
        BY <3>2, CapAssumption DEF LockSound
      <3>. QED BY <3>2, <3>3, <3>4, CapAssumption
    <2>. QED BY <2>1, <2>2, <1>2 DEF RoomLeft
  <1>6. CheckedBeforeOptOut'
    <2>1. call'[s].pc # "idle" => call'[s].begun <= clock
            /\ (call'[s].pc \in {"count", "insert"} => call'[s].begun <= optedOut[KeyCustomer[call'[s].key]])
      <3>1. CASE CheckOptOut(s)
        <4>1. call[s].begun <= Never
          BY TimeAssumption DEF TypeOK, Call, Never
        <4>. QED BY <3>1, <4>1 DEF CheckOptOut, Refuse, Idle, TypeOK, CheckedBeforeOptOut, Call
      <3>2. ASSUME NEW k \in Key, NEW kind \in Kind, NEW cap \in Cap, Begin(s, k, kind, cap)
            PROVE  call'[s].begun <= clock /\ call'[s].pc = "waiting"
        BY <3>2, TimeAssumption DEF Begin, TypeOK
      <3>3. CASE Acquire(s) \/ CountRecent(s) \/ Crash(s)
        <4>1. \/ call'[s].pc = "idle"
              \/ /\ call[s].pc \in {"waiting", "count"} /\ call'[s].pc # "idle"
                 /\ call'[s].begun = call[s].begun /\ call'[s].key = call[s].key
                 /\ call'[s].pc \in {"count", "insert"} => call[s].pc = "count"
          BY <3>3 DEF Acquire, CountRecent, Crash, Refuse, Idle, TypeOK, Call
        <4>. QED BY <4>1 DEF CheckedBeforeOptOut
      <3>. QED BY <3>1, <3>2, <3>3
    <2>. QED BY <2>1, <1>1, <1>2 DEF CheckedBeforeOptOut
  <1>7. OneDispatcher'
    <2>1. call'[s].pc \notin {"dispatch", "markSent", "markFailed"}
      BY DEF Begin, Acquire, CheckOptOut, CountRecent, Crash, Refuse, Idle, TypeOK, Call
    <2>. QED BY <2>1, <1>1, <1>2 DEF OneDispatcher, Logged
  <1>8. FrequencyCap'
    BY <1>1, UnchangedSameRows, SameRowsSameWindows
  <1>9. AtMostOneTouch' /\ OptOutHonoured' /\ SuppressedNeverSent'
    BY <1>1 DEF AtMostOneTouch, OptOutHonoured, SuppressedNeverSent, Logged
  <1>. QED BY <1>3, <1>4, <1>5, <1>6, <1>7, <1>8, <1>9

\* The row a claim writes fits in every window: whatever window it falls in was
\* part of what the claim counted, and nobody else could add to it meanwhile.
LEMMA InsertKeepsCap ==
  ASSUME IInv, NEW s \in Sender, InsertRow(s), ~Logged(call[s].key)
  PROVE  FrequencyCap'
  <1>. DEFINE k == call[s].key
              p == KeyCustomer[k]
              W(c, t) == {j \in Recent(c, t) : log[j].sentAt <= t}
  <1>1. /\ k \in Key /\ p \in Customer /\ call[s].begun \in 0..Horizon
        /\ log'[k].kind = call[s].kind /\ log'[k].sentAt = call[s].begun
        /\ log'[k].status # "none" /\ log[k].status = "none"
        /\ \A j \in Key : j # k => log'[j] = log[j]
    <2>1. call[s] \in Call /\ k \in Key /\ p \in Customer /\ log[k].status = "none"
      BY KeysAssumption DEF IInv, InsertRow, TypeOK, LockSound, Logged
    <2>2. log' = [log EXCEPT ![k] = [status |-> IF call[s].kind = "suppressed" THEN "suppressed"
                                                                          ELSE "queued",
                                     kind |-> call[s].kind, sentAt |-> call[s].begun]]
      BY DEF InsertRow
    <2>. QED BY <2>1, <2>2 DEF IInv, TypeOK, Call
  <1>2. SUFFICES ASSUME NEW c \in Customer, NEW t \in 0..Horizon
                 PROVE  Cardinality(W(c, t)') <= MaxCap
    BY DEF FrequencyCap
  <1>3. Cardinality(W(c, t)) <= MaxCap /\ W(c, t) \in SUBSET Key
    BY DEF IInv, FrequencyCap, Recent, Counted
  <1>4. W(c, t)' \subseteq W(c, t) \cup {k}
    BY <1>1 DEF Recent, Counted, Logged
  <1>5. CASE k \notin W(c, t)'
    <2>1. W(c, t)' \subseteq W(c, t)
      BY <1>4, <1>5
    <2>2. Cardinality(W(c, t)') <= Cardinality(W(c, t))
      BY <2>1, <1>3, WindowFinite, FS_Subset
    <2>3. W(c, t)' \in SUBSET Key
      BY <2>1, <1>3
    <2>. QED BY <2>2, <2>3, <1>3, WindowFinite, CapAssumption
  <1>6. CASE k \in W(c, t)'
    <2>. DEFINE R == Recent(p, call[s].begun)
    <2>1. /\ c = p /\ call[s].kind = "touch"
          /\ call[s].begun <= t /\ call[s].begun + Day > t
      BY <1>1, <1>6 DEF Recent, Counted
    <2>2. Cardinality(R) < MaxCap /\ R \in SUBSET Key
      BY <2>1 DEF IInv, RoomLeft, InsertRow, Recent, Counted
    <2>3. \A j \in Key : log[j].sentAt \in Nat
      BY TimeAssumption DEF IInv, TypeOK, Row
    <2>4. W(c, t)' \subseteq R \cup {k}
      BY <2>1, <2>3, <1>1, <1>4, TimeAssumption DEF Recent, Counted
    <2>5. Cardinality(R \cup {k}) <= Cardinality(R) + 1 /\ IsFiniteSet(R \cup {k})
      <3>1. IsFiniteSet(R) /\ Cardinality(R) \in Nat
        BY <2>2, WindowFinite
      <3>. HIDE DEF R
      <3>. QED BY <3>1, FS_AddElement
    <2>6. Cardinality(W(c, t)') <= Cardinality(R \cup {k})
      BY <2>4, <2>5, FS_Subset
    <2>7. Cardinality(R) \in Nat /\ Cardinality(W(c, t)') \in Nat /\ Cardinality(R \cup {k}) \in Nat
      BY <2>2, <2>4, <2>5, FS_Subset, FS_CardinalityType, WindowFinite
    <2>. QED BY <2>2, <2>5, <2>6, <2>7, CapAssumption
  <1>. QED BY <1>5, <1>6

LEMMA InsertRowInv ==
  ASSUME IInv, NEW s \in Sender, InsertRow(s)
  PROVE  IInv'
  <1>. USE DEF IInv
  <1>. DEFINE k == call[s].key
  <1>1. /\ UNCHANGED <<clock, optedOut, accepted>> /\ call[s].pc = "insert" /\ k \in Key
        /\ call[s] \in Call /\ KeyCustomer[k] \in Customer
        /\ lock[KeyCustomer[k]] = s
        /\ lock' = [lock EXCEPT ![KeyCustomer[k]] = None]
    BY KeysAssumption DEF InsertRow, EndTransaction, TypeOK, LockSound, InTransaction
  <1>2. /\ \A t \in Sender : t # s => call'[t] = call[t]
        /\ \/ call'[s] = Idle
           \/ /\ call'[s] = [call[s] EXCEPT !.pc = "dispatch"]
              /\ call[s].kind # "suppressed" /\ ~Logged(k)
    BY DEF InsertRow, TypeOK
  <1>3. \/ Logged(k) /\ log' = log
        \/ /\ ~Logged(k) /\ log' = [log EXCEPT ![k] = log'[k]]
           /\ log'[k] \in Row /\ log'[k].status # "none"
           /\ log'[k].kind = call[s].kind /\ log'[k].sentAt = call[s].begun
    BY <1>1 DEF InsertRow, TypeOK, Row, Status, Call
  <1>4. TypeOK'
    <2>1. Idle \in Call /\ [call[s] EXCEPT !.pc = "dispatch"] \in Call
      BY <1>1, TimeAssumption DEF Idle, Call, Kind
    <2>2. call' \in [Sender -> Call]
      BY <2>1 DEF InsertRow, TypeOK
    <2>3. log' \in [Key -> Row]
      BY <1>3 DEF TypeOK
    <2>. QED BY <2>2, <2>3, <1>1 DEF TypeOK
  <1>5. LockSound'
    <2>1. ~InTransaction(s)' /\ (call'[s].pc # "idle" => call'[s].key = k /\ call'[s].cap = call[s].cap)
      BY <1>1, <1>2 DEF InTransaction, Idle, Call
    <2>2. \A t \in Sender : t # s => InTransaction(t)' = InTransaction(t)
      BY <1>2 DEF InTransaction
    <2>3. \A t \in Sender : t # s /\ InTransaction(t) => KeyCustomer[call[t].key] # KeyCustomer[k]
                                                /\ KeyCustomer[call[t].key] \in Customer
      BY <1>1, KeysAssumption DEF LockSound, InTransaction
    <2>4. \A t \in Sender : t # s => call'[t] = call[t]
      BY <1>2
    <2>5. \A c \in Customer : lock'[c] = IF c = KeyCustomer[k] THEN None ELSE lock[c]
      BY <1>1 DEF TypeOK
    <2>6. \A t \in Sender : call'[t].pc # "idle" => call'[t].key \in Key /\ call'[t].cap \in Cap
      BY <2>1, <2>4, <1>1 DEF LockSound
    <2>7. \A t \in Sender : InTransaction(t)' => lock'[KeyCustomer[call'[t].key]] = t
      BY <2>1, <2>2, <2>3, <2>4, <2>5 DEF LockSound
    <2>8. ASSUME NEW c \in Customer, NEW t \in Sender, lock'[c] = t
          PROVE  InTransaction(t)' /\ c = KeyCustomer[call'[t].key]
      <3>1. c # KeyCustomer[k] /\ lock[c] = t
        BY <2>5, <2>8, NoneAssumption
      <3>2. InTransaction(t) /\ c = KeyCustomer[call[t].key]
        BY <3>1 DEF LockSound
      <3>. QED BY <3>1, <3>2, <2>2, <2>4
    <2>. QED BY <2>6, <2>7, <2>8 DEF LockSound
  <1>6. RoomLeft'
    <2>1. ASSUME NEW t \in Sender, call'[t].pc = "insert", call'[t].kind = "touch"
          PROVE  /\ t # s /\ call'[t] = call[t]
                 /\ Cardinality(Recent(KeyCustomer[call[t].key], call[t].begun)') < MaxCap
      <3>1. t # s /\ call'[t] = call[t]
        BY <1>1, <1>2, <2>1 DEF Idle, Call
      <3>2. KeyCustomer[call[t].key] # KeyCustomer[k]
        BY <2>1, <3>1, <1>1 DEF LockSound, InTransaction
      <3>3. \A j \in Key : KeyCustomer[j] = KeyCustomer[call[t].key] => log'[j] = log[j]
        BY <3>2, <1>3 DEF TypeOK
      <3>4. Recent(KeyCustomer[call[t].key], call[t].begun)' = Recent(KeyCustomer[call[t].key], call[t].begun)
        BY <3>1, <3>3 DEF Recent, Counted, Logged
      <3>. QED BY <2>1, <3>1, <3>4 DEF RoomLeft
    <2>. QED BY <2>1 DEF RoomLeft
  <1>7. CheckedBeforeOptOut'
    <2>1. \A j \in Key : log'[j].sentAt <= clock
      BY <1>1, <1>3 DEF CheckedBeforeOptOut, TypeOK
    <2>2. /\ call'[s].pc # "idle" => call'[s].begun <= clock
          /\ call'[s].pc \notin {"count", "insert"}
      BY <1>1, <1>2 DEF CheckedBeforeOptOut, Idle, Call
    <2>. QED BY <2>1, <2>2, <1>1, <1>2 DEF CheckedBeforeOptOut
  <1>8. OneDispatcher'
    <2>1. \A t \in Sender : call[t].pc \in {"dispatch", "markSent", "markFailed"} /\ ~Logged(k)
             => call[t].key # k
      BY DEF OneDispatcher
    <2>2. \A j \in Key : Logged(j) => Logged(j)' /\ log'[j] = log[j]
      BY <1>1, <1>3 DEF Logged, TypeOK
    <2>3. call'[s].pc = "dispatch" => Logged(k)' /\ log'[k].kind # "suppressed" /\ accepted[k] = 0
                                        /\ call'[s].key = k
      BY <1>1, <1>2, <1>3 DEF OneDispatcher, Logged, Idle, Call
    <2>4. call'[s].pc \in {"idle", "dispatch"}
      BY <1>1, <1>2 DEF Idle, Call
    <2>5. \A j \in Key : ~(Logged(j)') => ~Logged(j)
      BY <2>2
    <2>6. \A t \in Sender : t # s /\ call'[t].pc \in {"dispatch", "markSent", "markFailed"}
             => call'[t] = call[t] /\ call[t].key \in Key /\ Logged(call[t].key)
      BY <1>2 DEF OneDispatcher, LockSound
    <2>7. call'[s].pc = "dispatch" => ~Logged(k)
      BY <1>2 DEF Idle
    <2>8. \A t \in Sender : t # s /\ call'[s].pc = "dispatch"
               /\ call'[t].pc \in {"dispatch", "markSent"} => call'[t].key # call'[s].key
      BY <2>1, <2>3, <2>6, <2>7
    <2>. QED BY <2>2, <2>3, <2>4, <2>5, <2>6, <2>8, <1>1 DEF OneDispatcher
  <1>9. FrequencyCap'
    <2>1. CASE ~Logged(k)
      BY <2>1, InsertKeepsCap
    <2>2. CASE Logged(k)
      BY <2>2, <1>3, UnchangedSameRows, SameRowsSameWindows
    <2>. QED BY <2>1, <2>2
  <1>10. OptOutHonoured'
    BY <1>1, <1>3 DEF OptOutHonoured, CheckedBeforeOptOut, Logged, TypeOK
  <1>11. SuppressedNeverSent' /\ AtMostOneTouch'
    BY <1>1, <1>3 DEF SuppressedNeverSent, AtMostOneTouch, OneDispatcher, TypeOK
  <1>. QED BY <1>4, <1>5, <1>6, <1>7, <1>8, <1>9, <1>10, <1>11

\* Outside the claim: the provider call, the status writes and the receipts
\* leave every row counted as it was.
LEMMA DeliveryStepInv ==
  ASSUME IInv,
         \/ \E s \in Sender : Dispatch(s) \/ MarkSent(s) \/ MarkFailed(s)
         \/ \E k \in Key : Receipt(k)
  PROVE  IInv'
  <1>. USE DEF IInv
  <1>1. UNCHANGED <<clock, lock, optedOut>>
    BY DEF Dispatch, MarkSent, MarkFailed, Receipt
  <1>2. SameRows
    <2>1. ASSUME NEW s \in Sender, MarkSent(s) \/ MarkFailed(s) PROVE SameRows
      <3>1. Logged(call[s].key) /\ call[s].key \in Key
        BY <2>1 DEF MarkSent, MarkFailed, OneDispatcher, LockSound
      <3>. QED BY <2>1, <3>1 DEF MarkSent, MarkFailed, SameRows, Logged, TypeOK, Row
    <2>2. ASSUME NEW k \in Key, Receipt(k) PROVE SameRows
      BY <2>2 DEF Receipt, SameRows, Logged, TypeOK, Row
    <2>3. ASSUME NEW s \in Sender, Dispatch(s) PROVE SameRows
      BY <2>3, UnchangedSameRows DEF Dispatch
    <2>. QED BY <2>1, <2>2, <2>3
  <1>3. TypeOK'
    <2>1. log' \in [Key -> Row]
      <3>1. \A j \in Key, st \in Status : [log[j] EXCEPT !.status = st] \in Row
        BY DEF TypeOK, Row
      <3>2. {"sent", "failed", "receipt"} \subseteq Status
        BY DEF Status
      <3>3. \/ log' = log
            \/ \E j \in Key, st \in {"sent", "failed", "receipt"} :
                  log' = [log EXCEPT ![j] = [log[j] EXCEPT !.status = st]]
        BY DEF Dispatch, MarkSent, MarkFailed, Receipt, LockSound
      <3>. QED BY <3>1, <3>2, <3>3 DEF TypeOK
    <2>2. accepted' \in [Key -> Nat]
      <3>1. accepted' = accepted \/ \E j \in Key : accepted' = [accepted EXCEPT ![j] = @ + 1]
        BY DEF Dispatch, MarkSent, MarkFailed, Receipt, LockSound
      <3>. QED BY <3>1 DEF TypeOK
    <2>3. call' \in [Sender -> Call]
      <3>1. Idle \in Call
        BY TimeAssumption DEF Idle, Call, Kind
      <3>2. ASSUME NEW s \in Sender, Dispatch(s) PROVE call' \in [Sender -> Call]
        <4>1. \A pc \in {"markSent", "markFailed"} : [call[s] EXCEPT !.pc = pc] \in Call
          BY DEF TypeOK, Call
        <4>. QED BY <3>2, <4>1 DEF Dispatch, TypeOK
      <3>3. ASSUME NEW s \in Sender, MarkSent(s) \/ MarkFailed(s) PROVE call' \in [Sender -> Call]
        BY <3>1, <3>3 DEF MarkSent, MarkFailed, TypeOK
      <3>4. ASSUME NEW k \in Key, Receipt(k) PROVE call' \in [Sender -> Call]
        BY <3>4 DEF Receipt, TypeOK
      <3>. QED BY <3>2, <3>3, <3>4
    <2>. QED BY <2>1, <2>2, <2>3, <1>1 DEF TypeOK
  <1>4. /\ \A c, t : Recent(c, t)' = Recent(c, t)
        /\ FrequencyCap'
    BY <1>2, SameRowsSameWindows
  <1>5. OptOutHonoured'
    BY <1>1, <1>2 DEF OptOutHonoured, SameRows
  <1>6. ASSUME NEW s \in Sender, Dispatch(s) \/ MarkSent(s) \/ MarkFailed(s)
        PROVE  /\ call[s].pc \in {"dispatch", "markSent", "markFailed"} /\ call[s].key \in Key
               /\ call'[s].pc \in {"markSent", "markFailed", "idle"}
               /\ call'[s].pc # "idle" => call[s].pc = "dispatch" /\ Dispatch(s)
                     /\ call'[s].key = call[s].key /\ call'[s].cap = call[s].cap
                     /\ call'[s].begun = call[s].begun
               /\ \A t \in Sender : t # s => call'[t] = call[t]
    BY <1>6 DEF Dispatch, MarkSent, MarkFailed, TypeOK, Call, Idle, LockSound
  <1>7. ASSUME NEW k \in Key, Receipt(k) PROVE call' = call /\ accepted' = accepted
    BY <1>7 DEF Receipt
  <1>8. LockSound'
    <2>1. ASSUME NEW s \in Sender, Dispatch(s) \/ MarkSent(s) \/ MarkFailed(s)
          PROVE  LockSound'
      BY <2>1, <1>1, <1>6 DEF LockSound, InTransaction
    <2>. QED BY <2>1, <1>1, <1>7 DEF LockSound, InTransaction
  <1>9. RoomLeft'
    <2>1. ASSUME NEW t \in Sender, call'[t].pc = "insert" PROVE call'[t] = call[t]
      BY <1>6, <1>7, <2>1
    <2>. QED BY <2>1, <1>4 DEF RoomLeft
  <1>10. CheckedBeforeOptOut'
    <2>1. ASSUME NEW s \in Sender, Dispatch(s) \/ MarkSent(s) \/ MarkFailed(s)
          PROVE  CheckedBeforeOptOut'
      BY <2>1, <1>1, <1>2, <1>6 DEF CheckedBeforeOptOut, SameRows
    <2>. QED BY <2>1, <1>1, <1>2, <1>7 DEF CheckedBeforeOptOut, SameRows
  <1>11. OneDispatcher' /\ AtMostOneTouch' /\ SuppressedNeverSent'
    <2>1. ASSUME NEW s \in Sender, Dispatch(s)
          PROVE  OneDispatcher' /\ AtMostOneTouch' /\ SuppressedNeverSent'
      <3>. DEFINE k == call[s].key
      <3>1. /\ Logged(k) /\ log[k].kind # "suppressed" /\ accepted[k] = 0 /\ log' = log
            /\ accepted'[k] \in {0, 1} /\ \A j \in Key : j # k => accepted'[j] = accepted[j]
            /\ k \in Key
        BY <2>1, <1>6 DEF Dispatch, OneDispatcher, TypeOK
      <3>2. \A t \in Sender : t # s /\ call'[t].pc \in {"dispatch", "markSent"}
              => call'[t] = call[t] /\ call[t].key # k
        BY <2>1, <1>6 DEF OneDispatcher, Dispatch
      <3>3. \A t \in Sender : call'[t].pc \in {"dispatch", "markSent", "markFailed"}
              => call'[t].key = call[t].key /\ call[t].pc \in {"dispatch", "markSent", "markFailed"}
        BY <2>1, <1>6
      <3>4. OneDispatcher'
        <4>1. \A t \in Sender : call'[t].pc = "dispatch" => accepted'[call'[t].key] = 0
          BY <2>1, <1>6, <3>1, <3>2 DEF OneDispatcher, LockSound
        <4>2. \A t, u \in Sender :
                t # u /\ call'[t].pc \in {"dispatch", "markSent"} /\ call'[u].pc \in {"dispatch", "markSent"}
                  => call'[t].key # call'[u].key
          BY <2>1, <1>6, <3>2 DEF OneDispatcher
        <4>. QED BY <3>1, <3>3, <4>1, <4>2 DEF OneDispatcher, Logged
      <3>. QED BY <3>1, <3>4 DEF AtMostOneTouch, SuppressedNeverSent
    <2>2. ASSUME NEW s \in Sender, MarkSent(s) \/ MarkFailed(s)
          PROVE  OneDispatcher' /\ AtMostOneTouch' /\ SuppressedNeverSent'
      <3>1. accepted' = accepted /\ call'[s].pc = "idle"
        BY <2>2, <1>6 DEF MarkSent, MarkFailed, TypeOK, Idle
      <3>. QED BY <2>2, <3>1, <1>2, <1>6
               DEF OneDispatcher, AtMostOneTouch, SuppressedNeverSent, SameRows, LockSound
    <2>3. ASSUME NEW k \in Key, Receipt(k)
          PROVE  OneDispatcher' /\ AtMostOneTouch' /\ SuppressedNeverSent'
      BY <2>3, <1>2, <1>7
      DEF OneDispatcher, AtMostOneTouch, SuppressedNeverSent, SameRows, LockSound
    <2>. QED BY <2>1, <2>2, <2>3
  <1>. QED BY <1>3, <1>4, <1>5, <1>8, <1>9, <1>10, <1>11

\* Time passes, and customers say STOP.
LEMMA WorldStepInv ==
  ASSUME IInv, Tick \/ \E c \in Customer : OptOut(c)
  PROVE  IInv'
  <1>. USE DEF IInv
  <1>1. UNCHANGED <<log, lock, call, accepted>> /\ clock' \in 0..Horizon /\ clock <= clock'
    BY TimeAssumption DEF Tick, OptOut, TypeOK
  <1>2. optedOut' \in [Customer -> 0..Never]
        /\ \A c \in Customer : optedOut'[c] # optedOut[c] => optedOut[c] = Never /\ optedOut'[c] = clock
    <2>1. clock \in 0..Never /\ optedOut \in [Customer -> 0..Never] /\ Never \in Nat
      BY TimeAssumption DEF TypeOK, Never
    <2>2. Tick => optedOut' = optedOut
      BY DEF Tick
    <2>3. ASSUME NEW c \in Customer, OptOut(c)
          PROVE  /\ optedOut' \in [Customer -> 0..Never]
                 /\ \A d \in Customer : optedOut'[d] # optedOut[d]
                                           => optedOut[d] = Never /\ optedOut'[d] = clock
      BY <2>1, <2>3 DEF OptOut
    <2>4. CASE Tick
      BY <2>1, <2>2, <2>4
    <2>. QED BY <2>3, <2>4
  <1>3. TypeOK'
    BY <1>1, <1>2 DEF TypeOK
  <1>4. LockSound' /\ OneDispatcher' /\ AtMostOneTouch' /\ SuppressedNeverSent'
    BY <1>1 DEF LockSound, InTransaction, OneDispatcher, Logged, AtMostOneTouch, SuppressedNeverSent
  <1>7. RoomLeft' /\ FrequencyCap'
    <2>1. FrequencyCap' /\ \A c, t : Recent(c, t)' = Recent(c, t)
      BY <1>1, UnchangedSameRows, SameRowsSameWindows
    <2>2. \A t \in Sender : Recent(KeyCustomer[call[t].key], call[t].begun)'
                             = Recent(KeyCustomer[call[t].key], call[t].begun)
      BY <2>1, <1>1
    <2>. QED BY <2>1, <2>2, <1>1 DEF RoomLeft
  <1>5. CheckedBeforeOptOut'
    <2>1. ASSUME NEW t \in Sender, call[t].pc # "idle"
          PROVE  call[t].begun <= clock /\ call[t].begun \in Nat /\ KeyCustomer[call[t].key] \in Customer
      BY <2>1, KeysAssumption, TimeAssumption DEF CheckedBeforeOptOut, TypeOK, Call, LockSound
    <2>2. ASSUME NEW t \in Sender, call[t].pc \in {"count", "insert"}
          PROVE  call[t].begun <= optedOut'[KeyCustomer[call[t].key]]
      BY <2>1, <2>2, <1>2 DEF CheckedBeforeOptOut
    <2>3. ASSUME NEW t \in Sender, call[t].pc # "idle" PROVE call[t].begun <= clock'
      BY <2>1, <2>3, <1>1, TimeAssumption DEF TypeOK
    <2>4. \A k \in Key : log[k].sentAt <= clock'
      BY <1>1, TimeAssumption DEF CheckedBeforeOptOut, TypeOK, Row
    <2>. QED BY <2>2, <2>3, <2>4, <1>1 DEF CheckedBeforeOptOut
  <1>6. OptOutHonoured'
    <2>1. \A k \in Key : Logged(k) => log[k].sentAt <= clock
      BY DEF CheckedBeforeOptOut
    <2>. QED BY <2>1, <1>1, <1>2, KeysAssumption DEF OptOutHonoured, Logged
  <1>. QED BY <1>3, <1>4, <1>5, <1>6, <1>7

LEMMA NextIInv == IInv /\ [Next]_vars => IInv'
  <1>. SUFFICES ASSUME IInv, [Next]_vars PROVE IInv'
    OBVIOUS
  <1>1. ASSUME NEW s \in Sender, Proceed(s) PROVE IInv'
    BY <1>1, ClaimStepInv, InsertRowInv, DeliveryStepInv DEF Proceed
  <1>2. CASE UNCHANGED vars
    BY <1>2, UnchangedSameRows, SameRowsSameWindows
    DEF vars, IInv, TypeOK, LockSound, InTransaction, RoomLeft, CheckedBeforeOptOut, OneDispatcher,
        AtMostOneTouch, OptOutHonoured, SuppressedNeverSent, Logged
  <1>. QED BY <1>1, <1>2, ClaimStepInv, DeliveryStepInv, WorldStepInv DEF Next

(* The inductive invariant of the send path.                                  *)
THEOREM SendPathInvariant == Spec => []IInv
  BY InitIInv, NextIInv, PTL DEF Spec

(* The frequency cap holds in every 24-hour window of every person, for any   *)
(* number of concurrent ladders, agents and replays                           *)
(* (recordMessageIfPermitted under withCustomerLock).                         *)
THEOREM CapNeverExceeded == Spec => []FrequencyCap
  <1>1. IInv => FrequencyCap
    BY DEF IInv
  <1>. QED BY <1>1, SendPathInvariant, PTL

(* One idempotency key is handed to the provider at most once, whatever is    *)
(* retried or crashes (the unique index on message_log, claimed before the    *)
(* provider call).                                                            *)
THEOREM NoDuplicateTouch == Spec => []AtMostOneTouch
  <1>1. IInv => AtMostOneTouch
    BY DEF IInv
  <1>. QED BY <1>1, SendPathInvariant, PTL

(* No row is dated after the customer's STOP, although optOutByPhone takes no *)
(* lock.                                                                      *)
THEOREM StopIsFinal == Spec => []OptOutHonoured
  <1>1. IInv => OptOutHonoured
    BY DEF IInv
  <1>. QED BY <1>1, SendPathInvariant, PTL

-----------------------------------------------------------------------------
(* The calls of the console's case.                                          *)
CallState == Pending \cup {"none", "ended"}

CallTypes ==
  /\ live \in BOOLEAN /\ enabled \in BOOLEAN /\ faults \in 0..MaxFaults
  /\ earlier \in Nat /\ crowd \in Nat /\ unlisted \in Nat
  /\ press \in [Press -> [pc : {"idle", "dial", "row", "warned", "confirmed", "done"},
                          web : BOOLEAN, override : BOOLEAN, tries : Nat, ring : SUBSET Ring]]
  /\ vapi \in [Ring -> [state : CallState, asked : BOOLEAN, tagged : BOOLEAN]]
  /\ calls \in [Ring -> CallState]
  /\ hooks \subseteq Ring \X {"in_progress", "ended", "report"}
  /\ sync \in [Sync -> [ring : SUBSET Ring, seen : CallState]]
  /\ unsaid \subseteq Ring

\* What is said of a call, by a row, a webhook or a snapshot, has come to pass.
RowsFollow == \A r \in Ring : calls[r] # "none" => vapi[r].state # "none"
HooksFollow == \A r \in Ring :
  <<r, "ended">> \in hooks \/ <<r, "report">> \in hooks => vapi[r].state = "ended"
SnapshotsFollow == \A s \in Sync : \A r \in sync[s].ring :
  /\ calls[r] # "none" /\ sync[s].seen # "none"
  /\ sync[s].seen = "ended" => vapi[r].state = "ended"
\* A report is due, handled or lost.
ReportsOwed == \A r \in Ring :
  vapi[r].state = "ended" /\ vapi[r].tagged
    => r \in Listed \/ r \in unsaid \/ <<r, "report">> \in hooks

\* Presses of a browser between their permission and their row, and those of
\* them nobody confirmed: still to ring, or holding the call that rang.
Crowded == {p \in Press : press[p].web /\ press[p].pc \in {"dial", "row"}}
Dialling == {p \in Press : press[p].web /\ ~press[p].override /\ press[p].pc = "dial"}
Ringing == {p \in Press : press[p].web /\ ~press[p].override /\ press[p].pc = "row"}
RingHeld == \A p \in Press : press[p].pc = "row" =>
  \E r \in Ring : press[p].ring = {r} /\ vapi[r].state # "none"

\* Calls nobody asked for, with a row neither written nor still to write.
Held == {r \in Ring : \E p \in Ringing : r \in press[p].ring}
Lost == Unasked \ (Listed \cup Held)

CrowdCounted == IsFiniteSet(Crowded) /\ Cardinality(Crowded) <= crowd
LostCounted == Cardinality(Lost) <= unlisted
LimitKept ==
  Unasked # {} \/ Dialling # {}
    => earlier + Cardinality(Unasked) + Cardinality(Dialling) <= 1 + crowd + unlisted

CallsInv == /\ CallTypes /\ RowsFollow /\ OverIsOver /\ HooksFollow /\ SnapshotsFollow
            /\ ReportsOwed /\ RingHeld /\ CrowdCounted /\ LostCounted /\ LimitKept

PressRow == [pc : {"idle", "dial", "row", "warned", "confirmed", "done"},
             web : BOOLEAN, override : BOOLEAN, tries : Nat, ring : SUBSET Ring]

LEMMA MaxOfTwo ==
  ASSUME NEW a \in Nat, NEW b \in Nat
  PROVE  Max({a, b}) \in Nat /\ a <= Max({a, b}) /\ b <= Max({a, b})
  <1>1. \E x \in {a, b} : \A y \in {a, b} : x >= y
    <2>1. CASE a >= b BY <2>1
    <2>2. CASE b >= a BY <2>2
    <2>. QED BY <2>1, <2>2
  <1>2. Max({a, b}) \in {a, b} /\ \A y \in {a, b} : Max({a, b}) >= y
    BY <1>1 DEF Max
  <1>. QED BY <1>2

LEMMA RingsFinite == \A S \in SUBSET Ring : IsFiniteSet(S) /\ Cardinality(S) \in Nat
  <1>1. IsFiniteSet(Ring)
    BY CallsAssumption, FS_Interval DEF Ring
  <1>. QED BY <1>1, FS_Subset, FS_CardinalityType

LEMMA CrowdFinite ==
  ASSUME CrowdCounted
  PROVE  /\ IsFiniteSet(Dialling) /\ Cardinality(Dialling) \in Nat
         /\ IsFiniteSet(Ringing) /\ Cardinality(Ringing) \in Nat
         /\ Cardinality(Crowded) \in Nat
  <1>1. Dialling \in SUBSET Crowded /\ Ringing \in SUBSET Crowded
    BY DEF Dialling, Ringing, Crowded
  <1>. QED BY <1>1, FS_Subset, FS_CardinalityType DEF CrowdCounted

\* One press moves; the crowd is counted as it moves.
LEMMA GoesCounts ==
  ASSUME CallTypes, CrowdCounted, NEW p \in Press, NEW to \in PressRow, Goes(p, to)
  PROVE  /\ press' = [press EXCEPT ![p] = to]
         /\ press' \in [Press -> PressRow]
         /\ crowd' \in Nat /\ crowd <= crowd'
         /\ CrowdCounted'
  <1>1. press' = [press EXCEPT ![p] = to] /\ press' \in [Press -> PressRow]
    BY DEF Goes, CallTypes, PressRow
  <1>2. Crowded' \in SUBSET (Crowded \cup {p})
    BY <1>1 DEF Crowded, CallTypes
  <1>3. IsFiniteSet(Crowded') /\ Cardinality(Crowded') \in Nat
    BY <1>2, FS_AddElement, FS_Subset, FS_CardinalityType DEF CrowdCounted
  <1>4. crowd' = Max({crowd, Cardinality(Crowded')})
    BY <1>1 DEF Goes, Crowd, Crowded
  <1>5. crowd \in Nat
    BY DEF CallTypes
  <1>. QED BY <1>1, <1>3, <1>4, <1>5, MaxOfTwo DEF CrowdCounted

\* While no press moves, a row more is a call fewer to account for.
LEMMA LimitFrame ==
  ASSUME CallsInv, CallTypes', UNCHANGED <<press, crowd, earlier, unlisted>>, Listed \subseteq Listed',
         \A r \in Ring : /\ vapi'[r].asked = vapi[r].asked
                         /\ vapi'[r].state = "none" <=> vapi[r].state = "none"
  PROVE  CrowdCounted' /\ LostCounted' /\ LimitKept' /\ RingHeld'
  <1>1. Crowded' = Crowded /\ Dialling' = Dialling /\ Held' = Held /\ Unasked' = Unasked
    BY DEF Crowded, Dialling, Ringing, Held, Unasked, Placed
  <1>2. Lost' \in SUBSET Lost
    BY <1>1 DEF Lost
  <1>3. Lost \in SUBSET Ring
    BY DEF Lost, Unasked, Placed
  <1>4. LostCounted'
    <2>1. Cardinality(Lost') <= Cardinality(Lost) /\ Cardinality(Lost) \in Nat /\ Cardinality(Lost') \in Nat
      BY <1>2, <1>3, RingsFinite, FS_Subset
    <2>2. Cardinality(Lost) <= unlisted /\ unlisted' = unlisted /\ unlisted \in Nat
      BY DEF CallsInv, CallTypes, LostCounted
    <2>. QED BY <2>1, <2>2 DEF LostCounted
  <1>5. RingHeld'
    BY DEF RingHeld, CallsInv
  <1>. QED BY <1>1, <1>4, <1>5 DEF CallsInv, CrowdCounted, LimitKept

LEMMA AnsweredCalls == ASSUME CallsInv, NEW r \in Ring, Answered(r) PROVE CallsInv'
  <1>1. CallTypes'
    BY DEF CallsInv, CallTypes, Answered, CallState, Pending, sharedVars
  <1>2. \A q \in Ring : /\ vapi'[q].asked = vapi[q].asked /\ vapi'[q].tagged = vapi[q].tagged
                        /\ vapi'[q].state = "none" <=> vapi[q].state = "none"
                        /\ vapi'[q].state = "ended" <=> vapi[q].state = "ended"
    BY DEF CallsInv, CallTypes, Answered
  <1>3. CrowdCounted' /\ LostCounted' /\ LimitKept' /\ RingHeld'
    BY <1>1, <1>2, LimitFrame DEF Answered, Listed
  <1>4. RowsFollow' /\ OverIsOver' /\ HooksFollow' /\ SnapshotsFollow' /\ ReportsOwed'
    BY <1>2 DEF CallsInv, Answered, RowsFollow, OverIsOver, HooksFollow, SnapshotsFollow, ReportsOwed,
                Listed
  <1>. QED BY <1>1, <1>3, <1>4 DEF CallsInv

LEMMA HangsUpCalls == ASSUME CallsInv, NEW r \in Ring, HangsUp(r) PROVE CallsInv'
  <1>1. CallTypes'
    BY DEF CallsInv, CallTypes, HangsUp, CallState, sharedVars
  <1>2. \A q \in Ring : /\ vapi'[q].asked = vapi[q].asked /\ vapi'[q].tagged = vapi[q].tagged
                        /\ vapi'[q].state = "none" <=> vapi[q].state = "none"
                        /\ vapi[q].state = "ended" => vapi'[q].state = "ended"
                        /\ vapi'[q].state = "ended" => vapi[q].state = "ended" \/ q = r
    BY DEF CallsInv, CallTypes, HangsUp, Pending
  <1>3. CrowdCounted' /\ LostCounted' /\ LimitKept' /\ RingHeld'
    BY <1>1, <1>2, LimitFrame DEF HangsUp, Listed
  <1>4. RowsFollow' /\ OverIsOver' /\ SnapshotsFollow' /\ ReportsOwed'
    BY <1>2 DEF CallsInv, HangsUp, RowsFollow, OverIsOver, SnapshotsFollow, ReportsOwed, Listed
  <1>5. vapi'[r].state = "ended"
    BY DEF CallsInv, CallTypes, HangsUp
  <1>6. HooksFollow'
    BY <1>2, <1>5 DEF CallsInv, HangsUp, HooksFollow
  <1>. QED BY <1>1, <1>3, <1>4, <1>6 DEF CallsInv

LEMMA HookLostCalls == ASSUME CallsInv, HookLost PROVE CallsInv'
  <1>1. PICK h \in hooks : /\ hooks' = hooks \ {h}
                           /\ unsaid' = unsaid \cup IF h[2] = "report" THEN {h[1]} ELSE {}
    BY DEF HookLost
  <1>2. h \in Ring \X {"in_progress", "ended", "report"}
    BY DEF CallsInv, CallTypes
  <1>3. CallTypes'
    BY <1>1, <1>2, CallsAssumption DEF CallsInv, CallTypes, HookLost
  <1>4. CrowdCounted' /\ LostCounted' /\ LimitKept' /\ RingHeld'
    BY <1>3, LimitFrame DEF HookLost, Listed
  <1>5. RowsFollow' /\ OverIsOver' /\ HooksFollow' /\ SnapshotsFollow'
    BY <1>1 DEF CallsInv, HookLost, RowsFollow, OverIsOver, HooksFollow, SnapshotsFollow
  <1>6. ReportsOwed'
    BY <1>1, <1>2 DEF CallsInv, HookLost, ReportsOwed, Listed
  <1>. QED BY <1>3, <1>4, <1>5, <1>6 DEF CallsInv

LEMMA StatusUpdateCalls ==
  ASSUME CallsInv, NEW r \in Ring, NEW status \in {"in_progress", "ended"}, StatusUpdate(r, status)
  PROVE  CallsInv'
  <1>1. CallTypes' /\ Listed' = Listed
    BY DEF CallsInv, CallTypes, StatusUpdate, CallState, Pending, Listed, sharedVars
  <1>2. CrowdCounted' /\ LostCounted' /\ LimitKept' /\ RingHeld'
    BY <1>1, LimitFrame DEF StatusUpdate
  <1>3. \A q \in Ring : /\ calls'[q] = "none" <=> calls[q] = "none"
                        /\ calls'[q] = "ended" => calls[q] = "ended" \/ (q = r /\ status = "ended")
    BY DEF CallsInv, CallTypes, StatusUpdate, Listed
  <1>4. RowsFollow' /\ OverIsOver' /\ HooksFollow'
    BY <1>3 DEF CallsInv, StatusUpdate, RowsFollow, OverIsOver, HooksFollow
  <1>5. SnapshotsFollow'
    BY <1>3 DEF CallsInv, CallTypes, StatusUpdate, SnapshotsFollow
  <1>6. ReportsOwed'
    BY <1>1 DEF CallsInv, StatusUpdate, ReportsOwed
  <1>. QED BY <1>1, <1>2, <1>4, <1>5, <1>6 DEF CallsInv

LEMMA EndOfCallCalls == ASSUME CallsInv, NEW r \in Ring, EndOfCall(r) PROVE CallsInv'
  <1>1. CallTypes' /\ Listed \subseteq Listed'
    BY DEF CallsInv, CallTypes, EndOfCall, CallState, Listed, sharedVars
  <1>2. CrowdCounted' /\ LostCounted' /\ LimitKept' /\ RingHeld'
    BY <1>1, LimitFrame DEF EndOfCall
  <1>3. \A q \in Ring : /\ calls[q] # "none" => calls'[q] # "none"
                        /\ calls'[q] = calls[q] \/ q = r
    BY DEF CallsInv, CallTypes, EndOfCall, Listed
  <1>4. RowsFollow' /\ OverIsOver' /\ HooksFollow'
    BY <1>3 DEF CallsInv, EndOfCall, RowsFollow, OverIsOver, HooksFollow
  <1>5. SnapshotsFollow'
    BY <1>3 DEF CallsInv, CallTypes, EndOfCall, SnapshotsFollow
  <1>6. vapi[r].tagged => r \in Listed'
    BY DEF CallsInv, CallTypes, EndOfCall, Listed
  <1>7. ReportsOwed'
    BY <1>1, <1>6 DEF CallsInv, EndOfCall, ReportsOwed
  <1>. QED BY <1>1, <1>2, <1>4, <1>5, <1>7 DEF CallsInv

LEMMA SyncFetchCalls == ASSUME CallsInv, NEW s \in Sync, SyncFetch(s) PROVE CallsInv'
  <1>1. PICK r \in Ring : /\ calls[r] \in Pending
                          /\ sync' = [sync EXCEPT ![s] = [ring |-> {r}, seen |-> vapi[r].state]]
    BY DEF SyncFetch
  <1>2. CallTypes'
    BY <1>1 DEF CallsInv, CallTypes, SyncFetch, sharedVars
  <1>3. CrowdCounted' /\ LostCounted' /\ LimitKept' /\ RingHeld'
    BY <1>2, LimitFrame DEF SyncFetch, Listed
  <1>4. RowsFollow' /\ OverIsOver' /\ HooksFollow' /\ ReportsOwed'
    BY DEF CallsInv, SyncFetch, RowsFollow, OverIsOver, HooksFollow, ReportsOwed, Listed
  <1>5. calls[r] # "none" /\ vapi[r].state # "none"
    BY <1>1 DEF CallsInv, RowsFollow, Pending
  <1>6. SnapshotsFollow'
    <2>1. UNCHANGED <<calls, vapi>> /\ SnapshotsFollow
      BY DEF SyncFetch, CallsInv
    <2>2. ASSUME NEW t \in Sync
          PROVE  sync'[t] = sync[t] \/ sync'[t] = [ring |-> {r}, seen |-> vapi[r].state]
      BY <1>1 DEF CallsInv, CallTypes
    <2>3. ASSUME NEW t \in Sync, NEW q \in sync'[t].ring
          PROVE  /\ calls[q] # "none" /\ sync'[t].seen # "none"
                 /\ sync'[t].seen = "ended" => vapi[q].state = "ended"
      <3>1. CASE sync'[t] = sync[t]
        BY <2>1, <3>1 DEF SnapshotsFollow
      <3>2. CASE sync'[t] = [ring |-> {r}, seen |-> vapi[r].state]
        BY <1>5, <3>2
      <3>. QED BY <2>2, <3>1, <3>2
    <2>. QED BY <2>1, <2>3 DEF SnapshotsFollow
  <1>. QED BY <1>2, <1>3, <1>4, <1>6 DEF CallsInv

LEMMA SyncWriteCalls == ASSUME CallsInv, NEW s \in Sync, SyncWrite(s) PROVE CallsInv'
  <1>1. PICK r \in sync[s].ring : calls' = [calls EXCEPT ![r] = sync[s].seen]
    BY DEF SyncWrite
  <1>2. r \in Ring /\ sync[s].seen \in CallState /\ sync[s].seen # "none" /\ calls[r] # "none"
        /\ (sync[s].seen = "ended" => vapi[r].state = "ended")
    BY DEF CallsInv, CallTypes, SnapshotsFollow
  <1>3. CallTypes'
    BY <1>1, <1>2 DEF CallsInv, CallTypes, SyncWrite, Asleep, CallState, sharedVars
  <1>4. Listed' = Listed
    BY <1>1, <1>2 DEF CallsInv, CallTypes, Listed
  <1>5. CrowdCounted' /\ LostCounted' /\ LimitKept' /\ RingHeld'
    BY <1>3, <1>4, LimitFrame DEF SyncWrite
  <1>6. \A q \in Ring : /\ calls'[q] = "none" <=> calls[q] = "none"
                        /\ calls'[q] = "ended" => vapi[q].state = "ended"
    BY <1>1, <1>2 DEF CallsInv, CallTypes, OverIsOver
  <1>7. RowsFollow' /\ OverIsOver' /\ HooksFollow'
    BY <1>6 DEF CallsInv, SyncWrite, RowsFollow, OverIsOver, HooksFollow
  <1>8. SnapshotsFollow'
    BY <1>6 DEF CallsInv, CallTypes, SyncWrite, SnapshotsFollow, Asleep
  <1>9. ReportsOwed'
    BY <1>4 DEF CallsInv, SyncWrite, ReportsOwed
  <1>. QED BY <1>3, <1>5, <1>7, <1>8, <1>9 DEF CallsInv

\* A press that neither rings nor loses a row leaves the calls as they were.
LEMMA SaidFrame ==
  ASSUME CallsInv, UNCHANGED <<vapi, calls, hooks, sync, unsaid>>
  PROVE  RowsFollow' /\ OverIsOver' /\ HooksFollow' /\ SnapshotsFollow' /\ ReportsOwed'
  BY DEF CallsInv, RowsFollow, OverIsOver, HooksFollow, SnapshotsFollow, ReportsOwed, Listed

\* A press that stops waiting for its call, or begins a call a person asked for.
LEMMA QuietPress ==
  ASSUME CallsInv, NEW p \in Press, NEW to \in PressRow, Goes(p, to),
         press[p].pc # "row", to.pc # "row",
         to.pc = "dial" /\ to.web => to.override,
         UNCHANGED <<sharedVars, earlier, vapi, calls, hooks, sync, unlisted, unsaid>>
  PROVE  CallsInv'
  <1>1. /\ press' = [press EXCEPT ![p] = to] /\ press' \in [Press -> PressRow]
        /\ crowd' \in Nat /\ crowd <= crowd' /\ CrowdCounted'
    BY GoesCounts DEF CallsInv
  <1>2. CallTypes'
    BY <1>1 DEF CallsInv, CallTypes, PressRow, sharedVars
  <1>3. Ringing' = Ringing /\ Dialling' \in SUBSET Dialling
    BY <1>1 DEF CallsInv, CallTypes, Ringing, Dialling
  <1>4. RingHeld'
    BY <1>1 DEF CallsInv, CallTypes, RingHeld
  <1>5. Held' = Held
    BY <1>1, <1>3 DEF CallsInv, CallTypes, Held, Ringing
  <1>6. LostCounted'
    BY <1>5 DEF CallsInv, LostCounted, Lost, Unasked, Placed, Listed
  <1>7. Cardinality(Dialling') <= Cardinality(Dialling) /\ Cardinality(Dialling) \in Nat
        /\ Cardinality(Dialling') \in Nat
    BY <1>1, <1>3, CrowdFinite, FS_Subset, FS_CardinalityType DEF CallsInv
  <1>8. Unasked' = Unasked /\ Unasked \in SUBSET Ring
    BY DEF Unasked, Placed
  <1>9. Cardinality(Unasked) \in Nat
    BY <1>8, RingsFinite
  <1>10. earlier \in Nat /\ earlier' = earlier /\ crowd \in Nat /\ unlisted \in Nat /\ unlisted' = unlisted
    BY DEF CallsInv, CallTypes
  <1>11. LimitKept'
    BY <1>1, <1>3, <1>7, <1>8, <1>9, <1>10 DEF CallsInv, LimitKept
  <1>. QED BY <1>1, <1>2, <1>4, <1>6, <1>11, SaidFrame DEF CallsInv

\* Rings nobody asked for are on a row, held by a press that is still to write
\* its row, or lost.
LEMMA UnaskedBound ==
  ASSUME CallsInv
  PROVE  Cardinality(Unasked) <= Cardinality(Listed) + Cardinality(Ringing) + Cardinality(Lost)
  <1>. /\ Unasked \in SUBSET Ring /\ Listed \in SUBSET Ring /\ Held \in SUBSET Ring /\ Lost \in SUBSET Ring
       /\ Listed \cup Held \in SUBSET Ring /\ (Listed \cup Held) \cup Lost \in SUBSET Ring
       /\ Listed \cap Held \in SUBSET Ring /\ (Listed \cup Held) \cap Lost \in SUBSET Ring
    BY DEF Unasked, Placed, Listed, Held, Lost
  <1>1. \A S \in SUBSET Ring : IsFiniteSet(S) /\ Cardinality(S) \in Nat
    BY RingsFinite
  <1>2. Unasked \in SUBSET ((Listed \cup Held) \cup Lost)
    BY DEF Lost
  <1>3. Cardinality(Unasked) <= Cardinality((Listed \cup Held) \cup Lost)
    BY <1>1, <1>2, FS_Subset
  <1>4. Cardinality(Listed \cup Held) = Cardinality(Listed) + Cardinality(Held) - Cardinality(Listed \cap Held)
    BY <1>1, FS_Union
  <1>5. Cardinality((Listed \cup Held) \cup Lost)
          = Cardinality(Listed \cup Held) + Cardinality(Lost) - Cardinality((Listed \cup Held) \cap Lost)
    BY <1>1, FS_Union
  <1>6. Cardinality(Held) <= Cardinality(Ringing)
    <2>. DEFINE holds == [p \in Ringing |-> CHOOSE r \in Ring : press[p].ring = {r}]
    <2>1. \A p \in Ringing : holds[p] \in Ring /\ press[p].ring = {holds[p]}
      BY DEF CallsInv, RingHeld, Ringing
    <2>2. \A p \in Ringing : holds[p] \in Held
      BY <2>1 DEF Held
    <2>3. ASSUME NEW r \in Held PROVE \E p \in Ringing : holds[p] = r
      <3>1. PICK p \in Ringing : r \in press[p].ring
        BY DEF Held
      <3>. QED BY <2>1, <3>1
    <2>4. holds \in [Ringing -> Held]
      BY <2>2
    <2>5. holds \in Surjection(Ringing, Held)
      <3>. HIDE DEF holds
      <3>. QED BY <2>3, <2>4 DEF Surjection
    <2>. QED BY <2>5, FS_Surjection, CrowdFinite DEF CallsInv
  <1>7. Cardinality(Ringing) \in Nat
    BY CrowdFinite DEF CallsInv
  <1>8. /\ Cardinality(Unasked) \in Nat /\ Cardinality(Listed) \in Nat /\ Cardinality(Held) \in Nat
        /\ Cardinality(Lost) \in Nat /\ Cardinality(Listed \cup Held) \in Nat
        /\ Cardinality(Listed \cap Held) \in Nat /\ Cardinality((Listed \cup Held) \cap Lost) \in Nat
    BY <1>1
  <1>. QED BY <1>3, <1>4, <1>5, <1>6, <1>7, <1>8

\* A browser that is let through without a person's word is one of the crowd
\* itself, and found at most one row.
LEMMA PermittedPress ==
  ASSUME CallsInv, NEW p \in Press, NEW to \in PressRow, Goes(p, to),
         press[p].pc \in {"idle", "confirmed"}, to.pc = "dial", to.web, ~to.override,
         CountCallsForCase < MAX_CALLS_PER_CASE,
         UNCHANGED <<sharedVars, earlier, vapi, calls, hooks, sync, unlisted, unsaid>>
  PROVE  CallsInv'
  <1>1. /\ press' = [press EXCEPT ![p] = to] /\ press' \in [Press -> PressRow]
        /\ crowd' \in Nat /\ crowd <= crowd' /\ CrowdCounted'
    BY GoesCounts DEF CallsInv
  <1>2. CallTypes'
    BY <1>1 DEF CallsInv, CallTypes, PressRow, sharedVars
  <1>3. Ringing' = Ringing /\ Dialling' = Dialling \cup {p} /\ p \notin Dialling
    BY <1>1 DEF CallsInv, CallTypes, Ringing, Dialling
  <1>4. RingHeld'
    BY <1>1 DEF CallsInv, CallTypes, RingHeld
  <1>5. Held' = Held
    BY <1>1, <1>3 DEF CallsInv, CallTypes, Held, Ringing
  <1>6. LostCounted'
    BY <1>5 DEF CallsInv, LostCounted, Lost, Unasked, Placed, Listed
  <1>7. Cardinality(Dialling') = Cardinality(Dialling) + 1 /\ Cardinality(Dialling) \in Nat
    BY <1>3, CrowdFinite, FS_AddElement DEF CallsInv
  <1>8. Unasked' = Unasked /\ Unasked \in SUBSET Ring /\ Listed \in SUBSET Ring /\ Lost \in SUBSET Ring
    BY DEF Unasked, Placed, Listed, Lost
  <1>9. Cardinality(Ringing) + Cardinality(Dialling') <= crowd'
    <2>1. Ringing' \cup Dialling' \in SUBSET Crowded' /\ Ringing' \cap Dialling' = {}
      BY DEF Ringing, Dialling, Crowded
    <2>2. IsFiniteSet(Crowded') /\ IsFiniteSet(Ringing') /\ IsFiniteSet(Dialling')
          /\ Cardinality(Crowded') \in Nat
      BY <1>1, <2>1, FS_Subset, FS_CardinalityType DEF CrowdCounted, Ringing, Dialling, Crowded
    <2>3. Cardinality(Ringing' \cup Dialling') = Cardinality(Ringing') + Cardinality(Dialling') - Cardinality({})
      BY <2>1, <2>2, FS_Union
    <2>4. Cardinality(Ringing' \cup Dialling') <= Cardinality(Crowded')
      BY <2>1, <2>2, FS_Subset
    <2>5. Cardinality({}) = 0 /\ Cardinality(Ringing') \in Nat /\ Cardinality(Dialling') \in Nat
      BY <2>2, FS_EmptySet, FS_CardinalityType
    <2>6. Cardinality(Crowded') <= crowd'
      BY <1>1 DEF CrowdCounted
    <2>. QED BY <1>1, <1>3, <2>2, <2>3, <2>4, <2>5, <2>6
  <1>10. /\ Cardinality(Unasked) \in Nat /\ Cardinality(Listed) \in Nat /\ Cardinality(Lost) \in Nat
         /\ Cardinality(Ringing) \in Nat
    BY <1>8, RingsFinite, CrowdFinite DEF CallsInv
  <1>11. earlier \in Nat /\ earlier' = earlier /\ crowd \in Nat /\ unlisted \in Nat /\ unlisted' = unlisted
    BY DEF CallsInv, CallTypes
  <1>12. earlier + Cardinality(Listed) <= 1
    BY <1>10, <1>11 DEF CountCallsForCase, MAX_CALLS_PER_CASE
  <1>13. Cardinality(Unasked) <= Cardinality(Listed) + Cardinality(Ringing) + Cardinality(Lost)
    BY UnaskedBound
  <1>14. Cardinality(Lost) <= unlisted
    BY DEF CallsInv, LostCounted
  <1>15. LimitKept'
    BY <1>1, <1>7, <1>8, <1>9, <1>10, <1>11, <1>12, <1>13, <1>14 DEF LimitKept
  <1>. QED BY <1>1, <1>2, <1>4, <1>6, <1>15, SaidFrame DEF CallsInv

LEMMA PressPhoneCalls == ASSUME CallsInv, NEW p \in Press, PressPhone(p) PROVE CallsInv'
  <1>. DEFINE to == IF enabled /\ live THEN [NoPress EXCEPT !.pc = "dial", !.tries = 1] ELSE PressDone
  <1>1. to \in PressRow /\ to.pc # "row" /\ ~to.web
    BY DEF NoPress, PressDone, PressRow
  <1>2. Goes(p, to) /\ press[p].pc = "idle"
    BY DEF PressPhone
  <1>. HIDE DEF to
  <1>. QED BY <1>1, <1>2, QuietPress DEF PressPhone

LEMMA PressWebCalls == ASSUME CallsInv, NEW p \in Press, PressWeb(p) PROVE CallsInv'
  <1>. DEFINE override == press[p].pc = "confirmed"
              allowed == AuthorizeCall(CountCallsForCase, override)
              to == [NoPress EXCEPT !.pc = IF allowed THEN "dial" ELSE "warned",
                                    !.web = TRUE, !.override = override]
  <1>1. to \in PressRow /\ to.web /\ to.pc = (IF allowed THEN "dial" ELSE "warned")
        /\ to.override = override
    BY DEF NoPress, PressRow
  <1>2. Goes(p, to) /\ press[p].pc \in {"idle", "confirmed"}
    BY DEF PressWeb
  <1>3. CASE allowed /\ ~override
    <2>1. CountCallsForCase < MAX_CALLS_PER_CASE
      BY <1>3 DEF AuthorizeCall
    <2>. HIDE DEF to
    <2>. QED BY <1>1, <1>2, <1>3, <2>1, PermittedPress DEF PressWeb
  <1>4. CASE ~allowed \/ override
    <2>. HIDE DEF to
    <2>. QED BY <1>1, <1>2, <1>4, QuietPress DEF PressWeb
  <1>. QED BY <1>3, <1>4

LEMMA ConfirmCalls == ASSUME CallsInv, NEW p \in Press, Confirm(p) PROVE CallsInv'
  <1>1. [NoPress EXCEPT !.pc = "confirmed"] \in PressRow /\ PressDone \in PressRow
    BY DEF NoPress, PressDone, PressRow
  <1>2. [NoPress EXCEPT !.pc = "confirmed"].pc = "confirmed" /\ PressDone.pc = "done"
    BY DEF NoPress, PressDone
  <1>. QED BY <1>1, <1>2, QuietPress DEF Confirm

\* A call rings that was not there.
LEMMA RingsOutSays ==
  ASSUME CallsInv, NEW p \in Press, NEW r \in Ring, RingsOut(p, r)
  PROVE  /\ vapi' \in [Ring -> [state : CallState, asked : BOOLEAN, tagged : BOOLEAN]]
         /\ vapi[r].state = "none" /\ vapi'[r].state = "queued"
         /\ vapi'[r].asked = (~press[p].web \/ press[p].override)
         /\ \A q \in Ring : q # r => vapi'[q] = vapi[q]
         /\ UNCHANGED <<calls, hooks, sync, unsaid>>
              => RowsFollow' /\ OverIsOver' /\ HooksFollow' /\ SnapshotsFollow' /\ ReportsOwed'
  <1>1. PICK tagged \in BOOLEAN :
          vapi' = [vapi EXCEPT ![r] = [state |-> "queued", tagged |-> tagged,
                                       asked |-> ~press[p].web \/ press[p].override]]
    BY DEF RingsOut
  <1>2. press[p].web \in BOOLEAN /\ press[p].override \in BOOLEAN
    BY DEF CallsInv, CallTypes
  <1>3. /\ vapi' \in [Ring -> [state : CallState, asked : BOOLEAN, tagged : BOOLEAN]]
        /\ vapi[r].state = "none" /\ vapi'[r].state = "queued"
        /\ vapi'[r].asked = (~press[p].web \/ press[p].override)
        /\ \A q \in Ring : q # r => vapi'[q] = vapi[q]
    BY <1>1, <1>2 DEF CallsInv, CallTypes, RingsOut, CallState, Pending
  <1>4. ASSUME UNCHANGED <<calls, hooks, sync, unsaid>>
        PROVE  RowsFollow' /\ OverIsOver' /\ HooksFollow' /\ SnapshotsFollow' /\ ReportsOwed'
    <2>1. calls[r] = "none"
      BY <1>3 DEF CallsInv, RowsFollow
    <2>2. RowsFollow' /\ OverIsOver' /\ HooksFollow'
      BY <1>3, <1>4, <2>1 DEF CallsInv, RowsFollow, OverIsOver, HooksFollow
    <2>3. SnapshotsFollow'
      BY <1>3, <1>4, <2>1 DEF CallsInv, CallTypes, SnapshotsFollow
    <2>4. ReportsOwed'
      BY <1>3, <1>4 DEF CallsInv, ReportsOwed, Listed
    <2>. QED BY <2>2, <2>3, <2>4
  <1>. QED BY <1>3, <1>4

LEMMA RingIsHeld ==
  ASSUME CallsInv, NEW p \in Press, NEW r \in Ring, RingsOut(p, r), NEW to \in PressRow,
         to.pc = "row" => to.ring = {r}, press' = [press EXCEPT ![p] = to]
  PROVE  RingHeld'
  <1>1. /\ vapi'[r].state # "none"
        /\ \A q \in Ring : q # r => vapi'[q] = vapi[q]
        /\ vapi[r].state = "none"
    BY RingsOutSays
  <1>. SUFFICES ASSUME NEW q \in Press, press'[q].pc = "row"
                PROVE  \E x \in Ring : press'[q].ring = {x} /\ vapi'[x].state # "none"
    BY DEF RingHeld
  <1>2. CASE q = p
    <2>1. press'[q] = to
      BY <1>2 DEF CallsInv, CallTypes
    <2>. QED BY <1>1, <2>1
  <1>3. CASE q # p
    <2>1. press'[q] = press[q]
      BY <1>3 DEF CallsInv, CallTypes
    <2>2. PICK x \in Ring : press[q].ring = {x} /\ vapi[x].state # "none"
      BY <2>1 DEF CallsInv, RingHeld
    <2>3. vapi'[x] = vapi[x]
      BY <1>1, <2>2
    <2>. QED BY <2>1, <2>2, <2>3
  <1>. QED BY <1>2, <1>3

\* A call a person asked for is no part of the account.
LEMMA AskedRing ==
  ASSUME CallsInv, NEW p \in Press, NEW r \in Ring, RingsOut(p, r), NEW to \in PressRow, Goes(p, to),
         press[p].pc = "dial", ~press[p].web \/ press[p].override,
         ~to.web \/ to.override, to.pc = "row" => to.ring = {r},
         UNCHANGED <<earlier, calls, hooks, sync, unlisted, unsaid>>,
         live' \in BOOLEAN, enabled' \in BOOLEAN, faults' \in 0..MaxFaults
  PROVE  CallsInv'
  <1>1. /\ press' = [press EXCEPT ![p] = to] /\ press' \in [Press -> PressRow]
        /\ crowd' \in Nat /\ crowd <= crowd' /\ CrowdCounted'
    BY GoesCounts DEF CallsInv
  <1>2. /\ vapi' \in [Ring -> [state : CallState, asked : BOOLEAN, tagged : BOOLEAN]]
        /\ vapi[r].state = "none" /\ vapi'[r].state = "queued" /\ vapi'[r].asked
        /\ \A q \in Ring : q # r => vapi'[q] = vapi[q]
        /\ RowsFollow' /\ OverIsOver' /\ HooksFollow' /\ SnapshotsFollow' /\ ReportsOwed'
    BY RingsOutSays
  <1>3. CallTypes'
    BY <1>1, <1>2 DEF CallsInv, CallTypes, PressRow
  <1>4. Ringing' = Ringing /\ Dialling' = Dialling /\ Unasked' = Unasked
    BY <1>1, <1>2 DEF CallsInv, CallTypes, Ringing, Dialling, Unasked, Placed
  <1>5. Held' = Held
    BY <1>1, <1>4 DEF CallsInv, CallTypes, Held, Ringing
  <1>6. RingHeld'
    BY <1>1, RingIsHeld
  <1>7. LostCounted'
    BY <1>4, <1>5 DEF CallsInv, LostCounted, Lost, Listed
  <1>8. Unasked \in SUBSET Ring
    BY DEF Unasked, Placed
  <1>9. Cardinality(Unasked) \in Nat /\ Cardinality(Dialling) \in Nat
    BY <1>8, RingsFinite, CrowdFinite DEF CallsInv
  <1>10. earlier \in Nat /\ earlier' = earlier /\ crowd \in Nat /\ unlisted \in Nat /\ unlisted' = unlisted
    BY DEF CallsInv, CallTypes
  <1>11. LimitKept'
    BY <1>1, <1>4, <1>9, <1>10 DEF CallsInv, LimitKept
  <1>. QED BY <1>1, <1>2, <1>3, <1>6, <1>7, <1>11 DEF CallsInv

\* A call nobody asked for was reckoned with when its press was let through.
LEMMA UnaskedRing ==
  ASSUME CallsInv, NEW p \in Press, NEW r \in Ring, RingsOut(p, r),
         Goes(p, [press[p] EXCEPT !.pc = "row", !.ring = {r}]),
         press[p].pc = "dial", press[p].web, ~press[p].override,
         UNCHANGED <<sharedVars, earlier, calls, hooks, sync, unlisted, unsaid>>
  PROVE  CallsInv'
  <1>. DEFINE to == [press[p] EXCEPT !.pc = "row", !.ring = {r}]
  <1>0. to \in PressRow
    <2>1. press[p] \in PressRow
      BY DEF CallsInv, CallTypes, PressRow
    <2>. QED BY <2>1 DEF PressRow
  <1>1. /\ press' = [press EXCEPT ![p] = to] /\ press' \in [Press -> PressRow]
        /\ crowd' \in Nat /\ crowd <= crowd' /\ CrowdCounted'
    BY <1>0, GoesCounts DEF CallsInv
  <1>2. /\ vapi' \in [Ring -> [state : CallState, asked : BOOLEAN, tagged : BOOLEAN]]
        /\ vapi[r].state = "none" /\ vapi'[r].state = "queued" /\ ~vapi'[r].asked
        /\ \A q \in Ring : q # r => vapi'[q] = vapi[q]
        /\ RowsFollow' /\ OverIsOver' /\ HooksFollow' /\ SnapshotsFollow' /\ ReportsOwed'
    BY RingsOutSays DEF CallsInv, CallTypes
  <1>3. CallTypes'
    BY <1>1, <1>2 DEF CallsInv, CallTypes, PressRow, sharedVars
  <1>4. Ringing' = Ringing \cup {p} /\ Dialling' = Dialling \ {p} /\ p \in Dialling
    BY <1>1 DEF CallsInv, CallTypes, Ringing, Dialling
  <1>5. Unasked' = Unasked \cup {r} /\ r \notin Unasked
    BY <1>2 DEF CallsInv, CallTypes, Unasked, Placed
  <1>6. Held \cup {r} \subseteq Held'
    BY <1>1, <1>4 DEF CallsInv, CallTypes, Held, Ringing
  <1>7. to.ring = {r}
    BY DEF CallsInv, CallTypes
  <1>14. RingHeld'
    <2>. HIDE DEF to
    <2>. QED BY <1>0, <1>1, <1>7, RingIsHeld
  <1>8. Unasked \in SUBSET Ring /\ Unasked' \in SUBSET Ring /\ Lost \in SUBSET Ring
        /\ Lost' \in SUBSET Ring /\ Lost' \in SUBSET Lost
    BY <1>5, <1>6 DEF Unasked, Placed, Lost, Listed
  <1>9. Cardinality(Lost') <= Cardinality(Lost) /\ Cardinality(Lost) \in Nat
        /\ Cardinality(Lost') \in Nat
    BY <1>8, RingsFinite, FS_Subset
  <1>10. earlier \in Nat /\ earlier' = earlier /\ crowd \in Nat /\ unlisted \in Nat /\ unlisted' = unlisted
    BY DEF CallsInv, CallTypes
  <1>11. LostCounted'
    BY <1>9, <1>10 DEF CallsInv, LostCounted
  <1>12. /\ Cardinality(Unasked') = Cardinality(Unasked) + 1 /\ Cardinality(Unasked) \in Nat
         /\ Cardinality(Dialling') = Cardinality(Dialling) - 1 /\ Cardinality(Dialling) \in Nat
    BY <1>4, <1>5, <1>8, RingsFinite, CrowdFinite, FS_AddElement, FS_RemoveElement DEF CallsInv
  <1>13. LimitKept'
    BY <1>1, <1>4, <1>10, <1>12 DEF CallsInv, LimitKept
  <1>. QED BY <1>1, <1>2, <1>3, <1>14, <1>11, <1>13 DEF CallsInv

LEMMA DialCalls == ASSUME CallsInv, NEW p \in Press, Dial(p) PROVE CallsInv'
  <1>1. ASSUME NEW r \in Ring, RingsOut(p, r),
               Goes(p, [press[p] EXCEPT !.pc = "row", !.ring = {r}])
        PROVE  CallsInv'
    <2>1. CASE press[p].web /\ ~press[p].override
      BY <1>1, <2>1, UnaskedRing DEF Dial
    <2>2. CASE ~press[p].web \/ press[p].override
      <3>. DEFINE to == [press[p] EXCEPT !.pc = "row", !.ring = {r}]
      <3>0. press[p] \in PressRow
        BY DEF CallsInv, CallTypes, PressRow
      <3>1. to \in PressRow /\ to.web = press[p].web /\ to.override = press[p].override /\ to.ring = {r}
        BY <3>0 DEF PressRow
      <3>2. Goes(p, to) /\ press[p].pc = "dial" /\ UNCHANGED <<sharedVars, earlier, calls, hooks, sync, unlisted, unsaid>>
        BY <1>1 DEF Dial
      <3>3. live' \in BOOLEAN /\ enabled' \in BOOLEAN /\ faults' \in 0..MaxFaults
        BY <3>2 DEF CallsInv, CallTypes, sharedVars
      <3>. HIDE DEF to
      <3>. QED BY <1>1, <2>2, <3>1, <3>2, <3>3, AskedRing
    <2>. QED BY <2>1, <2>2 DEF CallsInv, CallTypes
  <1>2. ASSUME Goes(p, PressDone), UNCHANGED vapi PROVE CallsInv'
    <2>1. PressDone \in PressRow /\ PressDone.pc = "done"
      BY DEF NoPress, PressDone, PressRow
    <2>. QED BY <1>2, <2>1, QuietPress DEF Dial
  <1>. QED BY <1>1, <1>2 DEF Dial

LEMMA DialUnansweredCalls == ASSUME CallsInv, NEW p \in Press, DialUnanswered(p) PROVE CallsInv'
  <1>1. PICK r \in Ring : RingsOut(p, r)
    BY DEF DialUnanswered
  <1>. DEFINE to == IF press[p].tries < Attempts THEN [press[p] EXCEPT !.tries = @ + 1] ELSE PressDone
  <1>2. to \in PressRow /\ to.pc # "row" /\ (~to.web \/ to.override)
    <2>1. press[p] \in PressRow /\ ~press[p].web /\ press[p].pc = "dial" /\ press[p].tries + 1 \in Nat
      BY DEF CallsInv, CallTypes, PressRow, DialUnanswered
    <2>2. CASE press[p].tries < Attempts
      BY <2>1, <2>2 DEF PressRow
    <2>3. CASE ~(press[p].tries < Attempts)
      BY <2>3 DEF PressRow, PressDone, NoPress
    <2>. QED BY <2>2, <2>3
  <1>3. live' \in BOOLEAN /\ enabled' \in BOOLEAN /\ faults' \in 0..MaxFaults
    BY CallsAssumption DEF CallsInv, CallTypes, DialUnanswered
  <1>4. Goes(p, to)
    BY DEF DialUnanswered
  <1>. HIDE DEF to
  <1>. QED BY <1>1, <1>2, <1>3, <1>4, AskedRing DEF DialUnanswered

\* A press gives up the call it holds: its row is there, or is one of the lost.
LEMMA LetsGo ==
  ASSUME CallsInv, NEW p \in Press, press[p].pc = "row", Goes(p, PressDone), NEW r \in Ring,
         press[p].ring = {r}, CallTypes', UNCHANGED <<earlier, vapi>>,
         Listed \subseteq Listed', r \in Listed' \/ unlisted' = unlisted + 1, unlisted <= unlisted'
  PROVE  CrowdCounted' /\ LostCounted' /\ LimitKept' /\ RingHeld'
  <1>0. PressDone \in PressRow /\ PressDone.pc = "done"
    BY DEF NoPress, PressDone, PressRow
  <1>1. /\ press' = [press EXCEPT ![p] = PressDone] /\ press' \in [Press -> PressRow]
        /\ crowd' \in Nat /\ crowd <= crowd' /\ CrowdCounted'
    BY <1>0, GoesCounts DEF CallsInv
  <1>2. Dialling' = Dialling /\ Unasked' = Unasked
    BY <1>0, <1>1 DEF CallsInv, CallTypes, Dialling, Unasked, Placed
  <1>3. Held \subseteq Held' \cup {r}
    BY <1>1 DEF CallsInv, CallTypes, Held, Ringing
  <1>4. RingHeld'
    BY <1>0, <1>1 DEF CallsInv, CallTypes, RingHeld
  <1>5. Unasked \in SUBSET Ring /\ Lost \in SUBSET Ring /\ Lost' \in SUBSET Ring
        /\ Lost \cup {r} \in SUBSET Ring
    BY <1>2 DEF Unasked, Placed, Lost
  <1>6. Lost' \in SUBSET (Lost \cup {r}) /\ (r \in Listed' => Lost' \in SUBSET Lost)
    BY <1>2, <1>3 DEF Lost
  <1>7. /\ Cardinality(Lost) \in Nat /\ Cardinality(Lost') \in Nat
        /\ Cardinality(Lost') <= Cardinality(Lost) + 1
        /\ r \in Listed' => Cardinality(Lost') <= Cardinality(Lost)
    <2>1. IsFiniteSet(Lost) /\ IsFiniteSet(Lost \cup {r}) /\ Cardinality(Lost) \in Nat
          /\ Cardinality(Lost') \in Nat /\ Cardinality(Lost \cup {r}) \in Nat
      BY <1>5, RingsFinite
    <2>2. Cardinality(Lost \cup {r}) <= Cardinality(Lost) + 1
      BY <2>1, FS_AddElement
    <2>3. Cardinality(Lost') <= Cardinality(Lost \cup {r})
      BY <1>6, <2>1, FS_Subset
    <2>4. r \in Listed' => Cardinality(Lost') <= Cardinality(Lost)
      BY <1>6, <2>1, FS_Subset
    <2>. QED BY <2>1, <2>2, <2>3, <2>4
  <1>8. /\ earlier \in Nat /\ earlier' = earlier /\ crowd \in Nat /\ unlisted \in Nat
        /\ unlisted' \in Nat /\ Cardinality(Lost) <= unlisted
    BY DEF CallsInv, CallTypes, LostCounted
  <1>9. LostCounted'
    BY <1>7, <1>8 DEF LostCounted
  <1>10. Cardinality(Unasked) \in Nat /\ Cardinality(Dialling) \in Nat
    BY <1>5, RingsFinite, CrowdFinite DEF CallsInv
  <1>11. LimitKept'
    BY <1>1, <1>2, <1>8, <1>10 DEF CallsInv, LimitKept
  <1>. QED BY <1>1, <1>4, <1>9, <1>11

LEMMA WriteRowCalls == ASSUME CallsInv, NEW p \in Press, WriteRow(p) PROVE CallsInv'
  <1>1. PICK r \in press[p].ring : calls' = [calls EXCEPT ![r] = CreateVoiceCall(r)]
    BY DEF WriteRow
  <1>2. r \in Ring /\ press[p].ring = {r} /\ vapi[r].state # "none"
    BY <1>1 DEF CallsInv, RingHeld, WriteRow
  <1>3. PressDone \in PressRow
    BY DEF NoPress, PressDone, PressRow
  <1>4. press' \in [Press -> PressRow] /\ crowd' \in Nat
    BY <1>3, GoesCounts DEF CallsInv, WriteRow
  <1>5. /\ calls' \in [Ring -> CallState]
        /\ \A q \in Ring : /\ calls[q] # "none" => calls'[q] = calls[q]
                           /\ q # r => calls'[q] = calls[q]
        /\ calls'[r] # "none" /\ (calls'[r] = "ended" => calls[r] = "ended")
    BY <1>1, <1>2 DEF CallsInv, CallTypes, CreateVoiceCall, CallState, Pending
  <1>6. CallTypes'
    BY <1>4, <1>5 DEF CallsInv, CallTypes, PressRow, WriteRow, sharedVars
  <1>7. Listed \subseteq Listed' /\ r \in Listed'
    BY <1>2, <1>5 DEF Listed
  <1>8. CrowdCounted' /\ LostCounted' /\ LimitKept' /\ RingHeld'
    <2>1. /\ press[p].pc = "row" /\ Goes(p, PressDone) /\ UNCHANGED <<earlier, vapi>>
          /\ unlisted <= unlisted'
      BY DEF WriteRow, CallsInv, CallTypes
    <2>. QED BY <1>2, <1>6, <1>7, <2>1, LetsGo
  <1>9. RowsFollow' /\ OverIsOver' /\ HooksFollow'
    BY <1>2, <1>5 DEF CallsInv, WriteRow, RowsFollow, OverIsOver, HooksFollow
  <1>10. SnapshotsFollow'
    BY <1>5 DEF CallsInv, CallTypes, WriteRow, SnapshotsFollow
  <1>11. ReportsOwed'
    BY <1>7 DEF CallsInv, WriteRow, ReportsOwed
  <1>. QED BY <1>6, <1>8, <1>9, <1>10, <1>11 DEF CallsInv

LEMMA RowLostCalls == ASSUME CallsInv, NEW p \in Press, RowLost(p) PROVE CallsInv'
  <1>1. PICK r \in Ring : press[p].ring = {r}
    BY DEF CallsInv, RingHeld, RowLost
  <1>2. PressDone \in PressRow
    BY DEF NoPress, PressDone, PressRow
  <1>3. press' \in [Press -> PressRow] /\ crowd' \in Nat
    BY <1>2, GoesCounts DEF CallsInv, RowLost
  <1>4. CallTypes'
    BY <1>3, CallsAssumption DEF CallsInv, CallTypes, PressRow, RowLost
  <1>5. unlisted <= unlisted'
    BY DEF CallsInv, CallTypes, RowLost
  <1>6. CrowdCounted' /\ LostCounted' /\ LimitKept' /\ RingHeld'
    BY <1>1, <1>4, <1>5, LetsGo DEF RowLost, Listed
  <1>. QED BY <1>4, <1>6, SaidFrame DEF CallsInv, RowLost

\* Whatever else is done at the console leaves the calls alone.
LEMMA CallsFrame ==
  ASSUME CallsInv, UNCHANGED callVars,
         live' \in BOOLEAN, enabled' \in BOOLEAN, faults' \in 0..MaxFaults
  PROVE  CallsInv'
  <1>1. CallTypes'
    BY DEF CallsInv, CallTypes, callVars
  <1>2. CrowdCounted' /\ LostCounted' /\ LimitKept' /\ RingHeld'
    BY <1>1, LimitFrame DEF callVars, Listed
  <1>. QED BY <1>1, <1>2, SaidFrame DEF CallsInv, callVars

LEMMA CallsStep == ASSUME CallsInv, NEW present, CallsNext(present) PROVE CallsInv'
  <1>1. ASSUME NEW p \in Press, PressStep(p) PROVE CallsInv'
    BY <1>1, PressPhoneCalls, PressWebCalls, ConfirmCalls, DialCalls, DialUnansweredCalls,
       WriteRowCalls, RowLostCalls DEF PressStep
  <1>2. ASSUME NEW r \in Ring, RingStep(r) PROVE CallsInv'
    BY <1>2, AnsweredCalls, HangsUpCalls, EndOfCallCalls, StatusUpdateCalls DEF RingStep
  <1>3. ASSUME NEW s \in Sync, SyncStep(s) PROVE CallsInv'
    BY <1>3, SyncFetchCalls, SyncWriteCalls DEF SyncStep
  <1>. QED BY <1>1, <1>2, <1>3, HookLostCalls DEF CallsNext

LEMMA CallsStart ==
  ASSUME CallsInit, live = TRUE, enabled = TRUE, faults = 0
  PROVE  CallsInv
  <1>1. CallTypes
    BY CallsAssumption DEF CallsInit, CallTypes, NoPress, NoCall, Asleep, CallState
  <1>2. RowsFollow /\ OverIsOver /\ HooksFollow /\ SnapshotsFollow /\ ReportsOwed /\ RingHeld
    BY DEF CallsInit, RowsFollow, OverIsOver, HooksFollow, SnapshotsFollow, ReportsOwed, RingHeld,
           NoPress, NoCall, Asleep
  <1>3. Crowded = {} /\ Dialling = {} /\ Unasked = {} /\ Lost = {}
    BY DEF CallsInit, Crowded, Dialling, Unasked, Lost, Placed, NoPress, NoCall
  <1>4. CrowdCounted /\ LostCounted /\ LimitKept
    BY <1>3, FS_EmptySet DEF CrowdCounted, LostCounted, LimitKept, CallsInit
  <1>. QED BY <1>1, <1>2, <1>4 DEF CallsInv

LEMMA CallsTold == CallsInv => CallsCounted
  <1>. SUFFICES ASSUME CallsInv PROVE CallsCounted
    OBVIOUS
  <1>1. OverLimitIsOverlap
    <2>1. Unasked \in SUBSET Ring
      BY DEF Unasked, Placed
    <2>2. Cardinality(Unasked) \in Nat /\ Cardinality(Dialling) \in Nat
      BY <2>1, RingsFinite, CrowdFinite DEF CallsInv
    <2>3. earlier \in Nat /\ crowd \in Nat /\ unlisted \in Nat
      BY DEF CallsInv, CallTypes
    <2>. QED BY <2>2, <2>3 DEF CallsInv, LimitKept, OverLimitIsOverlap, MAX_CALLS_PER_CASE
  <1>2. EveryRingIsCounted
    BY DEF CallsInv, ReportsOwed, EveryRingIsCounted
  <1>. QED BY <1>1, <1>2 DEF CallsInv, CallsCounted

-----------------------------------------------------------------------------
(* The people, the polls and the ladder of the console's case.               *)
Letter == [key : MessageKey, channel : {"whatsapp", "email"}]
Letters == UNION {[1..n -> Letter] : n \in 0..2}
AgentRow == [pc : {"idle", "link", "claim", "hand", "wrap", "done", "pick", "take", "gate"},
             attempt : Attempt, rung : 0..2, todo : Letters, rows : SUBSET Action,
             gate : {"go", "email", "defer", "paused", "abort"},
             landed : BOOLEAN, repeated : BOOLEAN]

DeskTypes ==
  /\ agent \in [Proc -> AgentRow]
  /\ ledger \in [MessageKey -> {"none", "queued", "sent", "failed"}]
  /\ handed \in [MessageKey -> SUBSET {"whatsapp", "email"}]
  /\ actions \in [Action -> [status : {"none", "planned", "executed", "failed", "skipped"},
                             claimed : BOOLEAN, due : BOOLEAN]]
  /\ answer \in [Job -> {"none", "ok", "already", "no", "timeout"}]
  /\ owed \in Int /\ toggles \in Nat /\ fans \in BOOLEAN

Holding == {"gate", "claim", "hand", "wrap"}
Telling == {"ok", "already", "no"}

\* What each may be at, and when it has messages left.
InRole(p) ==
  /\ p \in Job => agent[p].pc \in {"idle", "link", "claim", "hand", "wrap", "done"}
  /\ p \in Poll => agent[p].pc \in {"idle", "pick", "take"} \cup Holding
  /\ p = Ladder => /\ agent[p].pc \in {"idle", "claim", "hand", "wrap"}
                    /\ agent[p].pc # "idle" => agent[p].rung \in {0, 1}
  /\ agent[p].pc \in {"claim", "hand"} <=> agent[p].todo # <<>>

\* A rung's messages share a key, unless the first rung fans out, when each
\* email of it has the email's; the start by hand sends WhatsApp under the
\* rung's own key.
Proper(key, channel) ==
  /\ key[1] = 1 \/ ~fans => key[2] = "any"
  /\ fans /\ key[1] = 0 /\ channel = "email" => key[2] = "email"
LettersSound(p) ==
  \A i \in 1..Len(agent[p].todo) :
    LET m == agent[p].todo[i]
    IN /\ Proper(m.key, m.channel)
       /\ p \in Job /\ m.channel = "whatsapp" => m.key = <<0, "any", agent[p].attempt>>

GateSound(p) ==
  /\ agent[p].gate = "paused" => toggles > 0
  /\ agent[p].gate = "abort" => ~live \/ bar # "none"

\* The rows a poll read are there; the one it holds is claimed.
RowsSound(p) ==
  p \in Poll =>
    /\ \A a \in agent[p].rows : actions[a].status # "none"
    /\ agent[p].pc \in {"take"} \cup Holding
         => RowAt(p) \in Action /\ actions[RowAt(p)].status # "none"
    /\ agent[p].pc \in Holding => actions[RowAt(p)].claimed

\* An answer in time is the last thing a request does.
WordSound(p) ==
  p \in Job =>
    /\ answer[p] \in Telling => agent[p].pc = "done"
    /\ agent[p].pc \in {"idle", "link"} => ~agent[p].landed /\ ~agent[p].repeated
    /\ agent[p].repeated => ledger[<<0, "any", agent[p].attempt>>] # "none"
    /\ answer[p] = "ok" => \/ agent[p].landed
                           \/ ~fans /\ actions[<<1, agent[p].attempt>>].status # "none"
    /\ answer[p] \in {"no", "already"} => ~agent[p].landed
    /\ answer[p] = "already" => ledger[<<0, "any", agent[p].attempt>>] # "none"

AgentSound(p) == InRole(p) /\ LettersSound(p) /\ GateSound(p) /\ RowsSound(p) /\ WordSound(p)

\* A message in hand is queued, and in nobody else's.
HandSound ==
  \A p \in Proc : agent[p].pc = "hand" =>
    LET key == Head(agent[p].todo).key
    IN /\ ledger[key] = "queued" /\ handed[key] = {}
       /\ \A q \in Proc \ {p} : agent[q].pc = "hand" => Head(agent[q].todo).key # key
HandedSound ==
  \A k \in MessageKey :
    /\ \A c \in handed[k] : Proper(k, c) /\ ledger[k] # "none"
    /\ \A c, d \in handed[k] : c = d

CausesKnown ==
  /\ ~enabled => toggles > 0
  /\ (\E a \in Action : actions[a].status = "skipped") => ~live \/ toggles > 0 \/ bar # "none"

FlightPaid ==
  /\ IsFiniteSet(Flight)
  /\ IF live THEN owed = 0 ELSE Cardinality(Flight) <= owed

DeskInv ==
  /\ DeskTypes /\ (\A p \in Proc : AgentSound(p)) /\ HandSound /\ HandedSound
  /\ OnePollPerRow /\ HeldOrFree /\ CausesKnown /\ FlightPaid

LEMMA LettersAre ==
  /\ \A s \in Seq(Letter) : Len(s) \in 0..2 => s \in Letters
  /\ \A s \in Letters : s \in Seq(Letter) /\ Len(s) \in 0..2 /\ (Len(s) = 0 <=> s = <<>>)
  <1>1. ASSUME NEW s \in Seq(Letter), Len(s) \in 0..2 PROVE s \in Letters
    <2>1. s \in [1..Len(s) -> Letter]
      BY LenProperties
    <2>. QED BY <1>1, <2>1 DEF Letters
  <1>2. ASSUME NEW s \in Letters PROVE s \in Seq(Letter) /\ Len(s) \in 0..2 /\ (Len(s) = 0 <=> s = <<>>)
    <2>1. PICK n \in 0..2 : s \in [1..n -> Letter]
      BY DEF Letters
    <2>2. s \in Seq(Letter) /\ Len(s) = n
      BY <2>1
    <2>. QED BY <2>2, EmptySeq
  <1>. QED BY <1>1, <1>2

LEMMA TodoFacts ==
  ASSUME NEW s \in Letters, s # <<>>
  PROVE  /\ Len(s) \in 1..2 /\ Tail(s) \in Letters /\ Len(Tail(s)) = Len(s) - 1
         /\ (Tail(s) = <<>> <=> Len(s) = 1)
         /\ \A i \in 1..Len(Tail(s)) : Tail(s)[i] = s[i + 1] /\ i + 1 \in 1..Len(s)
         /\ Head(s) = s[1] /\ Head(s) \in Letter /\ 1 \in 1..Len(s)
  <1>1. s \in Seq(Letter) /\ Len(s) \in 1..2
    BY LettersAre
  <1>2. /\ Head(s) \in Letter /\ Tail(s) \in Seq(Letter) /\ Len(Tail(s)) = Len(s) - 1
        /\ \A i \in 1..Len(Tail(s)) : Tail(s)[i] = s[i + 1]
    BY <1>1, HeadTailProperties
  <1>3. Tail(s) \in Letters
    <2>1. Len(Tail(s)) \in 0..2
      BY <1>1, <1>2
    <2>. QED BY <1>2, <2>1, LettersAre
  <1>4. Tail(s) = <<>> <=> Len(s) = 1
    BY <1>1, <1>2, <1>3, LettersAre
  <1>5. \A i \in 1..Len(Tail(s)) : i + 1 \in 1..Len(s)
    BY <1>1, <1>2
  <1>6. Head(s) = s[1] /\ 1 \in 1..Len(s)
    BY <1>1
  <1>. QED BY <1>1, <1>2, <1>3, <1>4, <1>5, <1>6

\* What is left of a message once the closed channels are.
LEMMA OverFacts ==
  ASSUME NEW S, NEW key \in MessageKey, NEW c \in {"whatsapp", "email"}
  PROVE  /\ Message(key, c) \in Letter
         /\ Message(key, c).key = key /\ Message(key, c).channel = c
         /\ Over(S, key, c) \in Seq(Letter) /\ Over(S, key, c) \in Letters
         /\ Len(Over(S, key, c)) \in 0..1 /\ (c \notin S => Len(Over(S, key, c)) = 0)
         /\ \A i \in 1..Len(Over(S, key, c)) : Over(S, key, c)[i] = Message(key, c) /\ c \in S
  <1>1. Message(key, c) \in Letter /\ Message(key, c).key = key /\ Message(key, c).channel = c
    BY DEF Message, Letter
  <1>2. CASE c \in S
    <2>1. Over(S, key, c) = <<Message(key, c)>>
      BY <1>2 DEF Over
    <2>2. Over(S, key, c) \in Seq(Letter) /\ Len(Over(S, key, c)) = 1
          /\ Over(S, key, c)[1] = Message(key, c)
      BY <1>1, <2>1
    <2>3. Over(S, key, c) \in Letters
      BY <2>2, LettersAre
    <2>4. \A i \in 1..Len(Over(S, key, c)) : i = 1
      BY <2>2
    <2>. QED BY <1>1, <1>2, <2>2, <2>3, <2>4
  <1>3. CASE c \notin S
    <2>1. Over(S, key, c) = <<>>
      BY <1>3 DEF Over
    <2>2. Over(S, key, c) \in Seq(Letter) /\ Len(Over(S, key, c)) = 0
      BY <2>1, EmptySeq
    <2>3. Over(S, key, c) \in Letters
      <3>1. Len(Over(S, key, c)) \in 0..2
        BY <2>2
      <3>. QED BY <2>2, <3>1, LettersAre
    <2>4. \A i \in 1..Len(Over(S, key, c)) : FALSE
      BY <2>2
    <2>. QED BY <1>1, <1>3, <2>2, <2>3, <2>4
  <1>. QED BY <1>2, <1>3

\* What a start by hand, or the first rung of a ladder, sends.
LEMMA BothFacts ==
  ASSUME NEW S, NEW T, NEW t \in Attempt, NEW rung \in {"any", "whatsapp"}
  PROVE  LET s == Over(S, <<0, rung, t>>, "whatsapp") \o Over(T, <<0, "email", t>>, "email")
         IN /\ s \in Letters
            /\ \A i \in 1..Len(s) : \/ s[i] = Message(<<0, rung, t>>, "whatsapp")
                                    \/ s[i] = Message(<<0, "email", t>>, "email") /\ "email" \in T
            /\ "email" \notin T => Len(s) <= 1
  <1>. DEFINE a == Over(S, <<0, rung, t>>, "whatsapp")
              b == Over(T, <<0, "email", t>>, "email")
              m == Message(<<0, rung, t>>, "whatsapp")
              n == Message(<<0, "email", t>>, "email")
              s == a \o b
  <1>0. <<0, rung, t>> \in MessageKey /\ <<0, "email", t>> \in MessageKey
    BY DEF MessageKey
  <1>1. a \in Seq(Letter) /\ Len(a) \in 0..1 /\ \A i \in 1..Len(a) : a[i] = m
    BY <1>0, OverFacts
  <1>2. /\ b \in Seq(Letter) /\ Len(b) \in 0..1
        /\ \A i \in 1..Len(b) : b[i] = n /\ "email" \in T
        /\ "email" \notin T => Len(b) = 0
    BY <1>0, OverFacts
  <1>. HIDE DEF a, b, m, n
  <1>3. /\ s \in Seq(Letter) /\ Len(s) = Len(a) + Len(b)
        /\ \A i \in 1..Len(a) + Len(b) : s[i] = IF i <= Len(a) THEN a[i] ELSE b[i - Len(a)]
    BY <1>1, <1>2, ConcatProperties
  <1>. HIDE DEF s
  <1>4. s \in Letters
    <2>1. Len(s) \in 0..2
      BY <1>1, <1>2, <1>3
    <2>. QED BY <1>3, <2>1, LettersAre
  <1>5. ASSUME NEW i \in 1..Len(s)
        PROVE  s[i] = m \/ (s[i] = n /\ "email" \in T)
    <2>1. CASE i <= Len(a)
      BY <1>1, <1>2, <1>3, <2>1
    <2>2. CASE ~(i <= Len(a))
      <3>1. i - Len(a) \in 1..Len(b)
        BY <1>1, <1>2, <1>3, <2>2
      <3>. QED BY <1>1, <1>2, <1>3, <2>2, <3>1
    <2>. QED BY <2>1, <2>2
  <1>6. "email" \notin T => Len(s) <= 1
    BY <1>1, <1>2, <1>3
  <1>. QED BY <1>4, <1>5, <1>6 DEF s, a, b, m, n

LEMMA MessageFields ==
  ASSUME NEW k, NEW c PROVE Message(k, c).key = k /\ Message(k, c).channel = c
  BY DEF Message

LEMMA ProperFacts ==
  ASSUME NEW t
  PROVE  /\ Proper(<<0, "any", t>>, "whatsapp")
         /\ fans => Proper(<<0, "email", t>>, "email") /\ Proper(<<0, "whatsapp", t>>, "whatsapp")
         /\ \A c : ~fans => Proper(<<0, "any", t>>, c)
         /\ \A c : Proper(<<1, "any", t>>, c)
  BY DEF Proper

LEMMA GateSays ==
  /\ GateAnswer \in {"go", "email", "defer", "paused", "abort"}
  /\ Proceeds(GateAnswer) => live /\ enabled
  /\ GateAnswer = "paused" => ~enabled
  /\ GateAnswer = "abort" => ~live \/ bar # "none"
  BY DEF GateAnswer, Proceeds

LEMMA Roles ==
  /\ \A p \in Job : p \in Proc /\ p \notin Poll /\ p # Ladder
  /\ \A p \in Poll : p \in Proc /\ p \notin Job /\ p # Ladder
  /\ Ladder \in Proc /\ Ladder \notin Job /\ Ladder \notin Poll
  /\ Unforced \in Attempt /\ Stamp \subseteq Attempt
  BY DeskAssumption DEF Proc, Attempt

-----------------------------------------------------------------------------
(* Frames: what a step leaves alone.                                         *)

\* Who did not move is still sound if rows and messages only gather more.
LEMMA Bystander ==
  ASSUME DeskInv, NEW p \in Proc, agent'[p] = agent[p],
         p \in Job => answer'[p] = answer[p],
         \A k \in MessageKey : ledger[k] # "none" => ledger'[k] # "none",
         \A a \in Action : actions[a].status # "none" => actions'[a].status # "none",
         p \in Poll /\ agent[p].pc \in Holding => actions'[RowAt(p)].claimed = actions[RowAt(p)].claimed
                                                  \/ actions'[RowAt(p)].claimed,
         toggles > 0 => toggles' > 0, ~live => ~live',
         bar # "none" => bar' # "none" \/ ~live', fans' = fans
  PROVE  AgentSound(p)'
  <1>. AgentSound(p) /\ agent[p] \in AgentRow
    BY DEF DeskInv, DeskTypes
  <1>. /\ agent[p].attempt \in Attempt /\ agent[p].rows \subseteq Action
    BY DEF AgentRow
  <1>. <<0, "any", agent[p].attempt>> \in MessageKey /\ <<1, agent[p].attempt>> \in Action
    BY DEF MessageKey, Action
  <1>1. InRole(p)'
    BY DEF AgentSound, InRole
  <1>2. LettersSound(p)'
    BY DEF AgentSound, LettersSound, Proper
  <1>3. GateSound(p)'
    BY DEF AgentSound, GateSound
  <1>4. RowAt(p)' = RowAt(p)
    BY DEF RowAt
  <1>5. RowsSound(p)'
    BY <1>4 DEF AgentSound, RowsSound
  <1>6. WordSound(p)'
    BY DEF AgentSound, WordSound
  <1>. QED BY <1>1, <1>2, <1>3, <1>5, <1>6 DEF AgentSound

\* The messages an agent takes up.
LEMMA LettersTaken ==
  ASSUME NEW p \in Proc, NEW todo, agent'[p].todo = todo, fans' = fans,
         \A i \in 1..Len(todo) :
           /\ Proper(todo[i].key, todo[i].channel)
           /\ p \in Job /\ todo[i].channel = "whatsapp" => todo[i].key = <<0, "any", agent'[p].attempt>>
  PROVE  LettersSound(p)'
  BY DEF LettersSound, Proper

\* Nobody is handed a message, nobody loses one.
LEMMA MailFrame ==
  ASSUME DeskInv, UNCHANGED <<ledger, handed, fans>>,
         \A p \in Proc : agent'[p].pc = "hand" => agent[p].pc = "hand" /\ agent'[p].todo = agent[p].todo
  PROVE  HandSound' /\ HandedSound'
  <1>1. HandSound'
    BY DEF DeskInv, HandSound
  <1>2. HandedSound'
    BY DEF DeskInv, HandedSound, Proper
  <1>. QED BY <1>1, <1>2

\* Nobody takes a row.
LEMMA HoldersFrame ==
  ASSUME DeskInv,
         \A p \in Poll : agent'[p].pc \in Holding => agent[p].pc \in Holding /\ RowAt(p)' = RowAt(p)
  PROVE  OnePollPerRow'
  BY DEF DeskInv, OnePollPerRow, Holding

\* Whoever lets a row go settles it, frees it or dies.
LEMMA HeldFrame ==
  ASSUME DeskInv, orphans \subseteq orphans',
         \A a \in Action : actions'[a].status = "planned" /\ actions'[a].claimed
                             => actions[a].status = "planned" /\ actions[a].claimed,
         \A p \in Poll : agent[p].pc \in Holding =>
           \/ agent'[p].pc \in Holding /\ RowAt(p)' = RowAt(p)
           \/ RowAt(p) \in orphans'
           \/ ~(actions'[RowAt(p)].status = "planned" /\ actions'[RowAt(p)].claimed)
  PROVE  HeldOrFree'
  <1>. SUFFICES ASSUME NEW a \in Action, actions'[a].status = "planned" /\ actions'[a].claimed,
                       a \notin orphans'
                PROVE  \E p \in Poll : RowAt(p)' = a /\ agent'[p].pc \in Holding
    BY DEF HeldOrFree, Holding
  <1>1. PICK p \in Poll : RowAt(p) = a /\ agent[p].pc \in Holding
    BY DEF DeskInv, HeldOrFree, Holding
  <1>. QED BY <1>1

-----------------------------------------------------------------------------
(* What is in flight when the case ends.                                     *)
LEMMA InFlightIs ==
  ASSUME DeskTypes, NEW p \in Proc
  PROVE  InFlight(p) \in 0..2
  <1>. agent[p].todo \in Letters
    BY DEF DeskTypes, AgentRow
  <1>. Len(agent[p].todo) \in 0..2
    BY LettersAre
  <1>. QED BY DEF InFlight

\* One agent moves, and has no more in flight than it had once the case is over.
LEMMA FlightFrame ==
  ASSUME DeskInv, DeskTypes', NEW p \in Proc, \A q \in Proc \ {p} : agent'[q] = agent[q],
         UNCHANGED <<fans, live>>, live \in BOOLEAN,
         ~live => \/ InFlight(p)' <= InFlight(p) /\ owed' = owed
                  \/ InFlight(p)' < InFlight(p) /\ owed' = owed - 1,
         live => owed' = owed
  PROVE  FlightPaid'
  <1>. InFlight(p) \in 0..2 /\ InFlight(p)' \in 0..2 /\ owed \in Int
    <2>1. agent'[p].todo \in Letters
      BY DEF DeskTypes, AgentRow
    <2>2. Len(agent'[p].todo) \in 0..2
      BY <2>1, LettersAre
    <2>3. InFlight(p)' \in 0..2
      BY <2>2 DEF InFlight
    <2>. QED BY <2>3, InFlightIs DEF DeskInv, DeskTypes
  <1>1. \A q \in Proc \ {p} : InFlight(q)' = InFlight(q)
    BY DEF InFlight
  <1>2. Flight' \in SUBSET (Flight \cup {<<p, 1>>} \cup {<<p, 2>>})
    BY <1>1 DEF Flight
  <1>3. IsFiniteSet(Flight')
    <2>1. IsFiniteSet(Flight)
      BY DEF DeskInv, FlightPaid
    <2>2. IsFiniteSet(Flight \cup {<<p, 1>>})
      BY <2>1, FS_AddElement
    <2>3. IsFiniteSet((Flight \cup {<<p, 1>>}) \cup {<<p, 2>>})
      BY <2>2, FS_AddElement
    <2>. QED BY <1>2, <2>3, FS_Subset
  <1>4. ASSUME ~live PROVE Cardinality(Flight') <= owed'
    <2>0. IsFiniteSet(Flight) /\ Cardinality(Flight) \in Nat /\ Cardinality(Flight') \in Nat
          /\ Cardinality(Flight) <= owed
      BY <1>3, <1>4, FS_CardinalityType DEF DeskInv, FlightPaid
    <2>1. CASE InFlight(p)' <= InFlight(p) /\ owed' = owed
      <3>1. Flight' \in SUBSET Flight
        BY <1>1, <2>1 DEF Flight
      <3>. QED BY <2>0, <2>1, <3>1, FS_Subset
    <2>2. CASE InFlight(p)' < InFlight(p) /\ owed' = owed - 1
      <3>1. <<p, InFlight(p)>> \in Flight
        BY <2>2 DEF Flight
      <3>2. Flight' \in SUBSET (Flight \ {<<p, InFlight(p)>>})
        BY <1>1, <2>2 DEF Flight
      <3>3. IsFiniteSet(Flight \ {<<p, InFlight(p)>>})
            /\ Cardinality(Flight \ {<<p, InFlight(p)>>}) = Cardinality(Flight) - 1
        BY <2>0, <3>1, FS_RemoveElement
      <3>4. Cardinality(Flight') <= Cardinality(Flight) - 1
        BY <3>2, <3>3, FS_Subset
      <3>. QED BY <2>0, <2>2, <3>4
    <2>. QED BY <1>4, <2>1, <2>2
  <1>5. ASSUME live PROVE owed' = 0
    BY <1>5 DEF DeskInv, FlightPaid
  <1>. QED BY <1>3, <1>4, <1>5 DEF FlightPaid

\* One agent moves; the rest stay sound.
LEMMA AgentMoves ==
  ASSUME DeskInv, DeskTypes', NEW p \in Proc,
         \A q \in Proc \ {p} : agent'[q] = agent[q],
         \A j \in Job \ {p} : answer'[j] = answer[j],
         \A k \in MessageKey : ledger[k] # "none" => ledger'[k] # "none",
         \A a \in Action : actions[a].status # "none" => actions'[a].status # "none",
         \A q \in Poll \ {p} : agent[q].pc \in Holding => actions'[RowAt(q)].claimed = actions[RowAt(q)].claimed
                                                          \/ actions'[RowAt(q)].claimed,
         UNCHANGED <<fans, live, enabled, toggles, bar>>, live \in BOOLEAN,
         ~live => \/ InFlight(p)' <= InFlight(p) /\ owed' = owed
                  \/ InFlight(p)' < InFlight(p) /\ owed' = owed - 1,
         live => owed' = owed,
         AgentSound(p)', HandSound', HandedSound', OnePollPerRow', HeldOrFree', CausesKnown'
  PROVE  DeskInv'
  <1>1. ASSUME NEW q \in Proc PROVE AgentSound(q)'
    <2>1. CASE q = p
      BY <2>1
    <2>2. CASE q # p
      <3>1. agent'[q] = agent[q] /\ (q \in Job => answer'[q] = answer[q])
        BY <2>2
      <3>2. q \in Poll /\ agent[q].pc \in Holding => actions'[RowAt(q)].claimed = actions[RowAt(q)].claimed
                                                     \/ actions'[RowAt(q)].claimed
        BY <2>2
      <3>. QED BY <3>1, <3>2, Bystander
    <2>. QED BY <2>1, <2>2
  <1>2. FlightPaid'
    BY FlightFrame
  <1>. QED BY <1>1, <1>2 DEF DeskInv

\* A step of a request, which neither takes nor lets go a row.
LEMMA JobMoves ==
  ASSUME DeskInv, DeskTypes', NEW j \in Job,
         \A q \in Proc \ {j} : agent'[q] = agent[q],
         \A k \in Job \ {j} : answer'[k] = answer[k],
         agent'[j].pc = "hand" => agent[j].pc = "hand" /\ agent'[j].todo = agent[j].todo,
         UNCHANGED <<ledger, handed, fans, live, enabled, toggles, bar, owed, orphans>>, live \in BOOLEAN,
         \A a \in Action : /\ actions[a].status # "none" => actions'[a] = actions[a]
                           /\ actions'[a] # actions[a]
                                => actions'[a].status = "planned" /\ ~actions'[a].claimed,
         ~live => InFlight(j)' <= InFlight(j),
         AgentSound(j)'
  PROVE  DeskInv'
  <1>0. j \in Proc /\ j \notin Poll
    BY Roles
  <1>1. \A q \in Poll : agent'[q] = agent[q] /\ RowAt(q)' = RowAt(q) /\ q \in Proc
    BY <1>0, Roles DEF RowAt
  <1>2. \A q \in Poll : agent[q].pc \in Holding => actions'[RowAt(q)] = actions[RowAt(q)]
    BY <1>1 DEF DeskInv, AgentSound, RowsSound
  <1>3. HandSound' /\ HandedSound'
    BY MailFrame
  <1>4. OnePollPerRow'
    BY <1>1, HoldersFrame
  <1>5. HeldOrFree'
    BY <1>1, HeldFrame
  <1>6. CausesKnown'
    BY DEF DeskInv, CausesKnown
  <1>7. \A a \in Action : actions[a].status # "none" => actions'[a].status # "none"
    OBVIOUS
  <1>. QED BY <1>0, <1>2, <1>3, <1>4, <1>5, <1>6, <1>7, AgentMoves

\* What an agent is sound about, of the record it holds.
LEMMA EndsDesk ==
  ASSUME DeskInv, NEW j \in Job, agent[j].pc \in {"idle", "link", "wrap"},
         NEW what \in Telling, Ends(j, what), live \in BOOLEAN,
         UNCHANGED <<ledger, handed, fans, live, enabled, toggles, bar, owed, orphans>>,
         actions' \in [Action -> [status : {"none", "planned", "executed", "failed", "skipped"},
                                  claimed : BOOLEAN, due : BOOLEAN]],
         \A a \in Action : /\ actions[a].status # "none" => actions'[a] = actions[a]
                           /\ actions'[a] # actions[a]
                                => actions'[a].status = "planned" /\ ~actions'[a].claimed,
         what = "ok" => agent[j].landed \/ (~fans /\ actions'[<<1, agent[j].attempt>>].status # "none"),
         what # "ok" => ~agent[j].landed,
         what = "already" => ledger[<<0, "any", agent[j].attempt>>] # "none"
  PROVE  DeskInv'
  <1>0. j \in Proc /\ j \notin Poll /\ j # Ladder
    BY Roles
  <1>1. agent[j] \in AgentRow /\ AgentSound(j)
    BY <1>0 DEF DeskInv, DeskTypes
  <1>. DEFINE to == [agent[j] EXCEPT !.pc = "done"]
  <1>2. /\ to \in AgentRow /\ to.pc = "done" /\ to.todo = agent[j].todo /\ to.attempt = agent[j].attempt
        /\ to.gate = agent[j].gate /\ to.landed = agent[j].landed /\ to.repeated = agent[j].repeated
    BY <1>1 DEF AgentRow
  <1>3. agent' = [agent EXCEPT ![j] = to] /\ answer' = [answer EXCEPT ![j] = IF @ = "none" THEN what ELSE @]
    BY DEF Ends, Answers
  <1>. HIDE DEF to
  <1>4. /\ agent' \in [Proc -> AgentRow] /\ agent'[j] = to /\ \A q \in Proc \ {j} : agent'[q] = agent[q]
        /\ answer' \in [Job -> {"none", "ok", "already", "no", "timeout"}]
        /\ answer'[j] = (IF answer[j] = "none" THEN what ELSE answer[j])
        /\ \A k \in Job \ {j} : answer'[k] = answer[k]
    BY <1>0, <1>2, <1>3 DEF DeskInv, DeskTypes, Telling
  <1>5. DeskTypes'
    BY <1>4 DEF DeskInv, DeskTypes
  <1>6. agent[j].todo = <<>>
    BY <1>1 DEF AgentSound, InRole
  <1>7. answer[j] \notin Telling
    BY <1>1 DEF AgentSound, WordSound
  <1>8. AgentSound(j)'
    <2>1. InRole(j)' /\ LettersSound(j)' /\ GateSound(j)' /\ RowsSound(j)'
      BY <1>0, <1>1, <1>2, <1>4, <1>6 DEF AgentSound, InRole, LettersSound, GateSound, RowsSound
    <2>2. WordSound(j)'
      BY <1>1, <1>2, <1>4, <1>7 DEF AgentSound, WordSound, Telling
    <2>. QED BY <2>1, <2>2 DEF AgentSound
  <1>9. InFlight(j)' <= InFlight(j)
    <2>1. InFlight(j)' = 0
      BY <1>0, <1>2, <1>4, <1>6 DEF InFlight
    <2>. QED BY <1>0, <2>1, InFlightIs DEF DeskInv
  <1>. QED BY <1>2, <1>4, <1>5, <1>8, <1>9, JobMoves

LEMMA StartDesk == ASSUME DeskInv, live \in BOOLEAN, NEW j \in Job, Start(j) PROVE DeskInv'
  <1>0. j \in Proc /\ j \notin Poll /\ j # Ladder
    BY Roles
  <1>1. agent[j] \in AgentRow /\ AgentSound(j) /\ agent[j].pc = "idle"
    BY <1>0 DEF DeskInv, DeskTypes, Start
  <1>2. ASSUME Proceeds(GateAnswer), NEW t \in Stamped,
               agent' = [agent EXCEPT ![j].pc = "link", ![j].attempt = t], UNCHANGED answer
        PROVE  DeskInv'
    <2>. DEFINE to == [agent[j] EXCEPT !.pc = "link", !.attempt = t]
    <2>0. live
      BY <1>2, GateSays
    <2>1. t \in Attempt
      BY DEF Stamped
    <2>2. /\ to \in AgentRow /\ to.pc = "link" /\ to.todo = agent[j].todo
          /\ to.gate = agent[j].gate /\ to.landed = agent[j].landed /\ to.repeated = agent[j].repeated
      BY <1>1, <2>1 DEF AgentRow
    <2>3. agent' = [agent EXCEPT ![j] = to]
      BY <1>2
    <2>. HIDE DEF to
    <2>4. agent' \in [Proc -> AgentRow] /\ agent'[j] = to /\ \A q \in Proc \ {j} : agent'[q] = agent[q]
      BY <1>0, <2>2, <2>3 DEF DeskInv, DeskTypes
    <2>5. DeskTypes'
      <3>1. UNCHANGED <<ledger, handed, actions, answer, owed, toggles, bar, fans>>
        BY <1>2 DEF Start, staff
      <3>. QED BY <2>4, <3>1 DEF DeskInv, DeskTypes
    <2>6. agent[j].todo = <<>> /\ answer[j] \notin Telling
          /\ ~agent[j].landed /\ ~agent[j].repeated
      BY <1>1 DEF AgentSound, InRole, WordSound
    <2>7. AgentSound(j)'
      <3>1. InRole(j)' /\ LettersSound(j)' /\ GateSound(j)' /\ RowsSound(j)'
        BY <1>0, <1>1, <2>2, <2>4, <2>6
           DEF AgentSound, InRole, LettersSound, GateSound, RowsSound, Start, sharedVars
      <3>2. WordSound(j)'
        BY <1>2, <2>2, <2>4, <2>6 DEF WordSound, Telling
      <3>. QED BY <3>1, <3>2 DEF AgentSound
    <2>. QED BY <1>2, <2>0, <2>2, <2>4, <2>5, <2>7, JobMoves DEF Start, sharedVars, staff
  <1>3. ASSUME Ends(j, "no") PROVE DeskInv'
    <2>1. ~agent[j].landed
      BY <1>1 DEF AgentSound, WordSound
    <2>2. UNCHANGED <<ledger, handed, fans, live, enabled, toggles, bar, owed, orphans, actions>>
      BY DEF Start, sharedVars, staff
    <2>3. "no" \in Telling /\ "no" # "ok" /\ "no" # "already"
      BY DEF Telling
    <2>. QED BY <1>1, <1>3, <2>1, <2>2, <2>3, EndsDesk DEF DeskInv, DeskTypes
  <1>. QED BY <1>2, <1>3 DEF Start

LEMMA StartLinkDesk == ASSUME DeskInv, live \in BOOLEAN, NEW j \in Job, StartLink(j) PROVE DeskInv'
  <1>0. j \in Proc /\ j \notin Poll /\ j # Ladder
    BY Roles
  <1>1. agent[j] \in AgentRow /\ AgentSound(j) /\ agent[j].pc = "link"
    BY <1>0 DEF DeskInv, DeskTypes, StartLink
  <1>2. UNCHANGED <<ledger, handed, actions, owed, toggles, bar, fans, live, enabled, orphans>>
    BY DEF StartLink, staff, sharedVars
  <1>3. ~agent[j].landed /\ ~agent[j].repeated /\ answer[j] \notin Telling /\ agent[j].attempt \in Attempt
    BY <1>1 DEF AgentSound, WordSound, AgentRow
  <1>. DEFINE attempt == agent[j].attempt
              open == IF fans THEN onFile ELSE {}
              todo == Over(onFile, <<0, "any", attempt>>, "whatsapp")
                      \o Over(open, <<0, "email", attempt>>, "email")
              to == [agent[j] EXCEPT !.todo = todo, !.pc = IF todo = <<>> THEN "wrap" ELSE "claim"]
  <1>4. ASSUME Sends(j, todo), UNCHANGED answer PROVE DeskInv'
    <2>0. <<0, "any", attempt>> \in MessageKey /\ <<0, "email", attempt>> \in MessageKey
      BY <1>3 DEF MessageKey
    <2>1. /\ todo \in Letters
          /\ \A i \in 1..Len(todo) : \/ todo[i] = Message(<<0, "any", attempt>>, "whatsapp")
                                     \/ todo[i] = Message(<<0, "email", attempt>>, "email") /\ fans
          /\ ~fans => Len(todo) <= 1
      <3>1. "email" \in open => fans
        BY DEF DeskInv, DeskTypes
      <3>2. ~fans => "email" \notin open
        OBVIOUS
      <3>. HIDE DEF open
      <3>. QED BY <1>3, <3>1, <3>2, BothFacts
    <2>2. agent' = [agent EXCEPT ![j] = to]
      BY <1>4 DEF Sends
    <2>. HIDE DEF todo
    <2>3. /\ to \in AgentRow /\ to.todo = todo /\ to.pc = (IF todo = <<>> THEN "wrap" ELSE "claim")
          /\ to.attempt = attempt /\ to.gate = agent[j].gate
          /\ to.landed = agent[j].landed /\ to.repeated = agent[j].repeated
      BY <1>1, <2>1 DEF AgentRow
    <2>. HIDE DEF to
    <2>4. agent' \in [Proc -> AgentRow] /\ agent'[j] = to /\ \A q \in Proc \ {j} : agent'[q] = agent[q]
      BY <1>0, <2>2, <2>3 DEF DeskInv, DeskTypes
    <2>5. DeskTypes'
      BY <1>2, <1>4, <2>4 DEF DeskInv, DeskTypes
    <2>6. LettersSound(j)'
      <3>1. ASSUME NEW i \in 1..Len(todo)
            PROVE  /\ Proper(todo[i].key, todo[i].channel)
                   /\ todo[i].channel = "whatsapp" => todo[i].key = <<0, "any", attempt>>
        <4>1. CASE todo[i] = Message(<<0, "any", attempt>>, "whatsapp")
          <5>1. todo[i].key = <<0, "any", attempt>> /\ todo[i].channel = "whatsapp"
            BY <4>1, MessageFields
          <5>. HIDE DEF attempt
          <5>. QED BY <5>1, ProperFacts
        <4>2. CASE todo[i] = Message(<<0, "email", attempt>>, "email") /\ fans
          <5>1. todo[i].key = <<0, "email", attempt>> /\ todo[i].channel = "email" /\ fans
            BY <4>2, MessageFields
          <5>. HIDE DEF attempt
          <5>. QED BY <5>1, ProperFacts
        <4>. QED BY <2>1, <4>1, <4>2
      <3>. QED BY <1>0, <1>2, <2>3, <2>4, <3>1, LettersTaken
    <2>7. InRole(j)' /\ GateSound(j)' /\ RowsSound(j)'
      BY <1>0, <1>1, <1>2, <2>3, <2>4 DEF AgentSound, InRole, GateSound, RowsSound
    <2>8. WordSound(j)'
      BY <1>3, <1>4, <2>3, <2>4 DEF WordSound, Telling
    <2>9. InFlight(j)' <= InFlight(j)
      <3>1. InFlight(j)' = Len(todo) /\ InFlight(j) = (IF fans THEN 2 ELSE 1)
        BY <1>0, <1>1, <2>3, <2>4 DEF InFlight
      <3>2. Len(todo) \in 0..2 /\ fans \in BOOLEAN
        BY <2>1, LettersAre DEF DeskInv, DeskTypes
      <3>. QED BY <2>1, <3>1, <3>2
    <2>. QED BY <1>2, <1>4, <2>3, <2>4, <2>5, <2>6, <2>7, <2>8, <2>9, JobMoves DEF AgentSound
  <1>5. ASSUME Ends(j, "no") PROVE DeskInv'
    <2>1. "no" \in Telling /\ "no" # "ok" /\ "no" # "already"
      BY DEF Telling
    <2>. QED BY <1>1, <1>2, <1>3, <1>5, <2>1, EndsDesk DEF DeskInv, DeskTypes
  <1>. QED BY <1>4, <1>5 DEF StartLink

LEMMA StartWrapDesk == ASSUME DeskInv, live \in BOOLEAN, NEW j \in Job, StartWrap(j) PROVE DeskInv'
  <1>0. j \in Proc /\ j \notin Poll /\ j # Ladder
    BY Roles
  <1>1. agent[j] \in AgentRow /\ AgentSound(j) /\ agent[j].pc = "wrap"
    BY <1>0 DEF DeskInv, DeskTypes, StartWrap
  <1>2. UNCHANGED <<ledger, handed, owed, toggles, bar, fans, live, enabled, orphans>>
    BY DEF StartWrap, staff, sharedVars
  <1>. DEFINE row == <<1, agent[j].attempt>>
              schedules == ~fans /\ "email" \in onFile /\ actions[row] = NoAction
              what == IF agent[j].landed \/ schedules THEN "ok"
                      ELSE IF agent[j].repeated THEN "already" ELSE "no"
  <1>3. row \in Action /\ agent[j].landed \in BOOLEAN /\ agent[j].repeated \in BOOLEAN
    BY <1>1 DEF AgentRow, Action
  <1>4. actions' = (IF schedules THEN [actions EXCEPT ![row].status = "planned"] ELSE actions)
    BY DEF StartWrap
  <1>5. /\ actions' \in [Action -> [status : {"none", "planned", "executed", "failed", "skipped"},
                                    claimed : BOOLEAN, due : BOOLEAN]]
        /\ \A a \in Action : /\ actions[a].status # "none" => actions'[a] = actions[a]
                             /\ actions'[a] # actions[a]
                                  => actions'[a].status = "planned" /\ ~actions'[a].claimed
        /\ schedules => actions'[row].status # "none"
    <2>1. CASE schedules
      <3>1. actions[row].status = "none" /\ ~actions[row].claimed
        BY <2>1 DEF NoAction
      <3>2. actions' = [actions EXCEPT ![row] = [actions[row] EXCEPT !.status = "planned"]]
        BY <1>4, <2>1
      <3>. QED BY <1>3, <3>1, <3>2 DEF DeskInv, DeskTypes
    <2>2. CASE ~schedules
      BY <1>4, <2>2 DEF DeskInv, DeskTypes
    <2>. QED BY <2>1, <2>2
  <1>6. Ends(j, what)
    BY DEF StartWrap
  <1>7. what \in Telling
    BY DEF Telling
  <1>8. what = "ok" => agent[j].landed \/ (~fans /\ actions'[row].status # "none")
    BY <1>5
  <1>9. what # "ok" => ~agent[j].landed
    OBVIOUS
  <1>10. what = "already" => ledger[<<0, "any", agent[j].attempt>>] # "none"
    BY <1>1 DEF AgentSound, WordSound
  <1>. HIDE DEF what
  <1>. QED BY <1>1, <1>2, <1>5, <1>6, <1>7, <1>8, <1>9, <1>10, EndsDesk

LEMMA GiveUpDesk == ASSUME DeskInv, live \in BOOLEAN, NEW j \in Job, GiveUp(j) PROVE DeskInv'
  <1>0. j \in Proc /\ j \notin Poll /\ j # Ladder
    BY Roles
  <1>1. UNCHANGED <<ledger, handed, owed, toggles, bar, fans, live, enabled, orphans, actions, agent>>
    BY DEF GiveUp, staff, sharedVars
  <1>2. /\ answer' \in [Job -> {"none", "ok", "already", "no", "timeout"}]
        /\ answer'[j] = "timeout" /\ \A k \in Job \ {j} : answer'[k] = answer[k]
    BY DEF DeskInv, DeskTypes, GiveUp, Answers
  <1>3. DeskTypes'
    BY <1>1, <1>2 DEF DeskInv, DeskTypes
  <1>4. AgentSound(j)'
    <2>1. AgentSound(j)
      BY <1>0 DEF DeskInv
    <2>2. InRole(j)' /\ LettersSound(j)' /\ GateSound(j)' /\ RowsSound(j)'
      BY <1>0, <1>1, <2>1 DEF AgentSound, InRole, LettersSound, GateSound, RowsSound, Proper
    <2>3. WordSound(j)'
      BY <1>1, <1>2, <2>1 DEF AgentSound, WordSound, Telling
    <2>. QED BY <2>2, <2>3 DEF AgentSound
  <1>5. InFlight(j)' <= InFlight(j)
    <2>1. InFlight(j)' = InFlight(j)
      BY <1>1 DEF InFlight
    <2>. QED BY <1>0, <2>1, InFlightIs DEF DeskInv
  <1>. QED BY <1>1, <1>2, <1>3, <1>4, <1>5, JobMoves

-----------------------------------------------------------------------------
(* The polls and the ladder.                                                 *)
LEMMA QuietIs == Quiet \in AgentRow /\ Quiet.pc = "idle" /\ Quiet.todo = <<>> /\ Quiet.rows = {}
                 /\ Quiet.gate = "go" /\ ~Quiet.landed /\ ~Quiet.repeated /\ Quiet.attempt = Unforced
                 /\ Quiet.rung = 0
  <1>1. <<>> \in Letters
    <2>1. <<>> \in Seq(Letter) /\ Len(<<>>) \in 0..2
      BY EmptySeq
    <2>. QED BY <2>1, LettersAre
  <1>. QED BY <1>1, Roles DEF Quiet, AgentRow

\* A step of a poll or the ladder that hands nothing over.
LEMMA OtherMoves ==
  ASSUME DeskInv, live \in BOOLEAN, NEW p \in Proc, p \notin Job, NEW to \in AgentRow,
         agent' = [agent EXCEPT ![p] = to], to.pc # "hand",
         UNCHANGED <<ledger, handed, fans, live, enabled, toggles, bar, owed, answer>>,
         actions' \in [Action -> [status : {"none", "planned", "executed", "failed", "skipped"},
                                  claimed : BOOLEAN, due : BOOLEAN]],
         \A a \in Action : actions[a].status # "none" => actions'[a].status # "none",
         \A q \in Poll \ {p} : agent[q].pc \in Holding => actions'[RowAt(q)].claimed = actions[RowAt(q)].claimed
                                                          \/ actions'[RowAt(q)].claimed,
         ~live => InFlight(p)' <= InFlight(p),
         InRole(p)', LettersSound(p)', GateSound(p)', RowsSound(p)',
         OnePollPerRow', HeldOrFree', CausesKnown'
  PROVE  DeskInv'
  <1>1. agent' \in [Proc -> AgentRow] /\ agent'[p] = to /\ \A q \in Proc \ {p} : agent'[q] = agent[q]
    BY DEF DeskInv, DeskTypes
  <1>2. DeskTypes'
    BY <1>1 DEF DeskInv, DeskTypes
  <1>3. HandSound' /\ HandedSound'
    <2>1. \A q \in Proc : agent'[q].pc = "hand" => agent[q].pc = "hand" /\ agent'[q].todo = agent[q].todo
      BY <1>1
    <2>. QED BY <2>1, MailFrame
  <1>4. AgentSound(p)'
    BY DEF AgentSound, WordSound
  <1>. QED BY <1>1, <1>2, <1>3, <1>4, AgentMoves

\* An agent with nothing to send and no gate behind it has nothing in flight.
LEMMA NoFlight ==
  ASSUME NEW p \in Proc, p \notin Job, agent'[p].todo = <<>>, agent'[p].pc \notin {"take", "gate"},
         DeskTypes
  PROVE  InFlight(p)' <= InFlight(p)
  <1>1. InFlight(p)' = 0
    BY EmptySeq DEF InFlight
  <1>. QED BY <1>1, InFlightIs

\* Between its rows a poll holds none.
LEMMA PollBetween ==
  ASSUME DeskInv, live \in BOOLEAN, NEW p \in Poll, NEW to \in AgentRow,
         agent' = [agent EXCEPT ![p] = to], to.pc \in {"idle", "pick"},
         agent[p].pc \notin Holding, to.todo = <<>>,
         UNCHANGED <<ledger, handed, fans, live, enabled, toggles, bar, owed, answer, actions, orphans>>,
         \A a \in to.rows : actions[a].status # "none",
         to.gate \in {"go", agent[p].gate}
  PROVE  DeskInv'
  <1>0. p \in Proc /\ p \notin Job /\ p # Ladder
    BY Roles
  <1>1. agent'[p] = to /\ \A q \in Proc \ {p} : agent'[q] = agent[q]
    BY <1>0 DEF DeskInv, DeskTypes
  <1>2. InFlight(p)' <= InFlight(p)
    BY <1>0, <1>1, NoFlight DEF DeskInv
  <1>3. InRole(p)' /\ RowsSound(p)'
    BY <1>0, <1>1 DEF InRole, RowsSound, Holding
  <1>4. LettersSound(p)'
    BY <1>1, EmptySeq DEF LettersSound
  <1>5. GateSound(p)'
    BY <1>0, <1>1 DEF DeskInv, AgentSound, GateSound
  <1>6. \A q \in Poll : agent'[q].pc \in Holding => agent[q].pc \in Holding /\ RowAt(q)' = RowAt(q)
    BY <1>1, Roles DEF RowAt, Holding
  <1>7. \A q \in Poll : agent[q].pc \in Holding => agent'[q].pc \in Holding /\ RowAt(q)' = RowAt(q)
    BY <1>1, Roles DEF RowAt
  <1>8. OnePollPerRow' /\ HeldOrFree'
    BY <1>6, <1>7, HoldersFrame, HeldFrame
  <1>9. CausesKnown'
    BY DEF DeskInv, CausesKnown
  <1>10. to.pc # "hand"
    OBVIOUS
  <1>11. actions \in [Action -> [status : {"none", "planned", "executed", "failed", "skipped"},
                                 claimed : BOOLEAN, due : BOOLEAN]]
    BY DEF DeskInv, DeskTypes
  <1>. QED BY <1>0, <1>2, <1>3, <1>4, <1>5, <1>8, <1>9, <1>10, <1>11, OtherMoves

LEMMA PollReadDesk == ASSUME DeskInv, live \in BOOLEAN, NEW p \in Poll, PollRead(p) PROVE DeskInv'
  <1>. DEFINE due == {a \in Action : actions[a].status = "planned" /\ ~actions[a].claimed /\ actions[a].due}
              to == [Quiet EXCEPT !.pc = "pick", !.rows = due]
  <1>1. /\ to \in AgentRow /\ to.pc = "pick" /\ to.todo = <<>> /\ to.rows = due /\ to.gate = "go"
    BY QuietIs DEF AgentRow
  <1>2. agent' = [agent EXCEPT ![p] = to] /\ agent[p].pc = "idle"
    BY DEF PollRead, Fires
  <1>3. UNCHANGED <<ledger, handed, fans, live, enabled, toggles, bar, owed, answer, actions, orphans>>
    BY DEF PollRead, sharedVars, staff
  <1>4. \A a \in to.rows : actions[a].status # "none"
    BY <1>1
  <1>. HIDE DEF to
  <1>. QED BY <1>1, <1>2, <1>3, <1>4, PollBetween DEF Holding

LEMMA PollDoneDesk == ASSUME DeskInv, live \in BOOLEAN, NEW p \in Poll, PollDone(p) PROVE DeskInv'
  <1>1. agent' = [agent EXCEPT ![p] = Quiet] /\ agent[p].pc = "pick"
    BY DEF PollDone, Fires
  <1>2. UNCHANGED <<ledger, handed, fans, live, enabled, toggles, bar, owed, answer, actions, orphans>>
    BY DEF PollDone, sharedVars, staff
  <1>. QED BY <1>1, <1>2, QuietIs, PollBetween DEF Holding

LEMMA PollGatherDesk == ASSUME DeskInv, live \in BOOLEAN, NEW p \in Poll, PollGather(p) PROVE DeskInv'
  <1>0. p \in Proc /\ p \notin Job /\ p # Ladder
    BY Roles
  <1>1. agent[p] \in AgentRow /\ AgentSound(p) /\ agent[p].pc = "pick"
    BY <1>0 DEF DeskInv, DeskTypes, PollGather
  <1>2. UNCHANGED <<ledger, handed, fans, live, enabled, toggles, bar, owed, answer, actions, orphans>>
    BY DEF PollGather, sharedVars, staff
  <1>3. PICK a \in agent[p].rows :
          agent' = [agent EXCEPT ![p] = [agent[p] EXCEPT !.pc = "take", !.rung = a[1], !.attempt = a[2],
                                                         !.rows = @ \ {a}, !.gate = GateAnswer]]
    BY DEF PollGather, Fires
  <1>4. a \in Action /\ a[1] \in {0, 1} /\ a[2] \in Attempt /\ a = <<a[1], a[2]>>
        /\ actions[a].status # "none"
    BY <1>1 DEF AgentRow, Action, AgentSound, RowsSound
  <1>. DEFINE to == [agent[p] EXCEPT !.pc = "take", !.rung = a[1], !.attempt = a[2],
                                     !.rows = @ \ {a}, !.gate = GateAnswer]
  <1>5. /\ to \in AgentRow /\ to.pc = "take" /\ to.rung = a[1] /\ to.attempt = a[2]
        /\ to.rows = agent[p].rows \ {a} /\ to.gate = GateAnswer /\ to.todo = agent[p].todo
    <2>1. agent[p].rows \ {a} \in SUBSET Action /\ a[1] \in 0..2
          /\ GateAnswer \in {"go", "email", "defer", "paused", "abort"}
      BY <1>1, <1>4, GateSays DEF AgentRow
    <2>. QED BY <1>1, <1>4, <2>1 DEF AgentRow
  <1>6. agent' = [agent EXCEPT ![p] = to]
    BY <1>3
  <1>. HIDE DEF to
  <1>7. agent'[p] = to /\ \A q \in Proc \ {p} : agent'[q] = agent[q]
    BY <1>0, <1>6 DEF DeskInv, DeskTypes
  <1>8. agent[p].todo = <<>>
    BY <1>1 DEF AgentSound, InRole
  <1>9. RowAt(p)' = a
    BY <1>4, <1>5, <1>7 DEF RowAt
  <1>10. InRole(p)' /\ RowsSound(p)'
    BY <1>0, <1>1, <1>2, <1>4, <1>5, <1>7, <1>8, <1>9 DEF InRole, RowsSound, Holding, AgentSound
  <1>11. LettersSound(p)'
    BY <1>5, <1>7, <1>8, EmptySeq DEF LettersSound
  <1>12. GateSound(p)'
    BY <1>2, <1>5, <1>7, GateSays DEF DeskInv, CausesKnown, GateSound
  <1>13. ~live => InFlight(p)' <= InFlight(p)
    <2>1. ~live => InFlight(p)' = 0
      BY <1>0, <1>5, <1>7, <1>8, GateSays, EmptySeq DEF InFlight
    <2>. QED BY <1>0, <2>1, InFlightIs DEF DeskInv
  <1>14. \A q \in Poll : agent'[q].pc \in Holding => agent[q].pc \in Holding /\ RowAt(q)' = RowAt(q)
    BY <1>5, <1>7, Roles DEF RowAt, Holding
  <1>15. \A q \in Poll : agent[q].pc \in Holding => agent'[q].pc \in Holding /\ RowAt(q)' = RowAt(q)
    BY <1>1, <1>7, Roles DEF RowAt, Holding
  <1>16. OnePollPerRow' /\ HeldOrFree'
    BY <1>2, <1>14, <1>15, HoldersFrame, HeldFrame
  <1>17. CausesKnown'
    BY <1>2 DEF DeskInv, CausesKnown
  <1>18. to.pc # "hand"
    BY <1>5
  <1>19. actions \in [Action -> [status : {"none", "planned", "executed", "failed", "skipped"},
                                 claimed : BOOLEAN, due : BOOLEAN]]
    BY DEF DeskInv, DeskTypes
  <1>. QED BY <1>0, <1>2, <1>5, <1>6, <1>10, <1>11, <1>12, <1>13, <1>16, <1>17, <1>18, <1>19, OtherMoves

ActionRow == [status : {"none", "planned", "executed", "failed", "skipped"},
              claimed : BOOLEAN, due : BOOLEAN]

LEMMA PollClaimDesk == ASSUME DeskInv, live \in BOOLEAN, NEW p \in Poll, PollClaim(p) PROVE DeskInv'
  <1>0. p \in Proc /\ p \notin Job /\ p # Ladder
    BY Roles
  <1>1. agent[p] \in AgentRow /\ AgentSound(p) /\ agent[p].pc = "take"
    BY <1>0 DEF DeskInv, DeskTypes, PollClaim
  <1>2. UNCHANGED <<ledger, handed, fans, live, enabled, toggles, bar, owed, answer, orphans>>
    BY DEF PollClaim, sharedVars, staff
  <1>3. RowAt(p) \in Action /\ actions[RowAt(p)].status # "none" /\ agent[p].todo = <<>>
    BY <1>0, <1>1 DEF AgentSound, RowsSound, InRole
  <1>4. actions \in [Action -> ActionRow]
    BY DEF DeskInv, DeskTypes, ActionRow
  <1>5. CASE actions[RowAt(p)].claimed
    <2>. DEFINE to == [agent[p] EXCEPT !.pc = "pick"]
    <2>1. to \in AgentRow /\ to.pc = "pick" /\ to.todo = agent[p].todo /\ to.rows = agent[p].rows
          /\ to.gate = agent[p].gate
      BY <1>1 DEF AgentRow
    <2>2. agent' = [agent EXCEPT ![p] = to] /\ UNCHANGED actions
      BY <1>5 DEF PollClaim, Fires
    <2>. HIDE DEF to
    <2>3. \A a \in to.rows : actions[a].status # "none"
      BY <1>0, <1>1, <2>1 DEF AgentSound, RowsSound
    <2>. QED BY <1>1, <1>2, <1>3, <2>1, <2>2, <2>3, PollBetween DEF Holding
  <1>6. CASE ~actions[RowAt(p)].claimed
    <2>. DEFINE to == [agent[p] EXCEPT !.pc = "gate"]
    <2>1. to \in AgentRow /\ to.pc = "gate" /\ to.todo = agent[p].todo /\ to.rows = agent[p].rows
          /\ to.gate = agent[p].gate /\ to.rung = agent[p].rung /\ to.attempt = agent[p].attempt
      BY <1>1 DEF AgentRow
    <2>2. agent' = [agent EXCEPT ![p] = to]
          /\ actions' = [actions EXCEPT ![RowAt(p)] = [actions[RowAt(p)] EXCEPT !.claimed = TRUE]]
      BY <1>6 DEF PollClaim, Fires
    <2>. HIDE DEF to
    <2>3. agent'[p] = to /\ \A q \in Proc \ {p} : agent'[q] = agent[q]
      BY <1>0, <2>2 DEF DeskInv, DeskTypes
    <2>4. /\ actions' \in [Action -> ActionRow]
          /\ \A a \in Action : actions'[a].status = actions[a].status /\ (a # RowAt(p) => actions'[a] = actions[a])
          /\ actions'[RowAt(p)].claimed
      BY <1>3, <1>4, <2>2 DEF ActionRow
    <2>5. RowAt(p)' = RowAt(p)
      BY <2>1, <2>3 DEF RowAt
    <2>6. \A q \in Poll \ {p} : RowAt(q)' = RowAt(q) /\ agent'[q] = agent[q]
      BY <2>3, Roles DEF RowAt
    <2>7. InRole(p)' /\ RowsSound(p)'
      BY <1>0, <1>1, <1>3, <2>1, <2>3, <2>4, <2>5 DEF InRole, RowsSound, Holding, AgentSound, AgentRow
    <2>8. LettersSound(p)'
      BY <1>3, <2>1, <2>3, EmptySeq DEF LettersSound
    <2>9. GateSound(p)'
      BY <1>1, <1>2, <2>1, <2>3 DEF AgentSound, GateSound
    <2>10. InFlight(p)' <= InFlight(p)
      <3>1. InFlight(p)' = InFlight(p)
        BY <1>0, <1>1, <2>1, <2>3 DEF InFlight, Proceeds
      <3>. QED BY <1>0, <3>1, InFlightIs DEF DeskInv
    <2>11. \A q \in Poll \ {p} : agent[q].pc \in Holding => RowAt(q) # RowAt(p) /\ RowAt(q) \in Action
      BY <1>6, Roles DEF DeskInv, AgentSound, RowsSound
    <2>12. OnePollPerRow'
      BY <2>5, <2>6, <2>11 DEF DeskInv, OnePollPerRow, Holding
    <2>13. HeldOrFree'
      <3>. SUFFICES ASSUME NEW a \in Action, actions'[a].status = "planned" /\ actions'[a].claimed,
                           a \notin orphans'
                    PROVE  \E q \in Poll : RowAt(q)' = a /\ agent'[q].pc \in Holding
        BY DEF HeldOrFree, Holding
      <3>1. CASE a = RowAt(p)
        BY <2>1, <2>3, <2>5, <3>1 DEF Holding
      <3>2. CASE a # RowAt(p)
        <4>1. PICK q \in Poll : RowAt(q) = a /\ agent[q].pc \in Holding
          BY <1>2, <2>4, <3>2 DEF DeskInv, HeldOrFree, Holding
        <4>. QED BY <2>6, <3>2, <4>1
      <3>. QED BY <3>1, <3>2
    <2>14. CausesKnown'
      BY <1>2, <2>4 DEF DeskInv, CausesKnown
    <2>15. to.pc # "hand"
      BY <2>1
    <2>16. \A q \in Poll \ {p} : agent[q].pc \in Holding => actions'[RowAt(q)].claimed = actions[RowAt(q)].claimed
                                                            \/ actions'[RowAt(q)].claimed
      BY <2>4, <2>11
    <2>17. /\ actions' \in [Action -> [status : {"none", "planned", "executed", "failed", "skipped"},
                                        claimed : BOOLEAN, due : BOOLEAN]]
           /\ \A a \in Action : actions[a].status # "none" => actions'[a].status # "none"
      BY <2>4 DEF ActionRow
    <2>18. ~live => InFlight(p)' <= InFlight(p)
      BY <2>10
    <2>. QED BY <1>0, <1>2, <2>1, <2>2, <2>7, <2>8, <2>9, <2>12, <2>13, <2>14, <2>15, <2>16, <2>17, <2>18,
                OtherMoves
  <1>. QED BY <1>5, <1>6

\* A poll leaves its row: settled, or let go to come due again.
LEMMA PollLeaves ==
  ASSUME DeskInv, live \in BOOLEAN, NEW p \in Poll, agent[p].pc \in {"gate", "wrap"},
         NEW to \in AgentRow, agent' = [agent EXCEPT ![p] = to], to.pc = "pick",
         to.todo = <<>>, to.rows = agent[p].rows, to.gate = agent[p].gate,
         NEW row \in ActionRow, actions' = [actions EXCEPT ![RowAt(p)] = row],
         row.status # "none", row.status = "planned" => ~row.claimed,
         row.status = "skipped" => ~live \/ toggles > 0 \/ bar # "none",
         UNCHANGED <<ledger, handed, fans, live, enabled, toggles, bar, owed, answer, orphans>>
  PROVE  DeskInv'
  <1>0. p \in Proc /\ p \notin Job /\ p # Ladder
    BY Roles
  <1>1. agent[p] \in AgentRow /\ AgentSound(p) /\ agent[p].pc \in Holding
    BY <1>0 DEF DeskInv, DeskTypes, Holding
  <1>2. RowAt(p) \in Action
    BY <1>1 DEF AgentSound, RowsSound
  <1>3. /\ actions' \in [Action -> ActionRow] /\ actions'[RowAt(p)] = row
        /\ \A a \in Action \ {RowAt(p)} : actions'[a] = actions[a]
    BY <1>2 DEF DeskInv, DeskTypes, ActionRow
  <1>4. agent'[p] = to /\ \A q \in Proc \ {p} : agent'[q] = agent[q]
    BY <1>0 DEF DeskInv, DeskTypes
  <1>5. \A q \in Poll \ {p} : RowAt(q)' = RowAt(q) /\ agent'[q] = agent[q]
    BY <1>4, Roles DEF RowAt
  <1>6. \A q \in Poll \ {p} : agent[q].pc \in Holding => RowAt(q) # RowAt(p) /\ RowAt(q) \in Action
    BY <1>1, Roles DEF DeskInv, AgentSound, RowsSound, OnePollPerRow, Holding
  <1>7. InRole(p)' /\ RowsSound(p)'
    <2>1. InRole(p)'
      BY <1>0, <1>4 DEF InRole
    <2>2. \A a \in to.rows : a \in Action /\ actions[a].status # "none"
      BY <1>1 DEF AgentSound, RowsSound, AgentRow
    <2>3. RowsSound(p)'
      BY <1>3, <1>4, <2>2 DEF RowsSound, Holding
    <2>. QED BY <2>1, <2>3
  <1>8. LettersSound(p)'
    BY <1>4, EmptySeq DEF LettersSound
  <1>9. GateSound(p)'
    BY <1>1, <1>4 DEF AgentSound, GateSound
  <1>10. InFlight(p)' <= InFlight(p)
    BY <1>0, <1>4, NoFlight DEF DeskInv
  <1>11. OnePollPerRow'
    <2>1. \A q \in Poll : agent'[q].pc \in Holding => agent[q].pc \in Holding /\ RowAt(q)' = RowAt(q)
      BY <1>4, <1>5 DEF Holding
    <2>. QED BY <2>1, HoldersFrame
  <1>12. HeldOrFree'
    <2>1. \A a \in Action : actions'[a].status = "planned" /\ actions'[a].claimed
                              => actions[a].status = "planned" /\ actions[a].claimed
      BY <1>3
    <2>2. \A q \in Poll : agent[q].pc \in Holding =>
            \/ agent'[q].pc \in Holding /\ RowAt(q)' = RowAt(q)
            \/ ~(actions'[RowAt(q)].status = "planned" /\ actions'[RowAt(q)].claimed)
      BY <1>3, <1>5
    <2>. QED BY <2>1, <2>2, HeldFrame
  <1>13. CausesKnown'
    BY <1>3 DEF DeskInv, CausesKnown
  <1>14. to.pc # "hand"
    OBVIOUS
  <1>15. \A q \in Poll \ {p} : agent[q].pc \in Holding => actions'[RowAt(q)].claimed = actions[RowAt(q)].claimed
                                                          \/ actions'[RowAt(q)].claimed
    BY <1>3, <1>6
  <1>16. \A a \in Action : actions[a].status # "none" => actions'[a].status # "none"
    BY <1>3
  <1>. QED BY <1>0, <1>3, <1>7, <1>8, <1>9, <1>10, <1>11, <1>12, <1>13, <1>14, <1>15, <1>16,
              OtherMoves DEF ActionRow

LEMMA PollSettleDesk == ASSUME DeskInv, live \in BOOLEAN, NEW p \in Poll, PollSettle(p) PROVE DeskInv'
  <1>0. p \in Proc
    BY Roles
  <1>1. agent[p] \in AgentRow /\ AgentSound(p) /\ agent[p].pc = "wrap"
    BY <1>0 DEF DeskInv, DeskTypes, PollSettle
  <1>2. UNCHANGED <<ledger, handed, fans, live, enabled, toggles, bar, owed, answer, orphans>>
    BY DEF PollSettle, sharedVars, staff
  <1>. DEFINE to == [agent[p] EXCEPT !.pc = "pick", !.landed = FALSE]
              row == [actions[RowAt(p)] EXCEPT !.status = IF agent[p].landed THEN "executed" ELSE "failed"]
  <1>3. agent' = [agent EXCEPT ![p] = to] /\ actions' = [actions EXCEPT ![RowAt(p)] = row]
    BY DEF PollSettle, Fires
  <1>4. agent[p].todo = <<>>
    BY <1>1 DEF AgentSound, InRole
  <1>5. to \in AgentRow /\ to.pc = "pick" /\ to.todo = <<>> /\ to.rows = agent[p].rows /\ to.gate = agent[p].gate
    BY <1>1, <1>4 DEF AgentRow
  <1>6. actions[RowAt(p)] \in ActionRow
    BY <1>1 DEF AgentSound, RowsSound, Holding, DeskInv, DeskTypes, ActionRow
  <1>7. row \in ActionRow /\ row.status \in {"executed", "failed"}
    BY <1>6 DEF ActionRow
  <1>. HIDE DEF to, row
  <1>. QED BY <1>1, <1>2, <1>3, <1>5, <1>7, PollLeaves

LEMMA PollGateDesk == ASSUME DeskInv, live \in BOOLEAN, NEW p \in Poll, PollGate(p) PROVE DeskInv'
  <1>0. p \in Proc /\ p \notin Job /\ p # Ladder
    BY Roles
  <1>1. agent[p] \in AgentRow /\ AgentSound(p) /\ agent[p].pc = "gate"
    BY <1>0 DEF DeskInv, DeskTypes, PollGate
  <1>2. UNCHANGED <<ledger, handed, fans, live, enabled, toggles, bar, owed, answer, orphans>>
    BY DEF PollGate, sharedVars, staff
  <1>3. agent[p].todo = <<>> /\ agent[p].attempt \in Attempt
        /\ agent[p].gate \in {"go", "email", "defer", "paused", "abort"}
    BY <1>1 DEF AgentSound, InRole, AgentRow
  <1>4. CASE ~Proceeds(agent[p].gate)
    <2>. DEFINE to == [agent[p] EXCEPT !.pc = "pick"]
                row == IF agent[p].gate = "defer"
                       THEN [actions[RowAt(p)] EXCEPT !.claimed = FALSE, !.due = FALSE]
                       ELSE [actions[RowAt(p)] EXCEPT !.status = "skipped"]
    <2>1. agent' = [agent EXCEPT ![p] = to] /\ actions' = [actions EXCEPT ![RowAt(p)] = row]
      BY <1>4 DEF PollGate, Fires
    <2>2. to \in AgentRow /\ to.pc = "pick" /\ to.todo = <<>> /\ to.rows = agent[p].rows /\ to.gate = agent[p].gate
      BY <1>1, <1>3 DEF AgentRow
    <2>3. actions[RowAt(p)] \in ActionRow /\ actions[RowAt(p)].status # "none"
      BY <1>1 DEF AgentSound, RowsSound, Holding, DeskInv, DeskTypes, ActionRow
    <2>4. agent[p].gate # "defer" => ~live \/ toggles > 0 \/ bar # "none"
      BY <1>1, <1>3, <1>4 DEF AgentSound, GateSound, Proceeds
    <2>5. CASE agent[p].gate = "defer"
      <3>1. row \in ActionRow /\ row.status = actions[RowAt(p)].status /\ ~row.claimed
        BY <2>3, <2>5 DEF ActionRow
      <3>2. row.status = "skipped" => ~live \/ toggles > 0 \/ bar # "none"
        BY <1>1, <3>1 DEF AgentSound, RowsSound, Holding, DeskInv, CausesKnown
      <3>. HIDE DEF to, row
      <3>. QED BY <1>1, <1>2, <2>1, <2>2, <2>3, <3>1, <3>2, PollLeaves
    <2>6. CASE agent[p].gate # "defer"
      <3>1. row \in ActionRow /\ row.status = "skipped"
        BY <2>3, <2>6 DEF ActionRow
      <3>. HIDE DEF to, row
      <3>. QED BY <1>1, <1>2, <2>1, <2>2, <2>4, <2>6, <3>1, PollLeaves
    <2>. QED BY <2>5, <2>6
  <1>5. CASE Proceeds(agent[p].gate)
    <2>. DEFINE key == <<1, "any", agent[p].attempt>>
                todo == Over(onFile, key, "email")
                to == [agent[p] EXCEPT !.todo = todo, !.pc = IF todo = <<>> THEN "wrap" ELSE "claim"]
    <2>1. key \in MessageKey
      BY <1>3 DEF MessageKey
    <2>2. todo \in Letters /\ Len(todo) \in 0..1
          /\ \A i \in 1..Len(todo) : todo[i].key = key /\ todo[i].channel = "email"
      <3>. HIDE DEF key
      <3>1. /\ todo \in Letters /\ Len(todo) \in 0..1
            /\ \A i \in 1..Len(todo) : todo[i] = Message(key, "email")
        BY <2>1, OverFacts
      <3>. QED BY <3>1, MessageFields
    <2>3. agent' = [agent EXCEPT ![p] = to] /\ actions' = actions
      BY <1>5 DEF PollGate, Sends
    <2>. HIDE DEF todo
    <2>4. /\ to \in AgentRow /\ to.todo = todo /\ to.pc = (IF todo = <<>> THEN "wrap" ELSE "claim")
          /\ to.attempt = agent[p].attempt /\ to.rung = agent[p].rung /\ to.gate = agent[p].gate
          /\ to.rows = agent[p].rows
      BY <1>1, <2>2 DEF AgentRow
    <2>. HIDE DEF to
    <2>5. agent'[p] = to /\ \A q \in Proc \ {p} : agent'[q] = agent[q]
      BY <1>0, <2>3 DEF DeskInv, DeskTypes
    <2>6. \A q \in Poll : RowAt(q)' = RowAt(q) /\ (agent'[q].pc \in Holding <=> agent[q].pc \in Holding)
      BY <1>1, <2>4, <2>5, Roles DEF RowAt, Holding
    <2>7. LettersSound(p)'
      <3>1. \A i \in 1..Len(todo) : Proper(todo[i].key, todo[i].channel)
        BY <2>2, ProperFacts
      <3>. QED BY <1>0, <1>2, <2>4, <2>5, <3>1, LettersTaken
    <2>8. InRole(p)'
      BY <1>0, <2>4, <2>5 DEF InRole, Holding
    <2>9. RowsSound(p)'
      BY <1>1, <2>3, <2>4, <2>5, <2>6 DEF AgentSound, RowsSound
    <2>10. GateSound(p)'
      BY <1>1, <1>2, <2>4, <2>5 DEF AgentSound, GateSound
    <2>11. InFlight(p)' <= InFlight(p)
      <3>1. InFlight(p)' = Len(todo)
        BY <1>0, <2>4, <2>5 DEF InFlight
      <3>2. InFlight(p) = 1
        BY <1>0, <1>1, <1>5 DEF InFlight
      <3>. QED BY <2>2, <3>1, <3>2
    <2>12. OnePollPerRow' /\ HeldOrFree'
      BY <1>2, <2>3, <2>6, HoldersFrame, HeldFrame
    <2>13. CausesKnown'
      BY <1>2, <2>3 DEF DeskInv, CausesKnown
    <2>14. to.pc # "hand"
      BY <2>4
    <2>15. actions' \in [Action -> ActionRow]
      BY <2>3 DEF DeskInv, DeskTypes, ActionRow
    <2>. QED BY <1>0, <1>2, <2>3, <2>4, <2>7, <2>8, <2>9, <2>10, <2>11, <2>12, <2>13, <2>14, <2>15,
                OtherMoves DEF ActionRow
  <1>. QED BY <1>4, <1>5

\* Neither polls nor rows held are the ladder's business.
LEMMA LadderMoves ==
  ASSUME DeskInv, live \in BOOLEAN, NEW to \in AgentRow, agent' = [agent EXCEPT ![Ladder] = to],
         to.pc # "hand", to.pc \in {"idle", "claim", "wrap"}, to.pc = "claim" <=> to.todo # <<>>,
         to.pc # "idle" => to.rung \in {0, 1}, to.gate \in {"go", agent[Ladder].gate},
         \A i \in 1..Len(to.todo) : Proper(to.todo[i].key, to.todo[i].channel),
         UNCHANGED <<ledger, handed, fans, live, enabled, toggles, bar, owed, answer, orphans>>,
         actions' \in [Action -> ActionRow],
         \A a \in Action : actions'[a] = actions[a] \/ (actions[a].status = "none" /\ actions'[a].status = "executed"),
         ~live => to.todo = <<>>
  PROVE  DeskInv'
  <1>0. Ladder \in Proc /\ Ladder \notin Job /\ Ladder \notin Poll
    BY Roles
  <1>1. agent[Ladder] \in AgentRow /\ AgentSound(Ladder)
    BY <1>0 DEF DeskInv, DeskTypes
  <1>2. agent'[Ladder] = to /\ \A q \in Proc \ {Ladder} : agent'[q] = agent[q]
    BY <1>0 DEF DeskInv, DeskTypes
  <1>3. \A q \in Poll : RowAt(q)' = RowAt(q) /\ agent'[q] = agent[q]
    BY <1>2, Roles DEF RowAt
  <1>4. \A q \in Poll : agent[q].pc \in Holding => actions'[RowAt(q)] = actions[RowAt(q)]
    BY Roles DEF DeskInv, AgentSound, RowsSound, Holding
  <1>5. InRole(Ladder)' /\ RowsSound(Ladder)'
    BY <1>0, <1>2 DEF InRole, RowsSound
  <1>6. GateSound(Ladder)'
    BY <1>1, <1>2 DEF AgentSound, GateSound
  <1>7. LettersSound(Ladder)'
    BY <1>0, <1>2, LettersTaken
  <1>8. OnePollPerRow'
    BY <1>3, HoldersFrame
  <1>9. HeldOrFree'
    BY <1>3, <1>4, HeldFrame
  <1>10. CausesKnown'
    BY DEF DeskInv, CausesKnown
  <1>11. ~live => InFlight(Ladder)' <= InFlight(Ladder)
    BY <1>0, <1>2, NoFlight DEF DeskInv
  <1>12. \A a \in Action : actions[a].status # "none" => actions'[a].status # "none"
    OBVIOUS
  <1>. QED BY <1>0, <1>4, <1>5, <1>6, <1>7, <1>8, <1>9, <1>10, <1>11, <1>12, OtherMoves DEF ActionRow

LEMMA NextRungIs ==
  ASSUME DeskInv, agent[Ladder].rung \in {0, 1}, NextRung
  PROVE  \E to \in AgentRow : /\ agent' = [agent EXCEPT ![Ladder] = to]
                              /\ to.pc = "idle" /\ to.todo = <<>> /\ to.gate = "go"
  <1>. DEFINE to == [Quiet EXCEPT !.rung = agent[Ladder].rung + 1]
  <1>1. agent[Ladder].rung + 1 \in 0..2
    OBVIOUS
  <1>2. to \in AgentRow /\ to.pc = "idle" /\ to.todo = <<>> /\ to.gate = "go"
    BY <1>1, QuietIs DEF AgentRow
  <1>. QED BY <1>2 DEF NextRung, Fires

LEMMA LadderWrapDesk == ASSUME DeskInv, live \in BOOLEAN, LadderWrap PROVE DeskInv'
  <1>1. UNCHANGED <<ledger, handed, fans, live, enabled, toggles, bar, owed, answer, orphans, actions>>
    BY DEF LadderWrap, sharedVars, staff
  <1>2. agent[Ladder].rung \in {0, 1}
    BY Roles DEF LadderWrap, DeskInv, AgentSound, InRole
  <1>3. PICK to \in AgentRow : /\ agent' = [agent EXCEPT ![Ladder] = to]
                               /\ to.pc = "idle" /\ to.todo = <<>> /\ to.gate = "go"
    BY <1>2, NextRungIs DEF LadderWrap
  <1>4. actions' \in [Action -> ActionRow]
    BY <1>1 DEF DeskInv, DeskTypes, ActionRow
  <1>5. \A i \in 1..Len(to.todo) : FALSE
    BY <1>3, EmptySeq
  <1>. QED BY <1>1, <1>3, <1>4, <1>5, LadderMoves

LEMMA LadderLetters ==
  ASSUME DeskInv, NEW rung \in {0, 1}, NEW messages \in LadderMessages(rung)
  PROVE  /\ messages \in Letters
         /\ \A i \in 1..Len(messages) : Proper(messages[i].key, messages[i].channel)
  <1>. DEFINE open == onFile \cap (IF GateAnswer = "email" THEN {"email"} ELSE {"whatsapp", "email"})
  <1>0. open \subseteq {"whatsapp", "email"} /\ Unforced \in Attempt
    BY Roles
  <1>1. CASE fans /\ rung = 0
    <2>1. messages = Over(open, <<0, "whatsapp", Unforced>>, "whatsapp")
                     \o Over(open, <<0, "email", Unforced>>, "email")
      BY <1>1 DEF LadderMessages
    <2>. HIDE DEF open
    <2>2. LET s == Over(open, <<0, "whatsapp", Unforced>>, "whatsapp") \o Over(open, <<0, "email", Unforced>>, "email")
          IN /\ s \in Letters
             /\ \A i \in 1..Len(s) : \/ s[i] = Message(<<0, "whatsapp", Unforced>>, "whatsapp")
                                     \/ s[i] = Message(<<0, "email", Unforced>>, "email") /\ "email" \in open
      <3>1. "whatsapp" \in {"any", "whatsapp"}
        OBVIOUS
      <3>. QED BY <1>0, <3>1, BothFacts
    <2>3. ASSUME NEW i \in 1..Len(messages)
          PROVE  Proper(messages[i].key, messages[i].channel)
      <3>1. CASE messages[i] = Message(<<0, "whatsapp", Unforced>>, "whatsapp")
        <4>1. messages[i].key = <<0, "whatsapp", Unforced>> /\ messages[i].channel = "whatsapp"
          BY <3>1, MessageFields
        <4>. QED BY <1>1, <4>1, ProperFacts
      <3>2. CASE messages[i] = Message(<<0, "email", Unforced>>, "email")
        <4>1. messages[i].key = <<0, "email", Unforced>> /\ messages[i].channel = "email"
          BY <3>2, MessageFields
        <4>. QED BY <1>1, <4>1, ProperFacts
      <3>. QED BY <2>1, <2>2, <3>1, <3>2
    <2>4. messages \in Letters
      BY <2>1, <2>2
    <2>. QED BY <2>3, <2>4
  <1>2. CASE ~(fans /\ rung = 0)
    <2>1. PICK channel \in open : messages = <<Message(<<rung, "any", Unforced>>, channel)>>
      BY <1>2 DEF LadderMessages
    <2>. DEFINE key == <<rung, "any", Unforced>>
                m == Message(key, channel)
    <2>2. key \in MessageKey /\ channel \in {"whatsapp", "email"}
      BY <1>0, <2>1 DEF MessageKey
    <2>3. m.key = key /\ m.channel = channel
      BY MessageFields
    <2>4. Proper(key, channel)
      BY <1>2, ProperFacts DEF DeskInv, DeskTypes
    <2>5. m \in Letter
      BY <2>2 DEF Letter, Message
    <2>. HIDE DEF m, key, open
    <2>6. messages = <<m>>
      BY <2>1 DEF m, key
    <2>7. messages \in Seq(Letter) /\ Len(messages) = 1 /\ messages[1] = m
      BY <2>5, <2>6
    <2>8. messages \in Letters
      <3>1. Len(messages) \in 0..2
        BY <2>7
      <3>. QED BY <2>7, <3>1, LettersAre
    <2>9. \A i \in 1..Len(messages) : i = 1
      BY <2>7
    <2>. QED BY <2>3, <2>4, <2>7, <2>8, <2>9
  <1>. QED BY <1>1, <1>2

LEMMA LadderRungDesk == ASSUME DeskInv, live \in BOOLEAN, LadderRung PROVE DeskInv'
  <1>0. Ladder \in Proc
    BY Roles
  <1>1. /\ UNCHANGED <<ledger, handed, fans, live, enabled, toggles, bar, owed, answer, orphans>>
        /\ agent[Ladder].pc = "idle" /\ agent[Ladder].rung \in {0, 1} /\ live
    BY GateSays DEF LadderRung, sharedVars, staff
  <1>2. agent[Ladder] \in AgentRow
    BY <1>0 DEF DeskInv, DeskTypes
  <1>. DEFINE row == <<agent[Ladder].rung, Unforced>>
              done == [status |-> "executed", claimed |-> TRUE, due |-> TRUE]
  <1>3. row \in Action /\ actions \in [Action -> ActionRow] /\ done \in ActionRow /\ done.status = "executed"
    BY <1>1, Roles DEF Action, DeskInv, DeskTypes, ActionRow
  <1>4. CASE actions[row] = NoAction
    <2>1. PICK messages \in LadderMessages(agent[Ladder].rung) :
            agent' = [agent EXCEPT ![Ladder].todo = messages,
                                   ![Ladder].pc = IF messages = <<>> THEN "wrap" ELSE "claim"]
      BY <1>4 DEF LadderRung, Sends
    <2>2. actions' = [actions EXCEPT ![row] = done]
      BY <1>4 DEF LadderRung
    <2>. DEFINE to == [agent[Ladder] EXCEPT !.todo = messages,
                                            !.pc = IF messages = <<>> THEN "wrap" ELSE "claim"]
    <2>3. /\ messages \in Letters
          /\ \A i \in 1..Len(messages) : Proper(messages[i].key, messages[i].channel)
      BY <1>1, LadderLetters
    <2>4. agent' = [agent EXCEPT ![Ladder] = to]
      BY <2>1
    <2>5. /\ to \in AgentRow /\ to.todo = messages /\ to.pc = (IF messages = <<>> THEN "wrap" ELSE "claim")
          /\ to.rung = agent[Ladder].rung /\ to.gate = agent[Ladder].gate
      BY <1>2, <2>3 DEF AgentRow
    <2>6. actions[row].status = "none"
      BY <1>4 DEF NoAction
    <2>. HIDE DEF to, done, row
    <2>7. /\ actions' \in [Action -> ActionRow]
          /\ \A a \in Action : actions'[a] = actions[a]
                               \/ (actions[a].status = "none" /\ actions'[a].status = "executed")
      BY <1>3, <2>2, <2>6
    <2>. QED BY <1>1, <2>3, <2>4, <2>5, <2>7, LadderMoves
  <1>5. CASE actions[row] # NoAction
    <2>1. PICK to \in AgentRow : /\ agent' = [agent EXCEPT ![Ladder] = to]
                                 /\ to.pc = "idle" /\ to.todo = <<>> /\ to.gate = "go"
      BY <1>1, <1>5, NextRungIs DEF LadderRung
    <2>2. actions' = actions
      BY <1>5 DEF LadderRung
    <2>3. \A i \in 1..Len(to.todo) : FALSE
      BY <2>1, EmptySeq
    <2>. QED BY <1>1, <1>3, <2>1, <2>2, <2>3, LadderMoves
  <1>. QED BY <1>4, <1>5

-----------------------------------------------------------------------------
(* One message.                                                              *)

\* A message is over, whatever became of it: the next one, or the wrap.
LEMMA AfterIs ==
  ASSUME DeskInv, NEW p \in Proc, agent[p].todo # <<>>
  PROVE  /\ AfterMessage(p) \in AgentRow
         /\ AfterMessage(p).todo = Tail(agent[p].todo) /\ AfterMessage(p).pc \in {"claim", "wrap"}
         /\ AfterMessage(p).pc = "claim" <=> AfterMessage(p).todo # <<>>
         /\ AfterMessage(p).attempt = agent[p].attempt /\ AfterMessage(p).rung = agent[p].rung
         /\ AfterMessage(p).rows = agent[p].rows /\ AfterMessage(p).gate = agent[p].gate
         /\ AfterMessage(p).landed = agent[p].landed /\ AfterMessage(p).repeated = agent[p].repeated
  <1>1. agent[p] \in AgentRow
    BY DEF DeskInv, DeskTypes
  <1>2. agent[p].todo \in Letters
    BY <1>1 DEF AgentRow
  <1>3. Tail(agent[p].todo) \in Letters /\ (Tail(agent[p].todo) = <<>> <=> Len(agent[p].todo) = 1)
    BY <1>2, TodoFacts
  <1>. QED BY <1>1, <1>3 DEF AfterMessage, AgentRow

\* The message at the head of what an agent has left.
LEMMA HeadIs ==
  ASSUME DeskInv, NEW p \in Proc, agent[p].pc \in {"claim", "hand"}
  PROVE  /\ agent[p].todo # <<>> /\ agent[p].todo \in Letters
         /\ Head(agent[p].todo).key \in MessageKey
         /\ Head(agent[p].todo).channel \in {"whatsapp", "email"}
         /\ Proper(Head(agent[p].todo).key, Head(agent[p].todo).channel)
         /\ p \in Job /\ Head(agent[p].todo).channel = "whatsapp"
              => Head(agent[p].todo).key = <<0, "any", agent[p].attempt>>
  <1>1. agent[p].todo # <<>> /\ agent[p].todo \in Letters
    BY DEF DeskInv, AgentSound, InRole, DeskTypes, AgentRow
  <1>2. Head(agent[p].todo) \in Letter /\ Head(agent[p].todo) = agent[p].todo[1] /\ 1 \in 1..Len(agent[p].todo)
    BY <1>1, TodoFacts
  <1>3. LettersSound(p)
    BY DEF DeskInv, AgentSound
  <1>. QED BY <1>1, <1>2, <1>3 DEF Letter, LettersSound

\* What a message does to everything but the ledger and the messages handed over.
LEMMA MessageMoves ==
  ASSUME DeskInv, live \in BOOLEAN, NEW p \in Proc, agent[p].pc \in {"claim", "hand"}, NEW to \in AgentRow,
         agent' = [agent EXCEPT ![p] = to],
         to.pc \in {"claim", "hand", "wrap"}, to.pc \in {"claim", "hand"} <=> to.todo # <<>>,
         to.todo = agent[p].todo \/ to.todo = Tail(agent[p].todo),
         to.attempt = agent[p].attempt, to.rung = agent[p].rung, to.rows = agent[p].rows, to.gate = agent[p].gate,
         p \in Job /\ to.repeated => ledger'[<<0, "any", agent[p].attempt>>] # "none",
         ledger' \in [MessageKey -> {"none", "queued", "sent", "failed"}],
         handed' \in [MessageKey -> SUBSET {"whatsapp", "email"}],
         \A k \in MessageKey : ledger[k] # "none" => ledger'[k] # "none",
         UNCHANGED <<fans, live, enabled, toggles, bar, answer, actions, orphans>>,
         owed' = owed \/ (owed' = owed - 1 /\ ~live /\ to.todo = Tail(agent[p].todo)),
         HandSound', HandedSound'
  PROVE  DeskInv'
  <1>1. agent' \in [Proc -> AgentRow] /\ agent'[p] = to /\ \A q \in Proc \ {p} : agent'[q] = agent[q]
    BY DEF DeskInv, DeskTypes
  <1>2. DeskTypes'
    <2>1. owed' \in Int
      BY DEF DeskInv, DeskTypes
    <2>. QED BY <1>1, <2>1 DEF DeskInv, DeskTypes
  <1>3. agent[p].todo # <<>> /\ agent[p].todo \in Letters
    BY HeadIs
  <1>4. /\ Len(Tail(agent[p].todo)) = Len(agent[p].todo) - 1 /\ Len(agent[p].todo) \in 1..2
        /\ \A i \in 1..Len(Tail(agent[p].todo)) :
             Tail(agent[p].todo)[i] = agent[p].todo[i + 1] /\ i + 1 \in 1..Len(agent[p].todo)
    BY <1>3, TodoFacts
  <1>5. /\ InFlight(p) = Len(agent[p].todo) /\ InFlight(p)' = Len(to.todo)
    BY <1>1 DEF InFlight
  <1>6. ~live => \/ InFlight(p)' <= InFlight(p) /\ owed' = owed
                 \/ InFlight(p)' < InFlight(p) /\ owed' = owed - 1
    <2>. DEFINE n == Len(agent[p].todo)
                m == Len(to.todo)
    <2>1. n \in 1..2 /\ (m = n \/ m = n - 1) /\ (to.todo = Tail(agent[p].todo) => m = n - 1)
      <3>1. CASE to.todo = agent[p].todo
        <4>1. to.todo # Tail(agent[p].todo)
          <5>1. \A l \in 1..2 : l - 1 # l
            OBVIOUS
          <5>2. Len(Tail(agent[p].todo)) # Len(to.todo)
            BY <1>4, <3>1, <5>1
          <5>. QED BY <5>2, Zenon
        <4>. QED BY <1>4, <3>1, <4>1
      <3>2. CASE to.todo = Tail(agent[p].todo)
        BY <1>4, <3>2
      <3>. QED BY <3>1, <3>2
    <2>2. InFlight(p) = n /\ InFlight(p)' = m
      BY <1>5
    <2>. HIDE DEF n, m
    <2>. QED BY <2>1, <2>2
  <1>7. live => owed' = owed
    OBVIOUS
  <1>8. AgentSound(p)
    BY DEF DeskInv
  <1>9. InRole(p)'
    <2>1. InRole(p)
      BY <1>8 DEF AgentSound
    <2>2. p \in Job => p \notin Poll /\ p # Ladder
      BY Roles
    <2>. QED BY <1>1, <2>1 DEF InRole, Holding
  <1>10. LettersSound(p)'
    <2>1. \A i \in 1..Len(to.todo) : \E k \in 1..Len(agent[p].todo) : to.todo[i] = agent[p].todo[k]
      <3>1. CASE to.todo = agent[p].todo
        BY <3>1
      <3>2. CASE to.todo = Tail(agent[p].todo)
        <4>1. \A i \in 1..Len(to.todo) : to.todo[i] = agent[p].todo[i + 1] /\ i + 1 \in 1..Len(agent[p].todo)
          BY <1>4, <3>2
        <4>. QED BY <4>1
      <3>. QED BY <3>1, <3>2
    <2>2. LettersSound(p)
      BY <1>8 DEF AgentSound
    <2>3. ASSUME NEW i \in 1..Len(to.todo)
          PROVE  /\ Proper(to.todo[i].key, to.todo[i].channel)
                 /\ p \in Job /\ to.todo[i].channel = "whatsapp" => to.todo[i].key = <<0, "any", agent[p].attempt>>
      BY <2>1, <2>2 DEF LettersSound
    <2>. QED BY <1>1, <2>3, LettersTaken
  <1>11. GateSound(p)'
    BY <1>1, <1>8 DEF AgentSound, GateSound
  <1>12. RowAt(p)' = RowAt(p)
    BY <1>1 DEF RowAt
  <1>13. RowsSound(p)'
    <2>1. RowsSound(p)
      BY <1>8 DEF AgentSound
    <2>. QED BY <1>1, <1>12, <2>1 DEF RowsSound, Holding
  <1>14. WordSound(p)'
    <2>1. WordSound(p)
      BY <1>8 DEF AgentSound
    <2>. QED BY <1>1, <2>1 DEF WordSound, Telling
  <1>15. \A q \in Poll : RowAt(q)' = RowAt(q) /\ (agent'[q].pc \in Holding <=> agent[q].pc \in Holding)
    BY <1>1, <1>12, Roles DEF RowAt, Holding
  <1>16. OnePollPerRow'
    BY <1>15, HoldersFrame
  <1>17. HeldOrFree'
    BY <1>15, HeldFrame
  <1>18. CausesKnown'
    BY DEF DeskInv, CausesKnown
  <1>19. AgentSound(p)'
    BY <1>9, <1>10, <1>11, <1>13, <1>14 DEF AgentSound
  <1>. QED BY <1>1, <1>2, <1>6, <1>7, <1>16, <1>17, <1>18, <1>19, AgentMoves

LEMMA ClaimDesk == ASSUME DeskInv, live \in BOOLEAN, NEW p \in Proc, Claim(p) PROVE DeskInv'
  <1>. DEFINE key == Head(agent[p].todo).key
  <1>1. /\ agent[p].pc = "claim" /\ agent[p] \in AgentRow /\ AgentSound(p)
        /\ UNCHANGED <<fans, live, enabled, toggles, bar, answer, actions, orphans, owed, handed>>
    BY DEF Claim, sharedVars, staff, DeskInv, DeskTypes
  <1>2. agent[p].todo # <<>> /\ key \in MessageKey
    BY <1>1, HeadIs
  <1>3. p \in Job /\ agent[p].repeated => ledger[<<0, "any", agent[p].attempt>>] # "none"
    BY <1>1 DEF AgentSound, WordSound
  <1>4. p \in Job /\ Head(agent[p].todo).channel = "whatsapp" => key = <<0, "any", agent[p].attempt>>
    BY <1>1, HeadIs
  <1>5. handed' \in [MessageKey -> SUBSET {"whatsapp", "email"}]
        /\ ledger \in [MessageKey -> {"none", "queued", "sent", "failed"}]
    BY <1>1 DEF DeskInv, DeskTypes
  <1>. HIDE DEF key
  <1>6. CASE /\ ledger[key] = "none" /\ ledger' = [ledger EXCEPT ![key] = "queued"]
             /\ agent' = [agent EXCEPT ![p].pc = "hand"]
    <2>. DEFINE to == [agent[p] EXCEPT !.pc = "hand"]
    <2>1. agent' = [agent EXCEPT ![p] = to]
      BY <1>6
    <2>2. /\ to \in AgentRow /\ to.pc = "hand" /\ to.todo = agent[p].todo /\ to.attempt = agent[p].attempt
          /\ to.rung = agent[p].rung /\ to.rows = agent[p].rows /\ to.gate = agent[p].gate
          /\ to.repeated = agent[p].repeated
      BY <1>1 DEF AgentRow
    <2>. HIDE DEF to
    <2>3. /\ ledger' \in [MessageKey -> {"none", "queued", "sent", "failed"}] /\ ledger'[key] = "queued"
          /\ \A k \in MessageKey : k # key => ledger'[k] = ledger[k]
      BY <1>2, <1>5, <1>6
    <2>4. agent'[p] = to /\ \A q \in Proc \ {p} : agent'[q] = agent[q]
      BY <2>1 DEF DeskInv, DeskTypes
    <2>5. handed[key] = {}
      BY <1>2, <1>5, <1>6 DEF DeskInv, HandedSound, DeskTypes
    <2>6. \A q \in Proc \ {p} : agent[q].pc = "hand" => /\ Head(agent[q].todo).key \in MessageKey
                                                        /\ Head(agent[q].todo).key # key
      <3>1. ASSUME NEW q \in Proc \ {p}, agent[q].pc = "hand"
            PROVE  Head(agent[q].todo).key \in MessageKey /\ Head(agent[q].todo).key # key
        <4>1. Head(agent[q].todo).key \in MessageKey
          BY <3>1, HeadIs
        <4>2. ledger[Head(agent[q].todo).key] = "queued"
          BY <3>1 DEF DeskInv, HandSound
        <4>. QED BY <1>6, <4>1, <4>2
      <3>. QED BY <3>1
    <2>7. HandSound'
      <3>1. ASSUME NEW q \in Proc, agent'[q].pc = "hand"
            PROVE  /\ ledger'[Head(agent'[q].todo).key] = "queued" /\ handed'[Head(agent'[q].todo).key] = {}
                   /\ \A r \in Proc \ {q} : agent'[r].pc = "hand" => Head(agent'[r].todo).key # Head(agent'[q].todo).key
        <4>1. CASE q = p
          <5>1. Head(agent'[q].todo).key = key
            BY <2>2, <2>4, <4>1 DEF key
          <5>. QED BY <1>1, <2>3, <2>4, <2>5, <2>6, <4>1, <5>1
        <4>2. CASE q # p
          <5>1. agent'[q] = agent[q] /\ Head(agent[q].todo).key \in MessageKey /\ Head(agent[q].todo).key # key
            BY <2>4, <2>6, <3>1, <4>2
          <5>2. /\ ledger[Head(agent[q].todo).key] = "queued" /\ handed[Head(agent[q].todo).key] = {}
                /\ \A r \in Proc \ {q} : agent[r].pc = "hand" => Head(agent[r].todo).key # Head(agent[q].todo).key
            BY <3>1, <5>1 DEF DeskInv, HandSound
          <5>3. Head(agent'[p].todo).key = key
            BY <2>2, <2>4 DEF key
          <5>4. \A r \in Proc \ {q} : agent'[r].pc = "hand" => Head(agent'[r].todo).key # Head(agent[q].todo).key
            BY <2>4, <5>1, <5>2, <5>3
          <5>. QED BY <1>1, <2>3, <5>1, <5>2, <5>4
        <4>. QED BY <4>1, <4>2
      <3>. QED BY <3>1 DEF HandSound
    <2>8. HandedSound'
      BY <1>1, <2>3, <2>5 DEF DeskInv, HandedSound, Proper
    <2>9. \A k \in MessageKey : ledger[k] # "none" => ledger'[k] # "none"
      BY <2>3
    <2>10. p \in Job /\ to.repeated => ledger'[<<0, "any", agent[p].attempt>>] # "none"
      <3>1. <<0, "any", agent[p].attempt>> \in MessageKey
        BY <1>1 DEF MessageKey, AgentRow
      <3>. QED BY <1>3, <2>2, <2>9, <3>1
    <2>. QED BY <1>1, <1>2, <1>5, <2>1, <2>2, <2>3, <2>7, <2>8, <2>9, <2>10, MessageMoves
  <1>7. ASSUME NEW to \in AgentRow, agent' = [agent EXCEPT ![p] = to], UNCHANGED ledger,
               to.todo = Tail(agent[p].todo), to.pc \in {"claim", "wrap"}, to.pc = "claim" <=> to.todo # <<>>,
               to.attempt = agent[p].attempt, to.rung = agent[p].rung, to.rows = agent[p].rows,
               to.gate = agent[p].gate,
               to.repeated => agent[p].repeated
                              \/ (ledger[key] # "none" /\ Head(agent[p].todo).channel = "whatsapp")
        PROVE  DeskInv'
    <2>1. agent'[p] = to /\ \A q \in Proc \ {p} : agent'[q] = agent[q]
      BY <1>7 DEF DeskInv, DeskTypes
    <2>2. HandSound' /\ HandedSound'
      <3>1. \A q \in Proc : agent'[q].pc = "hand" => agent[q].pc = "hand" /\ agent'[q].todo = agent[q].todo
        BY <1>7, <2>1
      <3>. QED BY <1>1, <1>7, <3>1, MailFrame
    <2>3. p \in Job /\ to.repeated => ledger'[<<0, "any", agent[p].attempt>>] # "none"
      BY <1>3, <1>4, <1>7
    <2>4. to.pc \in {"claim", "hand"} <=> to.todo # <<>>
      BY <1>7
    <2>5. to.pc \in {"claim", "hand", "wrap"} /\ agent[p].pc \in {"claim", "hand"}
      BY <1>1, <1>7
    <2>. QED BY <1>1, <1>5, <1>7, <2>2, <2>3, <2>4, <2>5, MessageMoves
  <1>8. CASE /\ ledger[key] # "none"
             /\ agent' = [agent EXCEPT ![p] = [AfterMessage(p) EXCEPT
                            !.repeated = @ \/ Head(agent[p].todo).channel = "whatsapp"]]
             /\ UNCHANGED ledger
    <2>. DEFINE again == AfterMessage(p).repeated \/ Head(agent[p].todo).channel = "whatsapp"
                to == [AfterMessage(p) EXCEPT !.repeated = again]
    <2>1. agent' = [agent EXCEPT ![p] = to]
      BY <1>8
    <2>2. /\ to \in AgentRow /\ to.todo = AfterMessage(p).todo /\ to.pc = AfterMessage(p).pc
          /\ to.attempt = AfterMessage(p).attempt /\ to.rung = AfterMessage(p).rung
          /\ to.rows = AfterMessage(p).rows /\ to.gate = AfterMessage(p).gate
          /\ to.repeated = again
      <3>1. AfterMessage(p) \in AgentRow /\ again \in BOOLEAN
        BY <1>2, AfterIs
      <3>. HIDE DEF again
      <3>. QED BY <3>1 DEF AgentRow
    <2>. HIDE DEF to
    <2>3. /\ to.todo = Tail(agent[p].todo) /\ to.pc \in {"claim", "wrap"} /\ (to.pc = "claim" <=> to.todo # <<>>)
          /\ to.attempt = agent[p].attempt /\ to.rung = agent[p].rung /\ to.rows = agent[p].rows
          /\ to.gate = agent[p].gate
      BY <1>2, <2>2, AfterIs
    <2>4. to.repeated => agent[p].repeated \/ (ledger[key] # "none" /\ Head(agent[p].todo).channel = "whatsapp")
      BY <1>2, <1>8, <2>2, AfterIs
    <2>. HIDE DEF again
    <2>. QED BY <1>7, <1>8, <2>1, <2>2, <2>3, <2>4
  <1>9. CASE agent' = [agent EXCEPT ![p] = AfterMessage(p)] /\ UNCHANGED ledger
    BY <1>2, <1>7, <1>9, AfterIs
  <1>. QED BY <1>6, <1>8, <1>9 DEF Claim, key

\* The provider takes the message in hand: no other agent holds its key.
LEMMA HandDesk == ASSUME DeskInv, live \in BOOLEAN, NEW p \in Proc, Hand(p) PROVE DeskInv'
  <1>. DEFINE key == Head(agent[p].todo).key
              channel == Head(agent[p].todo).channel
  <1>1. /\ agent[p].pc = "hand" /\ agent[p] \in AgentRow /\ AgentSound(p)
        /\ UNCHANGED <<fans, live, enabled, toggles, bar, answer, actions, orphans>>
    BY DEF Hand, sharedVars, staff, DeskInv, DeskTypes
  <1>2. /\ agent[p].todo # <<>> /\ key \in MessageKey /\ channel \in {"whatsapp", "email"}
        /\ Proper(key, channel)
    BY <1>1, HeadIs
  <1>3. p \in Job /\ agent[p].repeated => ledger[<<0, "any", agent[p].attempt>>] # "none"
    BY <1>1 DEF AgentSound, WordSound
  <1>4. ledger[key] = "queued" /\ handed[key] = {}
    BY <1>1 DEF DeskInv, HandSound
  <1>5. <<0, "any", agent[p].attempt>> \in MessageKey
    BY <1>1 DEF MessageKey, AgentRow
  <1>. HIDE DEF key, channel
  <1>6. ASSUME NEW to \in AgentRow, agent' = [agent EXCEPT ![p] = to],
               to.todo = Tail(agent[p].todo), to.pc \in {"claim", "wrap"}, to.pc = "claim" <=> to.todo # <<>>,
               to.attempt = agent[p].attempt, to.rung = agent[p].rung, to.rows = agent[p].rows,
               to.gate = agent[p].gate, to.repeated = agent[p].repeated,
               NEW mark \in {"sent", "failed"}, ledger' = [ledger EXCEPT ![key] = mark],
               \/ UNCHANGED <<handed, owed>>
               \/ /\ handed' = [handed EXCEPT ![key] = handed[key] \cup {channel}]
                  /\ owed' = IF live THEN owed ELSE owed - 1
        PROVE  DeskInv'
    <2>1. agent'[p] = to /\ \A q \in Proc \ {p} : agent'[q] = agent[q]
      BY <1>6 DEF DeskInv, DeskTypes
    <2>2. /\ ledger' \in [MessageKey -> {"none", "queued", "sent", "failed"}] /\ ledger'[key] = mark
          /\ \A k \in MessageKey : k # key => ledger'[k] = ledger[k]
      BY <1>2, <1>6 DEF DeskInv, DeskTypes
    <2>3. /\ handed' \in [MessageKey -> SUBSET {"whatsapp", "email"}]
          /\ handed'[key] = {} \/ handed'[key] = {channel}
          /\ \A k \in MessageKey : k # key => handed'[k] = handed[k]
      BY <1>2, <1>4, <1>6 DEF DeskInv, DeskTypes
    <2>4. HandSound'
      <3>1. ASSUME NEW q \in Proc, agent'[q].pc = "hand"
            PROVE  /\ ledger'[Head(agent'[q].todo).key] = "queued" /\ handed'[Head(agent'[q].todo).key] = {}
                   /\ \A r \in Proc \ {q} : agent'[r].pc = "hand" => Head(agent'[r].todo).key # Head(agent'[q].todo).key
        <4>1. q # p /\ agent'[q] = agent[q]
          BY <1>6, <2>1, <3>1
        <4>2. Head(agent[q].todo).key \in MessageKey
          BY <3>1, <4>1, HeadIs
        <4>3. Head(agent[q].todo).key # key
          BY <1>1, <3>1, <4>1 DEF DeskInv, HandSound, key
        <4>4. /\ ledger[Head(agent[q].todo).key] = "queued" /\ handed[Head(agent[q].todo).key] = {}
              /\ \A r \in Proc \ {q} : agent[r].pc = "hand" => Head(agent[r].todo).key # Head(agent[q].todo).key
          BY <3>1, <4>1 DEF DeskInv, HandSound
        <4>5. \A r \in Proc \ {q} : agent'[r].pc = "hand" => r # p /\ agent'[r] = agent[r]
          BY <1>6, <2>1
        <4>. QED BY <2>2, <2>3, <4>1, <4>2, <4>3, <4>4, <4>5
      <3>. QED BY <3>1 DEF HandSound
    <2>5. HandedSound'
      <3>1. ASSUME NEW k \in MessageKey
            PROVE  /\ \A c \in handed'[k] : Proper(k, c) /\ ledger'[k] # "none"
                   /\ \A c, d \in handed'[k] : c = d
        <4>1. CASE k = key
          BY <1>2, <1>6, <2>2, <2>3, <4>1
        <4>2. CASE k # key
          BY <2>2, <2>3, <4>2 DEF DeskInv, HandedSound
        <4>. QED BY <4>1, <4>2
      <3>. QED BY <1>1, <3>1 DEF HandedSound, Proper
    <2>6. \A k \in MessageKey : ledger[k] # "none" => ledger'[k] # "none"
      BY <1>6, <2>2
    <2>7. p \in Job /\ to.repeated => ledger'[<<0, "any", agent[p].attempt>>] # "none"
      BY <1>3, <1>5, <1>6, <2>6
    <2>8. to.pc \in {"claim", "hand"} <=> to.todo # <<>>
      BY <1>6
    <2>9. to.pc \in {"claim", "hand", "wrap"} /\ agent[p].pc \in {"claim", "hand"}
      BY <1>1, <1>6
    <2>10. owed' = owed \/ (owed' = owed - 1 /\ ~live /\ to.todo = Tail(agent[p].todo))
      BY <1>6
    <2>. QED BY <1>1, <1>6, <2>2, <2>3, <2>4, <2>5, <2>6, <2>7, <2>8, <2>9, <2>10, MessageMoves
  <1>7. CASE /\ Delivers(Head(agent[p].todo))
             /\ ledger' = [ledger EXCEPT ![key] = "sent"]
             /\ agent' = [agent EXCEPT ![p] = [AfterMessage(p) EXCEPT !.landed = TRUE]]
    <2>. DEFINE to == [AfterMessage(p) EXCEPT !.landed = TRUE]
    <2>1. agent' = [agent EXCEPT ![p] = to]
      BY <1>7
    <2>2. /\ to \in AgentRow /\ to.todo = AfterMessage(p).todo /\ to.pc = AfterMessage(p).pc
          /\ to.attempt = AfterMessage(p).attempt /\ to.rung = AfterMessage(p).rung
          /\ to.rows = AfterMessage(p).rows /\ to.gate = AfterMessage(p).gate
          /\ to.repeated = AfterMessage(p).repeated
      <3>1. AfterMessage(p) \in AgentRow
        BY <1>2, AfterIs
      <3>. QED BY <3>1 DEF AgentRow
    <2>3. /\ handed' = [handed EXCEPT ![key] = handed[key] \cup {channel}]
          /\ owed' = IF live THEN owed ELSE owed - 1
      BY <1>7 DEF Delivers, key, channel
    <2>. HIDE DEF to
    <2>4. /\ to.todo = Tail(agent[p].todo) /\ to.pc \in {"claim", "wrap"} /\ (to.pc = "claim" <=> to.todo # <<>>)
          /\ to.attempt = agent[p].attempt /\ to.rung = agent[p].rung /\ to.rows = agent[p].rows
          /\ to.gate = agent[p].gate /\ to.repeated = agent[p].repeated
      BY <1>2, <2>2, AfterIs
    <2>5. "sent" \in {"sent", "failed"}
      OBVIOUS
    <2>. QED BY <1>6, <1>7, <2>1, <2>2, <2>3, <2>4, <2>5
  <1>8. CASE /\ ledger' = [ledger EXCEPT ![key] = "failed"]
             /\ agent' = [agent EXCEPT ![p] = AfterMessage(p)]
             /\ UNCHANGED <<handed, owed>>
    <2>1. "failed" \in {"sent", "failed"}
      OBVIOUS
    <2>. QED BY <1>2, <1>6, <1>8, <2>1, AfterIs
  <1>. QED BY <1>7, <1>8 DEF Hand, key

\* A process dies: what it had left is dropped, the row it held is an orphan.
LEMMA DieDesk == ASSUME DeskInv, live \in BOOLEAN, NEW p \in Proc, Die(p) PROVE DeskInv'
  <1>1. /\ agent[p].pc \notin {"idle", "done"} /\ agent[p] \in AgentRow /\ AgentSound(p)
        /\ UNCHANGED <<fans, live, enabled, toggles, bar, answer, actions, ledger>>
    BY DEF Die, sharedVars, staff, DeskInv, DeskTypes
  <1>. DEFINE to == IF p \in Job THEN [agent[p] EXCEPT !.pc = "done", !.todo = <<>>]
                    ELSE [Quiet EXCEPT !.rung = IF p = Ladder THEN agent[p].rung ELSE 0]
  <1>2. agent' = [agent EXCEPT ![p] = to]
    BY DEF Die
  <1>3. /\ to \in AgentRow /\ to.todo = <<>> /\ to.pc = (IF p \in Job THEN "done" ELSE "idle")
        /\ p \in Job => /\ to.attempt = agent[p].attempt /\ to.gate = agent[p].gate
                        /\ to.landed = agent[p].landed /\ to.repeated = agent[p].repeated
        /\ p \notin Job => to.rows = {} /\ to.gate = "go"
    <2>1. CASE p \in Job
      BY <1>1, <2>1, QuietIs DEF AgentRow
    <2>2. CASE p \notin Job
      <3>1. (IF p = Ladder THEN agent[p].rung ELSE 0) \in 0..2
        BY <1>1 DEF AgentRow
      <3>. QED BY <2>2, <3>1, QuietIs DEF AgentRow
    <2>. QED BY <2>1, <2>2
  <1>. HIDE DEF to
  <1>4. /\ agent' \in [Proc -> AgentRow] /\ agent'[p] = to /\ \A q \in Proc \ {p} : agent'[q] = agent[q]
    BY <1>2, <1>3 DEF DeskInv, DeskTypes
  <1>. DEFINE key == Head(agent[p].todo).key
              channel == Head(agent[p].todo).channel
  <1>5. \/ UNCHANGED <<handed, owed>>
        \/ /\ agent[p].pc = "hand" /\ handed' = [handed EXCEPT ![key] = handed[key] \cup {channel}]
           /\ owed' = IF live THEN owed ELSE owed - 1
    BY DEF Die, Delivers
  <1>6. agent[p].pc = "hand" =>
          /\ key \in MessageKey /\ channel \in {"whatsapp", "email"} /\ Proper(key, channel)
          /\ handed[key] = {} /\ ledger[key] = "queued" /\ agent[p].todo # <<>> /\ agent[p].todo \in Letters
    BY HeadIs DEF DeskInv, HandSound
  <1>7. \A q \in Proc : agent'[q].pc = "hand" =>
          /\ q # p /\ agent'[q] = agent[q] /\ Head(agent[q].todo).key \in MessageKey
          /\ agent[p].pc = "hand" => Head(agent[q].todo).key # key
    <2>1. ASSUME NEW q \in Proc, agent'[q].pc = "hand"
          PROVE  /\ q # p /\ agent'[q] = agent[q] /\ Head(agent[q].todo).key \in MessageKey
                 /\ agent[p].pc = "hand" => Head(agent[q].todo).key # key
      <3>1. q # p /\ agent'[q] = agent[q]
        BY <1>3, <1>4, <2>1
      <3>2. Head(agent[q].todo).key \in MessageKey
        BY <2>1, <3>1, HeadIs
      <3>. QED BY <2>1, <3>1, <3>2 DEF DeskInv, HandSound
    <2>. QED BY <2>1
  <1>. HIDE DEF key, channel
  <1>8. /\ handed' \in [MessageKey -> SUBSET {"whatsapp", "email"}]
        /\ \A k \in MessageKey : \/ handed'[k] = handed[k]
                                 \/ agent[p].pc = "hand" /\ k = key /\ handed'[k] = {channel}
    BY <1>5, <1>6 DEF DeskInv, DeskTypes
  <1>9. DeskTypes'
    <2>1. owed' \in Int
      BY <1>5 DEF DeskInv, DeskTypes
    <2>. QED BY <1>1, <1>4, <1>8, <2>1 DEF DeskInv, DeskTypes
  <1>10. HandSound'
    <2>1. ASSUME NEW q \in Proc, agent'[q].pc = "hand"
          PROVE  /\ ledger'[Head(agent'[q].todo).key] = "queued" /\ handed'[Head(agent'[q].todo).key] = {}
                 /\ \A r \in Proc \ {q} : agent'[r].pc = "hand" => Head(agent'[r].todo).key # Head(agent'[q].todo).key
      <3>1. /\ agent'[q] = agent[q] /\ Head(agent[q].todo).key \in MessageKey
            /\ agent[p].pc = "hand" => Head(agent[q].todo).key # key
        BY <1>7, <2>1
      <3>2. /\ ledger[Head(agent[q].todo).key] = "queued" /\ handed[Head(agent[q].todo).key] = {}
            /\ \A r \in Proc \ {q} : agent[r].pc = "hand" => Head(agent[r].todo).key # Head(agent[q].todo).key
        BY <2>1, <3>1 DEF DeskInv, HandSound
      <3>3. handed'[Head(agent[q].todo).key] = handed[Head(agent[q].todo).key]
        BY <1>8, <3>1
      <3>. QED BY <1>1, <1>7, <3>1, <3>2, <3>3
    <2>. QED BY <2>1 DEF HandSound
  <1>11. HandedSound'
    <2>1. ASSUME NEW k \in MessageKey
          PROVE  /\ \A c \in handed'[k] : Proper(k, c) /\ ledger[k] # "none"
                 /\ \A c, d \in handed'[k] : c = d
      <3>1. CASE handed'[k] = handed[k]
        BY <3>1 DEF DeskInv, HandedSound
      <3>2. CASE agent[p].pc = "hand" /\ k = key /\ handed'[k] = {channel}
        BY <1>6, <3>2
      <3>. QED BY <1>8, <3>1, <3>2
    <2>. QED BY <1>1, <2>1 DEF HandedSound, Proper
  <1>12. \A q \in Poll : agent'[q].pc \in Holding => agent[q].pc \in Holding /\ RowAt(q)' = RowAt(q)
    <2>1. ASSUME NEW q \in Poll, agent'[q].pc \in Holding PROVE q # p
      BY <1>3, <1>4, <2>1, Roles DEF Holding
    <2>. QED BY <1>4, <2>1, Roles DEF RowAt
  <1>13. OnePollPerRow'
    BY <1>12, HoldersFrame
  <1>14. HeldOrFree'
    <2>1. orphans \subseteq orphans' /\ (p \in Poll /\ agent[p].pc \in Holding => RowAt(p) \in orphans')
      BY DEF Die, Holding
    <2>2. \A q \in Poll : agent[q].pc \in Holding => \/ agent'[q].pc \in Holding /\ RowAt(q)' = RowAt(q)
                                                     \/ RowAt(q) \in orphans'
      BY <1>4, <2>1, Roles DEF RowAt
    <2>. QED BY <1>1, <2>1, <2>2, HeldFrame
  <1>15. CausesKnown'
    BY <1>1 DEF DeskInv, CausesKnown
  <1>16. AgentSound(p)'
    <2>1. InRole(p)' /\ LettersSound(p)'
      <3>1. \A i \in 1..Len(<<>>) : FALSE
        BY EmptySeq
      <3>. QED BY <1>3, <1>4, <3>1, Roles DEF InRole, LettersSound
    <2>2. GateSound(p)'
      BY <1>1, <1>3, <1>4 DEF AgentSound, GateSound
    <2>3. RowsSound(p)'
      BY <1>3, <1>4, Roles DEF RowsSound, Holding
    <2>4. WordSound(p)'
      BY <1>1, <1>3, <1>4 DEF AgentSound, WordSound, Telling
    <2>. QED BY <2>1, <2>2, <2>3, <2>4 DEF AgentSound
  <1>17. InFlight(p)' = 0 /\ InFlight(p) \in 0..2
    BY <1>3, <1>4, EmptySeq, InFlightIs DEF InFlight, DeskInv
  <1>18. agent[p].pc = "hand" => InFlight(p) # 0
    <2>1. agent[p].pc = "hand" => Len(agent[p].todo) \in 1..2
      BY <1>6, TodoFacts
    <2>. QED BY <2>1 DEF InFlight
  <1>19. ~live => \/ InFlight(p)' <= InFlight(p) /\ owed' = owed
                  \/ InFlight(p)' < InFlight(p) /\ owed' = owed - 1
    BY <1>5, <1>17, <1>18
  <1>20. live => owed' = owed
    BY <1>5
  <1>. QED BY <1>1, <1>4, <1>9, <1>10, <1>11, <1>13, <1>14, <1>15, <1>16, <1>19, <1>20, AgentMoves

-----------------------------------------------------------------------------
(* The world.                                                                *)

\* Nobody at the console moves.
LEMMA WorldFrame ==
  ASSUME DeskInv, UNCHANGED <<agent, ledger, handed, answer, fans, orphans>>,
         actions' \in [Action -> ActionRow],
         \A a \in Action : actions'[a].status = actions[a].status /\ actions'[a].claimed = actions[a].claimed,
         owed' \in Int, toggles' \in Nat, toggles > 0 => toggles' > 0, ~live => ~live',
         bar # "none" => bar' # "none" \/ ~live',
         CausesKnown', FlightPaid'
  PROVE  DeskInv'
  <1>1. DeskTypes'
    BY DEF DeskInv, DeskTypes, ActionRow
  <1>2. ASSUME NEW p \in Proc PROVE AgentSound(p)'
    <2>1. p \in Poll /\ agent[p].pc \in Holding => RowAt(p) \in Action
      BY DEF DeskInv, AgentSound, RowsSound
    <2>2. p \in Poll /\ agent[p].pc \in Holding => actions'[RowAt(p)].claimed = actions[RowAt(p)].claimed
      BY <2>1
    <2>. QED BY <2>2, Bystander
  <1>3. HandSound' /\ HandedSound'
    BY MailFrame
  <1>4. \A q \in Poll : RowAt(q)' = RowAt(q)
    BY DEF RowAt
  <1>5. OnePollPerRow'
    BY <1>4, HoldersFrame
  <1>6. HeldOrFree'
    BY <1>4, HeldFrame
  <1>. QED BY <1>1, <1>2, <1>3, <1>5, <1>6 DEF DeskInv

LEMMA FlightStays ==
  ASSUME UNCHANGED <<agent, fans>> PROVE Flight' = Flight
  <1>1. \A p \in Proc : InFlight(p)' = InFlight(p)
    BY DEF InFlight
  <1>. QED BY <1>1 DEF Flight

\* Rows come due, the night and the gap end: none of it is anybody's word.
LEMMA TimeDesk ==
  ASSUME DeskInv, UNCHANGED <<agent, ledger, handed, answer, fans, orphans, owed, toggles, bar, live, enabled>>,
         actions' \in [Action -> ActionRow],
         \A a \in Action : actions'[a].status = actions[a].status /\ actions'[a].claimed = actions[a].claimed
  PROVE  DeskInv'
  <1>1. owed' \in Int /\ toggles' \in Nat
    BY DEF DeskInv, DeskTypes
  <1>2. FlightPaid'
    BY FlightStays DEF DeskInv, FlightPaid
  <1>3. CausesKnown'
    BY DEF DeskInv, CausesKnown
  <1>. QED BY <1>1, <1>2, <1>3, WorldFrame

LEMMA ComesDueDesk == ASSUME DeskInv, NEW a \in Action, ComesDue(a) PROVE DeskInv'
  <1>1. actions \in [Action -> ActionRow]
    BY DEF DeskInv, DeskTypes, ActionRow
  <1>2. actions' = [actions EXCEPT ![a] = [actions[a] EXCEPT !.due = TRUE]]
    BY DEF ComesDue
  <1>3. /\ actions' \in [Action -> ActionRow]
        /\ \A b \in Action : actions'[b].status = actions[b].status /\ actions'[b].claimed = actions[b].claimed
    BY <1>1, <1>2 DEF ActionRow
  <1>. QED BY <1>3, TimeDesk DEF ComesDue, sharedVars, staff

\* A bar comes and may go: that there was one stays known.
LEMMA BarDesk == ASSUME DeskInv, Bar PROVE DeskInv'
  <1>1. /\ UNCHANGED <<agent, ledger, handed, answer, fans, orphans, actions, owed, toggles, live, enabled>>
        /\ bar' # "none"
    BY DEF Bar, sharedVars, staff
  <1>2. actions' \in [Action -> ActionRow] /\ owed' \in Int /\ toggles' \in Nat
    BY <1>1 DEF DeskInv, DeskTypes, ActionRow
  <1>3. FlightPaid'
    BY <1>1, FlightStays DEF DeskInv, FlightPaid
  <1>4. CausesKnown'
    BY <1>1 DEF DeskInv, CausesKnown
  <1>. QED BY <1>1, <1>2, <1>3, <1>4, WorldFrame

\* What is past its gate when the case ends is what is still owed then.
LEMMA CaseEndsDesk == ASSUME DeskInv, CaseEnds PROVE DeskInv'
  <1>1. UNCHANGED <<agent, ledger, handed, answer, fans, orphans, actions, toggles, enabled>> /\ ~live'
    BY DEF CaseEnds, staff
  <1>2. Flight' = Flight
    BY <1>1, FlightStays
  <1>3. IsFiniteSet(Flight) /\ Cardinality(Flight) \in Nat
    BY FS_CardinalityType DEF DeskInv, FlightPaid
  <1>4. owed' = Cardinality(Flight)
    BY DEF CaseEnds
  <1>5. FlightPaid'
    BY <1>1, <1>2, <1>3, <1>4 DEF FlightPaid
  <1>6. CausesKnown'
    BY <1>1 DEF DeskInv, CausesKnown
  <1>7. actions' \in [Action -> ActionRow] /\ owed' \in Int /\ toggles' \in Nat
    BY <1>1, <1>3, <1>4 DEF DeskInv, DeskTypes, ActionRow
  <1>. QED BY <1>1, <1>5, <1>6, <1>7, WorldFrame

LEMMA ToggleDesk == ASSUME DeskInv, Toggle PROVE DeskInv'
  <1>1. UNCHANGED <<agent, ledger, handed, answer, fans, orphans, actions, owed, live, bar>>
    BY DEF Toggle, staff
  <1>2. actions' \in [Action -> ActionRow] /\ owed' \in Int /\ toggles \in Nat /\ toggles' = toggles + 1
    BY <1>1 DEF DeskInv, DeskTypes, ActionRow, Toggle
  <1>3. toggles' \in Nat /\ toggles' > 0
    BY <1>2
  <1>4. FlightPaid'
    BY <1>1, FlightStays DEF DeskInv, FlightPaid
  <1>5. CausesKnown'
    BY <1>3 DEF CausesKnown
  <1>. QED BY <1>1, <1>2, <1>3, <1>4, <1>5, WorldFrame

-----------------------------------------------------------------------------
(* The console.                                                              *)
LEMMA DeskStarts == DeskInit => CallsInv /\ DeskInv
  <1>. SUFFICES ASSUME DeskInit PROVE CallsInv /\ DeskInv
    OBVIOUS
  <1>1. CallsInv
    BY CallsStart DEF DeskInit
  <1>2. agent = [p \in Proc |-> Quiet] /\ \A p \in Proc : agent[p] = Quiet
    BY DEF DeskInit
  <1>3. DeskTypes
    BY <1>2, QuietIs DEF DeskInit, DeskTypes, NoAction
  <1>4. ASSUME NEW p \in Proc PROVE AgentSound(p)
    <2>1. InRole(p) /\ GateSound(p) /\ RowsSound(p)
      BY <1>2, QuietIs DEF InRole, GateSound, RowsSound, Holding
    <2>2. LettersSound(p)
      BY <1>2, QuietIs, EmptySeq DEF LettersSound
    <2>3. WordSound(p)
      BY <1>2, QuietIs DEF WordSound, Telling, DeskInit
    <2>. QED BY <2>1, <2>2, <2>3 DEF AgentSound
  <1>5. HandSound /\ HandedSound
    BY <1>2, QuietIs DEF HandSound, HandedSound, DeskInit
  <1>6. OnePollPerRow
    BY <1>2, QuietIs, Roles DEF OnePollPerRow
  <1>7. HeldOrFree /\ CausesKnown
    BY DEF HeldOrFree, CausesKnown, DeskInit, NoAction
  <1>8. FlightPaid
    <2>1. \A p \in Proc : InFlight(p) = 0
      BY <1>2, QuietIs, EmptySeq DEF InFlight
    <2>2. Flight = {}
      BY <2>1 DEF Flight
    <2>. QED BY <2>2, FS_EmptySet DEF FlightPaid, DeskInit
  <1>. QED BY <1>1, <1>3, <1>4, <1>5, <1>6, <1>7, <1>8 DEF DeskInv

LEMMA DeskSteps == CallsInv /\ DeskInv /\ [DeskNext]_allVars => CallsInv' /\ DeskInv'
  <1>. SUFFICES ASSUME CallsInv, DeskInv, [DeskNext]_allVars PROVE CallsInv' /\ DeskInv'
    OBVIOUS
  <1>0. live \in BOOLEAN /\ enabled \in BOOLEAN /\ faults \in 0..MaxFaults
    BY DEF CallsInv, CallTypes
  <1>1. ASSUME UNCHANGED callVars, live' \in BOOLEAN, enabled' \in BOOLEAN,
               faults' = faults \/ (faults < MaxFaults /\ faults' = faults + 1)
        PROVE  CallsInv'
    <2>1. faults' \in 0..MaxFaults
      BY <1>0, <1>1, CallsAssumption
    <2>. QED BY <1>1, <2>1, CallsFrame
  <1>2. ASSUME NEW j \in Job, JobStep(j) PROVE CallsInv' /\ DeskInv'
    <2>1. UNCHANGED <<sharedVars, callVars>>
      BY <1>2 DEF JobStep, Start, StartLink, StartWrap, GiveUp
    <2>2. CallsInv'
      BY <1>0, <1>1, <2>1 DEF sharedVars
    <2>. QED BY <1>0, <1>2, <2>2, StartDesk, StartLinkDesk, StartWrapDesk, GiveUpDesk DEF JobStep
  <1>3. ASSUME NEW p \in Poll, PollStep(p) PROVE CallsInv' /\ DeskInv'
    <2>1. UNCHANGED <<sharedVars, callVars>>
      BY <1>3 DEF PollStep, PollRead, PollGather, PollDone, PollClaim, PollGate, PollSettle
    <2>2. CallsInv'
      BY <1>0, <1>1, <2>1 DEF sharedVars
    <2>. QED BY <1>0, <1>3, <2>2, PollReadDesk, PollGatherDesk, PollDoneDesk, PollClaimDesk, PollGateDesk,
                PollSettleDesk DEF PollStep
  <1>4. ASSUME NEW p \in Proc, SendStep(p) \/ Die(p) PROVE CallsInv' /\ DeskInv'
    <2>1. CallsInv'
      BY <1>0, <1>1, <1>4 DEF SendStep, Claim, Hand, Die, sharedVars
    <2>. QED BY <1>0, <1>4, <2>1, ClaimDesk, HandDesk, DieDesk DEF SendStep
  <1>5. CASE LadderRung \/ LadderWrap
    <2>1. CallsInv'
      BY <1>0, <1>1, <1>5 DEF LadderRung, LadderWrap, sharedVars
    <2>. QED BY <1>0, <1>5, <2>1, LadderRungDesk, LadderWrapDesk
  <1>6. CASE GapPasses \/ DayBreaks
    <2>1. CallsInv'
      BY <1>0, <1>1, <1>6 DEF GapPasses, DayBreaks, sharedVars
    <2>2. UNCHANGED <<agent, ledger, handed, answer, fans, orphans, owed, toggles, bar, live, enabled, actions>>
      BY <1>6 DEF GapPasses, DayBreaks, sharedVars, staff
    <2>3. actions' \in [Action -> ActionRow]
      BY <2>2 DEF DeskInv, DeskTypes, ActionRow
    <2>. QED BY <2>1, <2>2, <2>3, TimeDesk
  <1>7. ASSUME NEW a \in Action, ComesDue(a) PROVE CallsInv' /\ DeskInv'
    <2>1. CallsInv'
      BY <1>0, <1>1, <1>7 DEF ComesDue, sharedVars
    <2>. QED BY <1>7, <2>1, ComesDueDesk
  <1>8. CASE CaseEnds
    <2>1. CallsInv'
      BY <1>0, <1>1, <1>8 DEF CaseEnds
    <2>. QED BY <1>8, <2>1, CaseEndsDesk
  <1>9. CASE Toggle
    <2>1. CallsInv'
      BY <1>0, <1>1, <1>9 DEF Toggle
    <2>. QED BY <1>9, <2>1, ToggleDesk
  <1>10. CASE CallsNext(shift) /\ UNCHANGED deskVars
    <2>1. CallsInv'
      BY <1>10, CallsStep
    <2>2. UNCHANGED <<live, enabled>>
      BY <1>10 DEF CallsNext, PressStep, RingStep, SyncStep, sharedVars, PressPhone, PressWeb, Confirm, Dial,
           DialUnanswered, WriteRow, RowLost, Answered, HangsUp, EndOfCall, StatusUpdate, SyncFetch, SyncWrite,
           HookLost
    <2>3. UNCHANGED <<agent, ledger, handed, answer, fans, orphans, owed, toggles, bar, actions>>
      BY <1>10 DEF deskVars, staff
    <2>4. actions' \in [Action -> ActionRow]
      BY <2>3 DEF DeskInv, DeskTypes, ActionRow
    <2>. QED BY <2>1, <2>2, <2>3, <2>4, TimeDesk
  <1>11. CASE UNCHANGED allVars
    <2>1. CallsInv'
      BY <1>0, <1>1, <1>11 DEF allVars, sharedVars
    <2>2. UNCHANGED <<agent, ledger, handed, answer, fans, orphans, owed, toggles, bar, live, enabled, actions>>
      BY <1>11 DEF allVars, sharedVars, deskVars, staff
    <2>3. actions' \in [Action -> ActionRow]
      BY <2>2 DEF DeskInv, DeskTypes, ActionRow
    <2>. QED BY <2>1, <2>2, <2>3, TimeDesk
  <1>12. CASE Bar
    <2>1. CallsInv'
      BY <1>0, <1>1, <1>12 DEF Bar, sharedVars
    <2>. QED BY <1>12, <2>1, BarDesk
  <1>. QED BY <1>2, <1>3, <1>4, <1>5, <1>6, <1>7, <1>8, <1>9, <1>10, <1>11, <1>12 DEF DeskNext

\* Along every behaviour of the console its calls are accounted for and its
\* messages are sound.
THEOREM DeskInvariant == DeskSpec => [](CallsInv /\ DeskInv)
  BY DeskStarts, DeskSteps, PTL DEF DeskSpec

-----------------------------------------------------------------------------
(* What the invariant promises.                                              *)
LEMMA AtMostOne ==
  ASSUME NEW S, \A x, y \in S : x = y
  PROVE  Cardinality(S) <= 1
  <1>1. CASE S = {}
    BY <1>1, FS_EmptySet
  <1>2. CASE S # {}
    <2>1. PICK x \in S : TRUE
      BY <1>2
    <2>2. S = {x}
      BY <2>1
    <2>. QED BY <2>2, FS_Singleton
  <1>. QED BY <1>1, <1>2

\* A rung's messages share a key, and a key's message is taken on one channel.
LEMMA RungIsOnce == DeskInv => RungOnce
  <1>. SUFFICES ASSUME DeskInv, NEW rung \in {0, 1}
                PROVE  IF fans /\ rung = 0
                       THEN Cardinality({m \in Taken(rung) : m[2] = "email"}) <= 1
                       ELSE Cardinality(Taken(rung)) <= 1
    BY DEF RungOnce
  <1>1. ASSUME NEW m \in Taken(rung)
        PROVE  /\ m \in MessageKey \X {"whatsapp", "email"} /\ m = <<m[1], m[2]>>
               /\ m[1] \in MessageKey /\ m[1] = <<rung, m[1][2], Unforced>>
               /\ m[2] \in handed[m[1]] /\ Proper(m[1], m[2])
    <2>1. m \in MessageKey \X {"whatsapp", "email"} /\ m[1][1] = rung /\ m[1][3] = Unforced /\ m[2] \in handed[m[1]]
      BY DEF Taken
    <2>2. m = <<m[1], m[2]>> /\ m[1] \in MessageKey
      BY <2>1
    <2>3. m[1] = <<m[1][1], m[1][2], m[1][3]>>
      BY <2>2 DEF MessageKey
    <2>4. Proper(m[1], m[2])
      BY <2>1, <2>2 DEF DeskInv, HandedSound
    <2>. QED BY <2>1, <2>2, <2>3, <2>4
  <1>2. CASE fans /\ rung = 0
    <2>1. ASSUME NEW m \in Taken(rung), m[2] = "email"
          PROVE  m = <<<<0, "email", Unforced>>, "email">>
      <3>1. m[1] = <<rung, m[1][2], Unforced>> /\ Proper(m[1], "email") /\ m = <<m[1], m[2]>>
        BY <1>1, <2>1
      <3>2. m[1][1] = 0
        BY <1>2, <3>1
      <3>3. m[1][2] = "email"
        BY <1>2, <3>1, <3>2 DEF Proper
      <3>. QED BY <1>2, <2>1, <3>1, <3>3
    <2>2. \A x, y \in {m \in Taken(rung) : m[2] = "email"} : x = y
      BY <2>1
    <2>. QED BY <1>2, <2>2, AtMostOne
  <1>3. CASE ~(fans /\ rung = 0)
    <2>1. ASSUME NEW m \in Taken(rung)
          PROVE  m[1] = <<rung, "any", Unforced>>
      <3>1. m[1] = <<rung, m[1][2], Unforced>> /\ Proper(m[1], m[2])
        BY <1>1
      <3>2. m[1][1] = 1 \/ ~fans
        BY <1>3, <3>1 DEF DeskInv, DeskTypes
      <3>3. m[1][2] = "any"
        BY <3>1, <3>2 DEF Proper
      <3>. QED BY <3>1, <3>3
    <2>2. ASSUME NEW x \in Taken(rung), NEW y \in Taken(rung)
          PROVE  x = y
      <3>1. x[1] = y[1] /\ x[1] \in MessageKey /\ x[2] \in handed[x[1]] /\ y[2] \in handed[x[1]]
        BY <1>1, <2>1
      <3>2. x[2] = y[2]
        BY <3>1 DEF DeskInv, HandedSound
      <3>3. x = <<x[1], x[2]>> /\ y = <<y[1], y[2]>>
        BY <1>1
      <3>. QED BY <3>1, <3>2, <3>3
    <2>3. Cardinality(Taken(rung)) <= 1
      BY <2>2, AtMostOne
    <2>. QED BY <1>3, <2>3
  <1>. QED BY <1>2, <1>3

LEMMA EndedOwes == DeskInv => EndedIsSilent
  <1>. SUFFICES ASSUME DeskInv PROVE owed >= 0
    BY DEF EndedIsSilent
  <1>1. Cardinality(Flight) \in Nat /\ owed \in Int
    BY FS_CardinalityType DEF DeskInv, FlightPaid, DeskTypes
  <1>. QED BY <1>1 DEF DeskInv, FlightPaid

LEMMA AnswersAre == CallsInv /\ DeskInv => AnswersHonest
  <1>. SUFFICES ASSUME CallsInv, DeskInv PROVE AnswersHonest
    OBVIOUS
  <1>1. DeskTypeOK
    BY DEF DeskInv, DeskTypes, DeskTypeOK, AgentRow, Letters, Letter, CallsInv, CallTypes, CallState
  <1>2. AnswerHonest
    <2>1. ASSUME NEW j \in Job
          PROVE  /\ answer[j] = "ok" => \/ agent[j].landed
                                        \/ ~fans /\ actions[<<1, agent[j].attempt>>] # NoAction
                 /\ answer[j] \in {"no", "already"} => ~agent[j].landed
                 /\ answer[j] = "already" => ledger[<<0, "any", agent[j].attempt>>] # "none"
      <3>1. WordSound(j)
        BY Roles DEF DeskInv, AgentSound
      <3>. QED BY <3>1 DEF WordSound, NoAction
    <2>. QED BY <2>1 DEF AnswerHonest
  <1>3. SkippedForCause /\ HeldOrFree
    BY DEF DeskInv, CausesKnown, SkippedForCause
  <1>. QED BY <1>1, <1>2, <1>3 DEF AnswersHonest

\* A start by hand, the overlapping polls of the page and the ladder run on one
\* key space (the send path's idempotency key): for any number of them, wherever
\* one of them dies, a rung that nobody forces reaches the customer once, one
\* poll at most is past the claim of a follow-up, and an ended case lets go out
\* only what was past its gate when it ended.
THEOREM OncePerAskAlways == DeskSpec => []OncePerAsk
  <1>1. DeskInv => OncePerAsk
    BY RungIsOnce, EndedOwes DEF OncePerAsk, DeskInv
  <1>. QED BY <1>1, DeskInvariant, PTL

\* What the route that starts a recovery tells in time is what its run did, a
\* follow-up is skipped only on an ended case or for a merchant who paused, and
\* a claimed one is held by a poll at work or by one that died.
THEOREM AnswersHonestAlways == DeskSpec => []AnswersHonest
  BY AnswersAre, DeskInvariant, PTL

\* However many presses, syncs and webhooks of the calls overlap, and whichever
\* of them is lost: the per-case limit is passed only by as many calls as presses
\* overlapped or rows were lost, no row says that a call is over while it goes on,
\* and every call that rang for a case is counted once its webhooks are in.
THEOREM CallsCountedAlways == DeskSpec => []CallsCounted
  BY CallsTold, DeskInvariant, PTL
=============================================================================
