---------------------------- MODULE LogRingProofs ----------------------------
(***************************************************************************)
(* Theorems about LogRing, for any capacity, any threads and any bound.    *)
(***************************************************************************)
EXTENDS LogRing, TLAPS

USE LogRingAssumption DEF Slots

(* The slot of the k-th newest entry, and what is known of the ring at each *)
(* step of the thread that holds the lock.                                  *)
Slot(k) == (head + capacity - k) % capacity

HolderInv == \A t \in Threads : pc[t] # "idle" <=> lock = t

Counted == count = Smaller(Len(pushed), capacity)

Holds(k, d) == buffer[Slot(k + d)] = pushed[Len(pushed) - k + 1]

Whole == \A k \in 1 .. count : Holds(k, 0)
Copied(t) == /\ buffer[head] = entry[t]
             /\ \A k \in 1 .. Smaller(count, capacity - 1) : Holds(k, 0)
Advanced(t) == /\ buffer[Slot(1)] = entry[t]
               /\ \A k \in 1 .. Smaller(count, capacity - 1) : Holds(k, 1)

RingInv == /\ Counted
           /\ lock = NoThread => Whole
           /\ \A t \in Threads :
                /\ pc[t] \in {"copy", "read"} => Whole
                /\ pc[t] = "head" => Copied(t)
                /\ pc[t] = "count" => Advanced(t)

Reader(t) ==
  /\ start_idx[t] = Slot(ToCopy(t)) /\ Len(out[t]) <= ToCopy(t)
  /\ \A k \in 1 .. Len(out[t]) : out[t][k] = pushed[Len(pushed) - ToCopy(t) + k]

GetInv == \A t \in Threads : pc[t] = "read" => Reader(t)

IInv == TypeOK /\ HolderInv /\ RingInv /\ GetInv

-----------------------------------------------------------------------------
(* Index arithmetic: what % gives for a sum of two indices.                 *)
LEMMA Wraps ==
  ASSUME NEW a \in 0 .. 2 * capacity - 1
  PROVE a % capacity = IF a < capacity THEN a ELSE a - capacity
  <1>1. CASE a < capacity  BY <1>1, SMT
  <1>2. CASE capacity <= a  BY <1>2, SMT
  <1> QED  BY <1>1, <1>2

LEMMA SlotIs ==
  ASSUME head \in Slots, NEW k \in 0 .. capacity
  PROVE /\ Slot(k) = IF k <= head THEN head - k ELSE head + capacity - k
        /\ Slot(k) \in Slots
  <1>1. head + capacity - k \in 0 .. 2 * capacity - 1  OBVIOUS
  <1>2. CASE k <= head  BY <1>1, <1>2, Wraps DEF Slot
  <1>3. CASE ~(k <= head)  BY <1>1, <1>3, Wraps DEF Slot
  <1> QED  BY <1>2, <1>3

LEMMA SuccIs ==
  ASSUME head \in Slots
  PROVE /\ Succ(head) = IF head = capacity - 1 THEN 0 ELSE head + 1
        /\ Succ(head) \in Slots
  <1>1. head + 1 \in 0 .. 2 * capacity - 1  OBVIOUS
  <1> QED  BY <1>1, Wraps DEF Succ

(* The steps, by name.                                                      *)
LEMMA Steps ==
  ASSUME Next
  PROVE \E t \in Threads :
          \/ \E e \in Entries : BeginPush(t, e)
          \/ CopyIn(t) \/ Advance(t) \/ EndPush(t)
          \/ \E m \in Asked : BeginGet(t, m)
          \/ CopyOut(t) \/ EndGet(t)
  BY DEF Next, Push, Get

-----------------------------------------------------------------------------
LEMMA InitInv == Init => IInv
  <1> SUFFICES ASSUME Init PROVE IInv  OBVIOUS
  <1>1. TypeOK  BY DEF Init, TypeOK
  <1>2. HolderInv  BY DEF Init, HolderInv
  <1>3. RingInv  BY DEF Init, RingInv, Counted, Whole, Smaller
  <1>4. GetInv  BY DEF Init, GetInv
  <1> QED  BY <1>1, <1>2, <1>3, <1>4 DEF IInv

LEMMA TypeStep ==
  ASSUME TypeOK, [Next]_vars
  PROVE TypeOK'
  <1> USE DEF TypeOK
  <1>0. CASE UNCHANGED vars  BY <1>0 DEF vars, ring, get
  <1>n. CASE Next
    <2> PICK t \in Threads :
          \/ \E e \in Entries : BeginPush(t, e)
          \/ CopyIn(t) \/ Advance(t) \/ EndPush(t)
          \/ \E m \in Asked : BeginGet(t, m)
          \/ CopyOut(t) \/ EndGet(t)
      BY <1>n, Steps
    <2>1. ASSUME NEW e \in Entries, BeginPush(t, e) PROVE TypeOK'
      BY <2>1 DEF BeginPush, Lock, GoTo, ring, get
    <2>2. CASE CopyIn(t)  BY <2>2 DEF CopyIn, GoTo, get
    <2>3. CASE Advance(t)  BY <2>3, SuccIs DEF Advance, GoTo, get
    <2>4. CASE EndPush(t)  BY <2>4 DEF EndPush, GoTo, get
    <2>5. ASSUME NEW m \in Asked, BeginGet(t, m) PROVE TypeOK'
      <3>1. StartFrom(m) \in Slots
        <4>1. Oldest \in Slots  BY SlotIs DEF Oldest, Slot
        <4>2. CASE m < count
          <5>1. Oldest + (count - m) \in 0 .. 2 * capacity - 1  BY <4>1, <4>2
          <5> QED  BY <5>1, <4>1, <4>2, Wraps DEF StartFrom
        <4>3. CASE ~(m < count)  BY <4>1, <4>3 DEF StartFrom
        <4> QED  BY <4>2, <4>3
      <3> QED  BY <2>5, <3>1 DEF BeginGet, Lock, GoTo, ring
    <2>6. CASE CopyOut(t)
      <3>1. (start_idx[t] + Len(out[t])) % capacity \in Slots
        <4>1. /\ start_idx[t] \in Slots /\ max_count[t] \in Nat
              /\ count \in 0 .. capacity /\ Len(out[t]) \in Nat
          OBVIOUS
        <4>2. Len(out[t]) < ToCopy(t)  BY <2>6 DEF CopyOut
        <4>3. ToCopy(t) <= capacity  BY <4>1 DEF ToCopy
        <4>4. start_idx[t] + Len(out[t]) \in 0 .. 2 * capacity - 1
          BY <4>1, <4>2, <4>3 DEF ToCopy
        <4> HIDE DEF TypeOK
        <4>5. ASSUME NEW a \in 0 .. 2 * capacity - 1 PROVE a % capacity \in Slots
          BY Wraps
        <4> QED  BY <4>4, <4>5
      <3> DEFINE e == buffer[(start_idx[t] + Len(out[t])) % capacity]
      <3>2. e \in Entries \cup {NoEntry}  BY <3>1
      <3>3. out' = [out EXCEPT ![t] = Append(out[t], e)]  BY <2>6 DEF CopyOut
      <3> HIDE DEF e
      <3>4. out' \in [Threads -> Seq(Entries \cup {NoEntry})]  BY <3>2, <3>3
      <3> QED  BY <2>6, <3>4 DEF CopyOut, ring
    <2>7. CASE EndGet(t)  BY <2>7 DEF EndGet, GoTo, ring
    <2> QED  BY <2>1, <2>2, <2>3, <2>4, <2>5, <2>6, <2>7
  <1> QED  BY <1>0, <1>n

LEMMA HolderStep ==
  ASSUME TypeOK, HolderInv, [Next]_vars
  PROVE HolderInv'
  <1> USE DEF HolderInv
  <1>0. CASE UNCHANGED vars  BY <1>0 DEF vars
  <1>n. CASE Next
    <2> PICK t \in Threads :
          \/ \E e \in Entries : BeginPush(t, e)
          \/ CopyIn(t) \/ Advance(t) \/ EndPush(t)
          \/ \E m \in Asked : BeginGet(t, m)
          \/ CopyOut(t) \/ EndGet(t)
      BY <1>n, Steps
    <2>0. pc \in [Threads -> {"idle", "copy", "head", "count", "read"}]  BY DEF TypeOK
    <2>1. ASSUME NEW e \in Entries, BeginPush(t, e) PROVE HolderInv'
      BY <2>0, <2>1 DEF BeginPush, Lock, GoTo
    <2>2. CASE CopyIn(t)  BY <2>0, <2>2 DEF CopyIn, GoTo
    <2>3. CASE Advance(t)  BY <2>0, <2>3 DEF Advance, GoTo
    <2>4. CASE EndPush(t)  BY <2>0, <2>4 DEF EndPush, GoTo
    <2>5. ASSUME NEW m \in Asked, BeginGet(t, m) PROVE HolderInv'
      BY <2>0, <2>5 DEF BeginGet, Lock, GoTo
    <2>6. CASE CopyOut(t)  BY <2>6 DEF CopyOut
    <2>7. CASE EndGet(t)  BY <2>0, <2>7 DEF EndGet, GoTo
    <2> QED  BY <2>1, <2>2, <2>3, <2>4, <2>5, <2>6, <2>7
  <1> QED  BY <1>0, <1>n

-----------------------------------------------------------------------------
(* What the holder of the lock does moves the picture on; nobody else is    *)
(* inside.                                                                  *)
LEMMA Alone ==
  ASSUME HolderInv, NEW t \in Threads, pc[t] # "idle", NEW u \in Threads, u # t
  PROVE pc[u] = "idle"
  BY DEF HolderInv

LEMMA WholeSame ==
  ASSUME Counted, Whole, UNCHANGED <<ring, pushed>>
  PROVE Counted' /\ Whole'
  BY DEF Counted, Whole, Holds, Slot, ring

LEMMA BeginKeepsRing ==
  ASSUME TypeOK, HolderInv, RingInv, NEW t \in Threads, lock = NoThread,
         lock' = t, UNCHANGED <<ring, pushed>>,
         NEW s \in {"copy", "read"}, pc' = [pc EXCEPT ![t] = s]
  PROVE RingInv'
  <1>1. Counted' /\ Whole'  BY WholeSame DEF RingInv
  <1>2. pc \in [Threads -> {"idle", "copy", "head", "count", "read"}]  BY DEF TypeOK
  <1>3. \A u \in Threads : pc'[u] \notin {"head", "count"}
    BY <1>2 DEF HolderInv
  <1> QED  BY <1>1, <1>3 DEF RingInv

LEMMA CopyInKeepsRing ==
  ASSUME TypeOK, HolderInv, RingInv, NEW t \in Threads, CopyIn(t)
  PROVE RingInv'
  <1>1. /\ pc[t] = "copy" /\ pc' = [pc EXCEPT ![t] = "head"] /\ lock = t
        /\ buffer' = [buffer EXCEPT ![head] = entry[t]]
        /\ UNCHANGED <<head, count, lock, entry, pushed>>
    BY DEF CopyIn, GoTo, get, HolderInv
  <1>2. /\ head \in Slots /\ count \in 0 .. capacity
        /\ buffer \in [Slots -> Entries \cup {NoEntry}]
        /\ pc \in [Threads -> {"idle", "copy", "head", "count", "read"}]
    BY DEF TypeOK
  <1>3. Counted'  BY <1>1 DEF RingInv, Counted
  <1>4. Whole  BY <1>1 DEF RingInv
  <1>5. Copied(t)'
    <2>1. buffer'[head] = entry[t]  BY <1>1, <1>2
    <2>2. ASSUME NEW k \in 1 .. Smaller(count, capacity - 1) PROVE Holds(k, 0)'
      <3>1. k \in 1 .. count /\ k < capacity  BY <1>2 DEF Smaller
      <3>2. Slot(k) \in Slots /\ Slot(k) # head  BY <1>2, <3>1, SlotIs
      <3>3. Holds(k, 0) /\ k + 0 = k  BY <1>4, <3>1 DEF Whole
      <3>4. Slot(k)' = Slot(k)  BY <1>1 DEF Slot
      <3>5. buffer'[Slot(k)] = buffer[Slot(k)]  BY <1>1, <1>2, <3>2
      <3> QED  BY <1>1, <3>3, <3>4, <3>5 DEF Holds
    <2> QED  BY <1>1, <2>1, <2>2 DEF Copied
  <1>6. \A u \in Threads : u # t => pc'[u] = "idle"  BY <1>1, <1>2, Alone
  <1>7. pc'[t] = "head" /\ lock' # NoThread  BY <1>1, <1>2
  <1> QED  BY <1>3, <1>5, <1>6, <1>7 DEF RingInv

LEMMA AdvanceKeepsRing ==
  ASSUME TypeOK, HolderInv, RingInv, NEW t \in Threads, Advance(t)
  PROVE RingInv'
  <1>1. /\ pc[t] = "head" /\ pc' = [pc EXCEPT ![t] = "count"] /\ lock = t
        /\ head' = Succ(head)
        /\ UNCHANGED <<buffer, count, lock, entry, pushed>>
    BY DEF Advance, GoTo, get, HolderInv
  <1>2. /\ head \in Slots /\ count \in 0 .. capacity
        /\ pc \in [Threads -> {"idle", "copy", "head", "count", "read"}]
    BY DEF TypeOK
  <1>3. Counted'  BY <1>1 DEF RingInv, Counted
  <1>4. Copied(t)  BY <1>1 DEF RingInv
  <1>5. ASSUME NEW k \in 0 .. capacity - 1 PROVE Slot(k + 1)' = Slot(k)
    <2>1. /\ head' = IF head = capacity - 1 THEN 0 ELSE head + 1
          /\ head' \in Slots
      BY <1>1, <1>2, SuccIs
    <2>2. Slot(k) = IF k <= head THEN head - k ELSE head + capacity - k
      BY <1>2, SlotIs
    <2> DEFINE a == head' + capacity - (k + 1)
    <2>3. a \in 0 .. 2 * capacity - 1  BY <2>1
    <2>4. Slot(k + 1)' = a % capacity  BY DEF Slot
    <2> HIDE DEF a
    <2>5. a % capacity = IF a < capacity THEN a ELSE a - capacity  BY <2>3, Wraps
    <2> QED  BY <1>2, <2>1, <2>2, <2>4, <2>5 DEF a
  <1>6. Advanced(t)'
    <2>1. Slot(0) = head  BY <1>2, SlotIs
    <2>2. Slot(1)' = head  BY <1>5, <2>1
    <2>3. ASSUME NEW k \in 1 .. Smaller(count, capacity - 1) PROVE Holds(k, 1)'
      <3>1. k \in 0 .. capacity - 1  BY <1>2 DEF Smaller
      <3>2. Holds(k, 0) /\ k + 0 = k  BY <1>4, <3>1 DEF Copied
      <3> QED  BY <1>1, <1>5, <3>1, <3>2 DEF Holds
    <2> QED  BY <1>1, <1>4, <2>2, <2>3 DEF Advanced, Copied
  <1>7. \A u \in Threads : u # t => pc'[u] = "idle"  BY <1>1, <1>2, Alone
  <1>8. pc'[t] = "count" /\ lock' # NoThread  BY <1>1, <1>2
  <1> QED  BY <1>3, <1>6, <1>7, <1>8 DEF RingInv

LEMMA EndPushKeepsRing ==
  ASSUME TypeOK, HolderInv, RingInv, NEW t \in Threads, EndPush(t)
  PROVE RingInv'
  <1>1. /\ pc[t] = "count" /\ pc' = [pc EXCEPT ![t] = "idle"] /\ lock = t
        /\ count' = IF count < capacity THEN count + 1 ELSE count
        /\ pushed' = Append(pushed, entry[t])
        /\ UNCHANGED <<buffer, head>>
    BY DEF EndPush, GoTo, get, HolderInv
  <1>2. /\ head \in Slots /\ count \in 0 .. capacity
        /\ pc \in [Threads -> {"idle", "copy", "head", "count", "read"}]
        /\ pushed \in Seq(Entries \cup {NoEntry})
        /\ entry[t] \in Entries \cup {NoEntry}
    BY DEF TypeOK
  <1>3. /\ Len(pushed') = Len(pushed) + 1 /\ pushed'[Len(pushed) + 1] = entry[t]
        /\ \A i \in 1 .. Len(pushed) : pushed'[i] = pushed[i]
    BY <1>1, <1>2
  <1>4. Advanced(t) /\ count = Smaller(Len(pushed), capacity) /\ Len(pushed) \in Nat
    BY <1>1, <1>2 DEF RingInv, Counted
  <1>5. Counted'  BY <1>1, <1>2, <1>3, <1>4 DEF Counted, Smaller
  <1>6. Whole'
    <2> SUFFICES ASSUME NEW k \in 1 .. count' PROVE Holds(k, 0)'  BY DEF Whole
    <2>0. k \in 1 .. capacity /\ count' \in 0 .. capacity  BY <1>1, <1>2
    <2>1. Slot(k)' = Slot(k) /\ k + 0 = k  BY <1>1, <2>0 DEF Slot
    <2>2. CASE k = 1  BY <1>1, <1>3, <1>4, <2>1, <2>2 DEF Holds, Advanced
    <2>3. CASE k # 1
      <3>1. k - 1 \in 1 .. Smaller(count, capacity - 1)
        BY <1>1, <1>2, <2>0, <2>3 DEF Smaller
      <3>2. Holds(k - 1, 1) /\ (k - 1) + 1 = k  BY <1>4, <2>0, <3>1 DEF Advanced
      <3>3. Len(pushed) - (k - 1) + 1 \in 1 .. Len(pushed)
        BY <1>2, <1>4, <2>0, <2>3, <3>1 DEF Smaller
      <3>4. Len(pushed') - k + 1 = Len(pushed) - (k - 1) + 1  BY <1>3, <1>4, <2>0
      <3> QED  BY <1>1, <1>3, <2>1, <3>2, <3>3, <3>4 DEF Holds
    <2> QED  BY <2>2, <2>3
  <1>7. \A u \in Threads : pc'[u] = "idle"  BY <1>1, <1>2, Alone
  <1> QED  BY <1>5, <1>6, <1>7 DEF RingInv

LEMMA RingStep ==
  ASSUME TypeOK, HolderInv, RingInv, [Next]_vars
  PROVE RingInv'
  <1>0. CASE UNCHANGED vars
    BY <1>0 DEF vars, ring, RingInv, Counted, Whole, Copied, Advanced, Holds, Slot
  <1>n. CASE Next
    <2> PICK t \in Threads :
          \/ \E e \in Entries : BeginPush(t, e)
          \/ CopyIn(t) \/ Advance(t) \/ EndPush(t)
          \/ \E m \in Asked : BeginGet(t, m)
          \/ CopyOut(t) \/ EndGet(t)
      BY <1>n, Steps
    <2>1. ASSUME NEW e \in Entries, BeginPush(t, e) PROVE RingInv'
      BY <2>1, BeginKeepsRing DEF BeginPush, Lock, GoTo
    <2>2. CASE CopyIn(t)  BY <2>2, CopyInKeepsRing
    <2>3. CASE Advance(t)  BY <2>3, AdvanceKeepsRing
    <2>4. CASE EndPush(t)  BY <2>4, EndPushKeepsRing
    <2>5. ASSUME NEW m \in Asked, BeginGet(t, m) PROVE RingInv'
      BY <2>5, BeginKeepsRing DEF BeginGet, Lock, GoTo
    <2>6. CASE CopyOut(t)
      BY <2>6 DEF CopyOut, ring, RingInv, Counted, Whole, Copied, Advanced, Holds, Slot
    <2>7. CASE EndGet(t)
      <3>1. /\ pc[t] = "read" /\ pc' = [pc EXCEPT ![t] = "idle"]
            /\ UNCHANGED <<ring, pushed>>
        BY <2>7 DEF EndGet, GoTo
      <3>2. pc \in [Threads -> {"idle", "copy", "head", "count", "read"}]
        BY DEF TypeOK
      <3>3. Counted' /\ Whole'  BY <3>1, WholeSame DEF RingInv
      <3>4. \A u \in Threads : pc'[u] = "idle"  BY <3>1, <3>2, Alone
      <3> QED  BY <3>3, <3>4 DEF RingInv
    <2> QED  BY <2>1, <2>2, <2>3, <2>4, <2>5, <2>6, <2>7
  <1> QED  BY <1>0, <1>n

-----------------------------------------------------------------------------
(* StartFrom counts back from the newest entry.                             *)
LEMMA StartIs ==
  ASSUME TypeOK, NEW m \in Asked
  PROVE StartFrom(m) = Slot(Smaller(m, count))
  <1>1. /\ head \in Slots /\ count \in 0 .. capacity /\ m \in Nat \ {0}
        /\ Oldest = Slot(count)
    BY DEF TypeOK, Oldest, Slot
  <1>2. CASE m < count
    <2>1. Oldest = IF count <= head THEN head - count ELSE head + capacity - count
      BY <1>1, SlotIs
    <2>2. Slot(m) = IF m <= head THEN head - m ELSE head + capacity - m
      BY <1>1, <1>2, SlotIs
    <2> DEFINE a == Oldest + (count - m)
    <2>3. a \in 0 .. 2 * capacity - 1  BY <1>1, <1>2, <2>1
    <2>4. StartFrom(m) = a % capacity /\ Smaller(m, count) = m
      BY <1>2 DEF StartFrom, Smaller
    <2> HIDE DEF a
    <2>5. a % capacity = IF a < capacity THEN a ELSE a - capacity  BY <2>3, Wraps
    <2> QED  BY <1>1, <1>2, <2>1, <2>2, <2>4, <2>5 DEF a
  <1>3. CASE ~(m < count)  BY <1>1, <1>3 DEF StartFrom, Smaller
  <1> QED  BY <1>2, <1>3

LEMMA BeginGetReads ==
  ASSUME TypeOK, HolderInv, NEW t \in Threads, NEW m \in Asked, BeginGet(t, m)
  PROVE GetInv'
  <1>1. /\ lock = NoThread /\ pc' = [pc EXCEPT ![t] = "read"]
        /\ max_count'[t] = m /\ start_idx'[t] = StartFrom(m) /\ out'[t] = <<>>
        /\ UNCHANGED <<head, count, pushed>>
    BY DEF BeginGet, Lock, GoTo, ring, TypeOK
  <1>2. pc \in [Threads -> {"idle", "copy", "head", "count", "read"}] /\ m \in Nat
        /\ count \in Nat
    BY DEF TypeOK
  <1>3. \A u \in Threads : u # t => pc'[u] # "read"  BY <1>1, <1>2 DEF HolderInv
  <1>4. ToCopy(t)' = Smaller(m, count)  BY <1>1, <1>2 DEF ToCopy, Smaller
  <1>5. start_idx'[t] = Slot(ToCopy(t))'  BY <1>1, <1>4, StartIs DEF Slot
  <1>6. Len(out'[t]) = 0 /\ ToCopy(t)' \in Nat  BY <1>1, <1>2, <1>4 DEF Smaller
  <1>7. Reader(t)'  BY <1>5, <1>6 DEF Reader
  <1> QED  BY <1>3, <1>7 DEF GetInv

LEMMA CopyOutReads ==
  ASSUME TypeOK, HolderInv, RingInv, GetInv, NEW t \in Threads, CopyOut(t)
  PROVE GetInv'
  <1> DEFINE n == Len(out[t])
             T == ToCopy(t)
             L == Len(pushed)
  <1>1. /\ pc[t] = "read" /\ n < T
        /\ out' = [out EXCEPT
                     ![t] = Append(out[t], buffer[(start_idx[t] + n) % capacity])]
        /\ UNCHANGED <<buffer, head, count, pc, max_count, start_idx, pushed>>
    BY DEF CopyOut, ring
  <1>2. /\ head \in Slots /\ count \in 0 .. capacity /\ max_count[t] \in Nat
        /\ out \in [Threads -> Seq(Entries \cup {NoEntry})]
        /\ out[t] \in Seq(Entries \cup {NoEntry}) /\ n \in Nat /\ L \in Nat
        /\ buffer \in [Slots -> Entries \cup {NoEntry}]
    BY DEF TypeOK
  <1>3. Reader(t) /\ Whole  BY <1>1 DEF GetInv, RingInv
  <1>4. T \in 1 .. count  BY <1>1, <1>2 DEF ToCopy
  <1>5. T - n \in 1 .. count  BY <1>1, <1>2, <1>4
  <1>6. (start_idx[t] + n) % capacity = Slot(T - n)
    <2>1. start_idx[t] = Slot(T)  BY <1>3 DEF Reader
    <2> DEFINE a == Slot(T) + n
               d == T - n
    <2> HIDE DEF n, T, d
    <2>2. T \in 0 .. capacity /\ d \in 0 .. capacity /\ d = T - n
      BY <1>2, <1>4, <1>5 DEF d
    <2>3. Slot(T) = IF T <= head THEN head - T ELSE head + capacity - T
      BY <1>2, <2>2, SlotIs
    <2>4. Slot(d) = IF d <= head THEN head - d ELSE head + capacity - d
      BY <1>2, <2>2, SlotIs
    <2>5. a \in 0 .. 2 * capacity - 1  BY <1>1, <1>2, <2>2, <2>3
    <2> HIDE DEF a
    <2>6. a % capacity = IF a < capacity THEN a ELSE a - capacity  BY <2>5, Wraps
    <2>7. a % capacity = Slot(d)  BY <1>2, <2>2, <2>3, <2>4, <2>6 DEF a
    <2> QED  BY <2>1, <2>7 DEF a, d
  <1>7. buffer[Slot(T - n)] = pushed[L - T + (n + 1)]
    <2>1. Holds(T - n, 0) /\ (T - n) + 0 = T - n  BY <1>3, <1>5 DEF Whole
    <2>2. L - (T - n) + 1 = L - T + (n + 1)  BY <1>2, <1>4
    <2> QED  BY <2>1, <2>2 DEF Holds
  <1>8. Slot(T - n) \in Slots  BY <1>2, <1>5, SlotIs
  <1>9. /\ Len(out'[t]) = n + 1 /\ out'[t][n + 1] = buffer[Slot(T - n)]
        /\ \A k \in 1 .. n : out'[t][k] = out[t][k]
    <2> DEFINE e == buffer[Slot(T - n)]
    <2>1. e \in Entries \cup {NoEntry}  BY <1>2, <1>8
    <2>2. out'[t] = Append(out[t], e)  BY <1>1, <1>2, <1>6
    <2> HIDE DEF e
    <2>3. /\ Len(out'[t]) = n + 1 /\ out'[t][n + 1] = e
          /\ \A k \in 1 .. n : out'[t][k] = out[t][k]
      BY <1>2, <2>1, <2>2
    <2> QED  BY <2>3 DEF e
  <1>10. Reader(t)'
    <2>1. T' = T /\ L' = L /\ start_idx'[t] = Slot(T)'
      BY <1>1, <1>3 DEF ToCopy, Slot, Reader
    <2>2. Len(out'[t]) <= T  BY <1>1, <1>2, <1>4, <1>9
    <2>3. ASSUME NEW k \in 1 .. Len(out'[t])
          PROVE out'[t][k] = pushed[L - T + k]
      <3>1. CASE k = n + 1  BY <1>7, <1>9, <3>1
      <3>2. CASE k # n + 1
        <4>1. k \in 1 .. n  BY <1>2, <1>9, <3>2
        <4> QED  BY <1>3, <1>9, <4>1 DEF Reader
      <3> QED  BY <3>1, <3>2
    <2> QED  BY <1>1, <2>1, <2>2, <2>3 DEF Reader
  <1>11. \A u \in Threads : u # t => pc'[u] = "idle"  BY <1>1, Alone
  <1> QED  BY <1>10, <1>11 DEF GetInv

LEMMA GetStep ==
  ASSUME TypeOK, HolderInv, RingInv, GetInv, [Next]_vars
  PROVE GetInv'
  <1>0. CASE UNCHANGED vars
    BY <1>0 DEF vars, ring, get, GetInv, Reader, Slot, ToCopy
  <1>n. CASE Next
    <2> PICK t \in Threads :
          \/ \E e \in Entries : BeginPush(t, e)
          \/ CopyIn(t) \/ Advance(t) \/ EndPush(t)
          \/ \E m \in Asked : BeginGet(t, m)
          \/ CopyOut(t) \/ EndGet(t)
      BY <1>n, Steps
    <2>0. pc \in [Threads -> {"idle", "copy", "head", "count", "read"}]  BY DEF TypeOK
    <2>1. ASSUME NEW e \in Entries, BeginPush(t, e) PROVE GetInv'
      <3>1. \A u \in Threads : pc'[u] # "read"
        BY <2>0, <2>1 DEF BeginPush, Lock, GoTo, HolderInv
      <3> QED  BY <3>1 DEF GetInv
    <2>2. ASSUME pc[t] # "idle", pc'[t] # "read",
                 \A u \in Threads : u # t => pc'[u] = pc[u]
          PROVE GetInv'
      BY <2>2, Alone DEF GetInv
    <2>3. CASE CopyIn(t)  BY <2>0, <2>2, <2>3 DEF CopyIn, GoTo
    <2>4. CASE Advance(t)  BY <2>0, <2>2, <2>4 DEF Advance, GoTo
    <2>5. CASE EndPush(t)  BY <2>0, <2>2, <2>5 DEF EndPush, GoTo
    <2>6. ASSUME NEW m \in Asked, BeginGet(t, m) PROVE GetInv'
      BY <2>6, BeginGetReads
    <2>7. CASE CopyOut(t)  BY <2>7, CopyOutReads
    <2>8. CASE EndGet(t)  BY <2>0, <2>2, <2>8 DEF EndGet, GoTo
    <2> QED  BY <2>1, <2>3, <2>4, <2>5, <2>6, <2>7, <2>8
  <1> QED  BY <1>0, <1>n

-----------------------------------------------------------------------------
LEMMA InvStep ==
  ASSUME IInv, [Next]_vars
  PROVE IInv'
  BY TypeStep, HolderStep, RingStep, GetStep DEF IInv

(* The inductive invariant.                                                 *)
THEOREM Invariant == Spec => []IInv
  <1>1. IInv /\ [Next]_vars => IInv'  BY InvStep
  <1> QED  BY InitInv, <1>1, PTL DEF Spec

(* log_ring.c keeps its indices inside the buffer.                          *)
THEOREM TypeCorrect == Spec => []TypeOK
  <1>1. IInv => TypeOK  BY DEF IInv
  <1> QED  BY Invariant, <1>1, PTL

(* log_ring_push: whenever the lock is free, the ring holds the last        *)
(* entries that were pushed, for every capacity and any number of threads.  *)
THEOREM KeepsTheLast == Spec => []KeepsLast
  <1>1. IInv => KeepsLast
    <2> SUFFICES ASSUME IInv, lock = NoThread
                 PROVE /\ count = Smaller(Len(pushed), capacity)
                       /\ \A k \in 1 .. count :
                            buffer[(head + capacity - k) % capacity]
                              = pushed[Len(pushed) - k + 1]
      BY DEF KeepsLast
    <2>1. Counted /\ Whole  BY DEF IInv, RingInv
    <2>2. count \in 0 .. capacity  BY DEF IInv, TypeOK
    <2>3. ASSUME NEW k \in 1 .. count
          PROVE buffer[(head + capacity - k) % capacity] = pushed[Len(pushed) - k + 1]
      <3>1. Holds(k, 0) /\ k + 0 = k  BY <2>1, <2>2 DEF Whole
      <3> QED  BY <3>1 DEF Holds, Slot
    <2> QED  BY <2>1, <2>3 DEF Counted
  <1> QED  BY Invariant, <1>1, PTL

(* log_ring_get_recent: what it has copied out is the last of what was      *)
(* pushed, oldest first, for every capacity and every size of the caller's  *)
(* array.                                                                   *)
THEOREM ReturnsTheLast == Spec => []ReturnsLast
  <1>1. IInv => ReturnsLast  BY DEF IInv, GetInv, Reader, ReturnsLast
  <1> QED  BY Invariant, <1>1, PTL
=============================================================================
