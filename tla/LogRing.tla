------------------------------- MODULE LogRing -------------------------------
(***************************************************************************)
(* core/log_ring.c after log_ring_init: a ring of the last log entries.    *)
(* Any thread of the core pushes (server.c, log_ring_callback); the HTTP   *)
(* thread asks for the most recent ones (/api/logs).                       *)
(***************************************************************************)
EXTENDS Integers, Sequences

CONSTANTS Threads, NoThread, Entries,
          NoEntry,    (* what calloc leaves                                *)
          capacity,   (* entries the ring holds                            *)
          Asked,      (* how many entries are asked for at once            *)
          MaxPushed   (* bound: entries pushed                             *)

ASSUME LogRingAssumption == /\ capacity \in Nat \ {0} /\ Asked \subseteq Nat \ {0}
                            /\ NoThread \notin Threads

VARIABLES buffer, head, count,
          lock,      (* the thread that holds it                           *)
          pc,        (* "idle"; of a push "copy", "head", "count"; "read"  *)
          entry,     (* of a push                                          *)
          max_count, start_idx, out,   (* of log_ring_get_recent; all four *)
             (* of no meaning, and reset, outside                          *)
          pushed     (* history: the entries whose push is done            *)

ring == <<buffer, head, count>>
get == <<max_count, start_idx, out>>
vars == <<ring, lock, pc, entry, get, pushed>>

Slots == 0 .. capacity - 1

Init == /\ buffer = [i \in Slots |-> NoEntry]
        /\ head = 0 /\ count = 0 /\ lock = NoThread
        /\ pc = [t \in Threads |-> "idle"]
        /\ entry = [t \in Threads |-> NoEntry]
        /\ max_count = [t \in Threads |-> 0]
        /\ start_idx = [t \in Threads |-> 0]
        /\ out = [t \in Threads |-> <<>>]
        /\ pushed = <<>>

GoTo(t, a, b) == pc[t] = a /\ pc' = [pc EXCEPT ![t] = b]

(* Mutant: no lock.                                                         *)
LockNot(t) == lock' = t
Lock(t) == lock = NoThread /\ lock' = t

-----------------------------------------------------------------------------
(* log_ring_push                                                            *)
BeginPush(t, e) == /\ Len(pushed) < MaxPushed
                   /\ GoTo(t, "idle", "copy") /\ Lock(t)
                   /\ entry' = [entry EXCEPT ![t] = e]
                   /\ UNCHANGED <<ring, get, pushed>>

CopyIn(t) == /\ GoTo(t, "copy", "head")
             /\ buffer' = [buffer EXCEPT ![head] = entry[t]]
             /\ UNCHANGED <<head, count, lock, entry, get, pushed>>

(* Mutant: one place too many before it wraps.                              *)
SuccPast(i) == (i + 1) % (capacity + 1)
Succ(i) == (i + 1) % capacity

Advance(t) == /\ GoTo(t, "head", "count")
              /\ head' = Succ(head)
              /\ UNCHANGED <<buffer, count, lock, entry, get, pushed>>

EndPush(t) == /\ GoTo(t, "count", "idle")
              /\ count' = IF count < capacity THEN count + 1 ELSE count
              /\ pushed' = Append(pushed, entry[t])
              /\ entry' = [entry EXCEPT ![t] = NoEntry]
              /\ lock' = NoThread
              /\ UNCHANGED <<buffer, head, get>>

-----------------------------------------------------------------------------
(* log_ring_get_recent: from the oldest entry on, or from the one that is   *)
(* max_count from the newest.                                               *)
Oldest == (head + capacity - count) % capacity

(* Mutant: what does not fit is cut off at the new end.                     *)
FirstFrom(m) == Oldest
StartFrom(m) == IF m < count THEN (Oldest + (count - m)) % capacity ELSE Oldest

BeginGet(t, m) == /\ GoTo(t, "idle", "read") /\ Lock(t)
                  /\ max_count' = [max_count EXCEPT ![t] = m]
                  /\ start_idx' = [start_idx EXCEPT ![t] = StartFrom(m)]
                  /\ out' = [out EXCEPT ![t] = <<>>]
                  /\ UNCHANGED <<ring, entry, pushed>>

ToCopy(t) == IF count < max_count[t] THEN count ELSE max_count[t]

CopyOut(t) ==
  /\ pc[t] = "read" /\ Len(out[t]) < ToCopy(t)
  /\ out' = [out EXCEPT
               ![t] = Append(@, buffer[(start_idx[t] + Len(@)) % capacity])]
  /\ UNCHANGED <<ring, lock, pc, entry, max_count, start_idx, pushed>>

EndGet(t) == /\ GoTo(t, "read", "idle") /\ Len(out[t]) = ToCopy(t)
             /\ max_count' = [max_count EXCEPT ![t] = 0]
             /\ start_idx' = [start_idx EXCEPT ![t] = 0]
             /\ out' = [out EXCEPT ![t] = <<>>]
             /\ lock' = NoThread
             /\ UNCHANGED <<ring, entry, pushed>>

-----------------------------------------------------------------------------
Push(t) == \/ \E e \in Entries : BeginPush(t, e)
           \/ CopyIn(t) \/ Advance(t) \/ EndPush(t)
Get(t) == \/ \E m \in Asked : BeginGet(t, m)
          \/ CopyOut(t) \/ EndGet(t)
Next == \E t \in Threads : Push(t) \/ Get(t)

Spec == Init /\ [][Next]_vars

-----------------------------------------------------------------------------
TypeOK == /\ buffer \in [Slots -> Entries \cup {NoEntry}]
          /\ head \in Slots /\ count \in 0 .. capacity
          /\ lock \in Threads \cup {NoThread}
          /\ pc \in [Threads -> {"idle", "copy", "head", "count", "read"}]
          /\ entry \in [Threads -> Entries \cup {NoEntry}]
          /\ max_count \in [Threads -> Nat]
          /\ start_idx \in [Threads -> Slots]
          /\ out \in [Threads -> Seq(Entries \cup {NoEntry})]
          /\ pushed \in Seq(Entries \cup {NoEntry})

Smaller(m, n) == IF m < n THEN m ELSE n

(* Between two operations, the ring holds the last entries that were        *)
(* pushed: as many as there were, up to its capacity, the newest before     *)
(* head (log_ring_push).                                                    *)
KeepsLast ==
  lock = NoThread =>
    /\ count = Smaller(Len(pushed), capacity)
    /\ \A k \in 1 .. count :
         buffer[(head + capacity - k) % capacity] = pushed[Len(pushed) - k + 1]

(* log_ring_get_recent returns the last max_count entries, or all the ring  *)
(* has, the oldest first, at any position of head and whatever was pushed   *)
(* since the thread asked for the lock.                                     *)
ReturnsLast ==
  \A t \in Threads :
    pc[t] = "read" =>
      \A k \in 1 .. Len(out[t]) : out[t][k] = pushed[Len(pushed) - ToCopy(t) + k]
=============================================================================
