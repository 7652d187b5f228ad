-------------------------- MODULE BrokerOrderProofs --------------------------
(***************************************************************************)
(* When a plugin has one process at a time, what a process registered      *)
(* stays registered, with nothing of a predecessor beside it, and requests *)
(* go to it: the proofs follow the order in which a plugin's processes     *)
(* start, are accepted and are disconnected.                               *)
(***************************************************************************)
EXTENDS BrokerProofs

(* Its end is under way: fetched, or being handled.                         *)
Dying(j) == Open(j) /\ (batch[j] = "hup" \/ Sweeping(j))

(* A process starts when its predecessors have ended, so whoever is at the  *)
(* listener comes after them, and a connection that is open has none before *)
(* it, except while one epoll_wait's events are worked off: then it is new. *)
Turn(i, j) == /\ plug[i] # "new" => plug[j] = "gone"
              /\ Open(i) => \/ conn[j] = "destroyed"
                            \/ Dying(j) /\ name[i] = NoName /\ batch[i] = "none"
              /\ listen /\ backlog[1] = i => conn[j] = "destroyed" \/ Dying(j)
InTurn == \A i \in Procs : \A j \in Earlier(i) : Turn(i, j)

(* What has started and was not accepted waits, in the order of starting.   *)
Queued == /\ \A i \in Procs : plug[i] # "new" /\ conn[i] = "none" =>
               \E n \in DOMAIN backlog : backlog[n] = i
          /\ \A m, n \in DOMAIN backlog : backlog[m] \in Earlier(backlog[n]) => m < n

(* What is recorded for a process was recorded after its hello.             *)
Named == \A i \in Procs : /\ taken[i] # <<>> /\ Open(i) => name[i] = i[1]
                          /\ conn[i] = "none" => taken[i] = <<>>

(* An entry records a registration of the process that its plugin's name    *)
(* means, and no two entries record the same one.                           *)
Records(x) == \E i \in Procs : Open(i) /\ name[i] = x.plugin /\ \E n \in DOMAIN taken[i] :
                                  x.of = <<i, n>> /\ x.endpoint = taken[i][n]
Owned == \A k \in DOMAIN registry : Records(registry[k])
Distinct == \A j, k \in DOMAIN registry : registry[j].of = registry[k].of => j = k

-----------------------------------------------------------------------------
(* The parts, step by step.                                                 *)
LEMMA EarlierIs ==
  ASSUME NEW i \in Procs, NEW j \in Earlier(i)
  PROVE  j \in Procs /\ j # i /\ j[1] = i[1]
<1>1. i[2] \in Nat
  BY BrokerAssumption
<1> QED
  BY <1>1 DEF Earlier

(* Two processes of a plugin come one before the other.                     *)
LEMMA Comparable ==
  ASSUME NEW i \in Procs, NEW j \in Procs, i # j, i[1] = j[1]
  PROVE  i \in Earlier(j) \/ j \in Earlier(i)
<1>1. /\ i = <<i[1], i[2]>> /\ j = <<j[1], j[2]>>
      /\ i[2] \in Nat /\ j[2] \in Nat
  BY BrokerAssumption
<1>2. i[2] # j[2]
  BY <1>1
<1> QED
  BY <1>1, <1>2 DEF Earlier

LEMMA InTurnSame ==
  ASSUME InTurn, UNCHANGED <<conn, batch, name, listen, backlog>>,
         \A i \in Procs : Sweeping(i) => Sweeping(i)',
         \A i \in Procs : /\ plug'[i] # "new" => plug[i] # "new"
                          /\ plug[i] = "gone" => plug'[i] = "gone"
  PROVE  InTurn'
<1> SUFFICES ASSUME NEW i \in Procs, NEW j \in Earlier(i)
             PROVE  Turn(i, j)'
  BY DEF InTurn, Earlier
<1>1. Turn(i, j) /\ j \in Procs
  BY EarlierIs DEF InTurn
<1> QED
  BY <1>1 DEF Turn, Dying, Open

LEMMA InTurnStep ==
  ASSUME Sound, ~Overlap, InTurn, Queued, [Next]_vars
  PROVE  InTurn'
<1>0. TypeOK /\ NameOwn /\ Waiting /\ Handling
  BY DEF Sound
<1>1. ASSUME NEW c \in Procs, Connect(c)
      PROVE  InTurn'
  <2> SUFFICES ASSUME NEW i \in Procs, NEW j \in Earlier(i)
               PROVE  Turn(i, j)'
    BY DEF InTurn, Earlier
  <2>1. Turn(i, j) /\ j \in Procs /\ j # i
    BY EarlierIs DEF InTurn
  <2>2. /\ plug[c] = "new" /\ plug' = [plug EXCEPT ![c] = "up"]
        /\ \A d \in Earlier(c) : plug[d] = "gone"
        /\ backlog' = Append(backlog, c)
        /\ UNCHANGED <<conn, name, batch, listen, main>>
    BY <1>1 DEF Connect, core
  <2>3. plug'[i] # "new" => plug'[j] = "gone"
    BY <1>0, <2>1, <2>2 DEF Turn, TypeOK, PeerTypes
  <2>4. listen => backlog'[1] = backlog[1]
    BY <1>0, <2>2, JoinIs DEF Waiting, TypeOK
  <2> QED
    BY <2>1, <2>2, <2>3, <2>4 DEF Turn, Dying, Open, Sweeping
<1>2. CASE Fetch
  <2> SUFFICES ASSUME NEW i \in Procs, NEW j \in Earlier(i)
               PROVE  Turn(i, j)'
    BY DEF InTurn, Earlier
  <2>1. Turn(i, j) /\ j \in Procs /\ j # i
    BY EarlierIs DEF InTurn
  <2>2. /\ ~Dying(j) /\ batch' = Events /\ listen' = (backlog # <<>>)
        /\ UNCHANGED <<plug, backlog, conn, name, main>>
    BY <1>2, <2>1 DEF Fetch, Idle, Dying, Sweeping, peer, core
  <2>3. ASSUME backlog # <<>>, backlog[1] = i
        PROVE  conn[j] = "destroyed" \/ Dying(j)'
    <3>1. 1 \in DOMAIN backlog /\ backlog \in Seq(Procs)
      BY <1>0, <2>3 DEF TypeOK, ConnTypes
    <3>2. plug[j] = "gone"
      BY <1>0, <2>1, <2>3, <3>1 DEF Waiting, Turn
    <3>3. conn[j] # "none"
      <4>1. SUFFICES ASSUME conn[j] = "none" PROVE FALSE
        OBVIOUS
      <4>2. PICK n \in DOMAIN backlog : backlog[n] = j
        BY <2>1, <3>2, <4>1 DEF Queued
      <4>3. n < 1
        BY <2>3, <3>1, <4>2 DEF Queued
      <4> QED
        BY <3>1, <4>3
    <3>4. Open(j) => batch'[j] = "hup"
      BY <2>1, <2>2, <3>2 DEF Events, Event
    <3> QED
      BY <1>0, <2>1, <2>2, <3>3, <3>4 DEF Dying, Open, TypeOK, ConnTypes
  <2> QED
    BY <2>1, <2>2, <2>3 DEF Turn, Open
<1>3. CASE Accept
  <2> DEFINE h == backlog[1]
  <2>1. /\ h \in Procs /\ conn[h] = "none" /\ name[h] = NoName /\ batch[h] = "none"
        /\ \A i \in Procs : i # h => conn'[i] = conn[i]
        /\ ~listen' /\ listen /\ UNCHANGED <<plug, batch, name, main>>
    <3>1. h \in Procs /\ conn[h] = "none" /\ Head(backlog) = h
      BY <1>0, <1>3, BacklogIs DEF Accept, Waiting, TypeOK
    <3> QED
      BY <1>0, <1>3, <3>1 DEF Accept, NameOwn, Handling, Open, peer, TypeOK, ConnTypes
  <2> SUFFICES ASSUME NEW i \in Procs, NEW j \in Earlier(i)
               PROVE  Turn(i, j)'
    BY DEF InTurn, Earlier
  <2>2. Turn(i, j) /\ j \in Procs /\ j # i
    BY EarlierIs DEF InTurn
  <2>3. /\ conn[j] = "destroyed" => conn'[j] = "destroyed"
        /\ Dying(j) => Dying(j)'
    BY <2>1, <2>2 DEF Dying, Open, Sweeping
  <2> HIDE DEF h
  <2>4. CASE i = h
    <3>1. conn[j] = "destroyed" \/ Dying(j)
      BY <2>1, <2>2, <2>4 DEF Turn, h
    <3> QED
      BY <2>1, <2>2, <2>3, <2>4, <3>1 DEF Turn
  <2>5. CASE i # h
    BY <2>1, <2>2, <2>3, <2>5 DEF Turn, Open
  <2> QED
    BY <2>4, <2>5
<1>4. ASSUME NEW c \in Procs, Handle(c)
      PROVE  InTurn'
  <2>1. /\ Open(c) /\ main.at = "loop" /\ batch[c] = "in" /\ batch' = [batch EXCEPT ![c] = "none"]
        /\ UNCHANGED <<plug, backlog, conn, listen, main>>
        /\ \A i \in Procs : i # c => name'[i] = name[i]
    <3>1. Hello(c) \/ name' = name
      BY <1>0, <1>4, HandleIs DEF Register
    <3> QED
      BY <1>0, <1>4, <3>1 DEF Handle, Handling, Hello, TypeOK, ConnTypes
  <2> SUFFICES ASSUME NEW i \in Procs, NEW j \in Earlier(i)
               PROVE  Turn(i, j)'
    BY DEF InTurn, Earlier
  <2>2. Turn(i, j) /\ j \in Procs /\ j # i
    BY EarlierIs DEF InTurn
  <2>3. Dying(j) => j # c /\ Dying(j)'
    BY <1>0, <2>1, <2>2 DEF Dying, Open, Sweeping, TypeOK, ThreadTypes
  <2> QED
    BY <1>0, <2>1, <2>2, <2>3 DEF Turn, Open, TypeOK, ThreadTypes
<1>5. ASSUME NEW c \in Procs, Disconnect(c)
      PROVE  InTurn'
  <2>1. /\ main.at = "loop" /\ main'.at = "sweep" /\ main'.conn = c
        /\ batch' = [batch EXCEPT ![c] = "none"]
        /\ UNCHANGED <<plug, backlog, conn, name, listen>>
    BY <1>5 DEF Disconnect, peer, core
  <2> SUFFICES ASSUME NEW i \in Procs, NEW j \in Earlier(i)
               PROVE  Turn(i, j)'
    BY DEF InTurn, Earlier
  <2>2. Turn(i, j) /\ j \in Procs /\ j # i
    BY EarlierIs DEF InTurn
  <2>3. Dying(j) => Dying(j)'
    BY <1>0, <2>1, <2>2 DEF Dying, Open, Sweeping, TypeOK, ThreadTypes
  <2>4. batch[i] = "none" => batch'[i] = "none"
    BY <1>0, <2>1 DEF TypeOK, ThreadTypes
  <2> QED
    BY <2>1, <2>2, <2>3, <2>4 DEF Turn, Open
<1>6. CASE Destroy
  <2> DEFINE c == main.conn
  <2>1. /\ c \in Procs /\ conn'[c] = "destroyed"
        /\ \A i \in Procs : i # c => conn'[i] = conn[i] /\ name'[i] = name[i]
        /\ UNCHANGED <<plug, backlog, listen, batch>>
    BY <1>0, <1>6, DestroyIs DEF Destroy, Release, TypeOK, ConnTypes
  <2> HIDE DEF c
  <2> SUFFICES ASSUME NEW i \in Procs, NEW j \in Earlier(i)
               PROVE  Turn(i, j)'
    BY DEF InTurn, Earlier
  <2>2. Turn(i, j) /\ j \in Procs /\ j # i
    BY EarlierIs DEF InTurn
  <2>3. conn'[j] = "destroyed" \/ (j # c /\ conn'[j] = conn[j])
    BY <2>1, <2>2
  <2>4. Dying(j) => conn'[j] = "destroyed" \/ Dying(j)'
    BY <2>1, <2>2, <2>3 DEF Dying, Open, Sweeping, c
  <2> QED
    BY <2>1, <2>2, <2>3, <2>4 DEF Turn, Open
<1>7. ASSUME NEW c \in Procs, EndLine(c) \/ End(c) \/ \E l \in Lines : Write(c, l)
      PROVE  InTurn'
  <2>1. \A i \in Procs : /\ plug'[i] # "new" => plug[i] # "new"
                         /\ plug[i] = "gone" => plug'[i] = "gone"
    BY <1>0, <1>7 DEF EndLine, End, Write, TypeOK, PeerTypes
  <2>2. UNCHANGED <<conn, batch, main, name, listen, backlog>>
    BY <1>7 DEF EndLine, End, Write, core
  <2> QED
    BY <2>1, <2>2, InTurnSame DEF Sweeping
<1>8. CASE Sweep
  <2>1. main'.at = main.at /\ main'.conn = main.conn
    BY <1>0, <1>8, SweepIs
  <2>2. UNCHANGED <<plug, conn, batch, name, listen, backlog>>
    BY <1>8 DEF Sweep, peer
  <2> QED
    BY <2>1, <2>2, InTurnSame DEF Sweeping
<1>9. CASE UNCHANGED <<plug, conn, batch, main, name, listen, backlog>>
  BY <1>9, InTurnSame DEF Sweeping
<1> QED
  BY <1>1, <1>2, <1>3, <1>4, <1>5, <1>6, <1>7, <1>8, <1>9, Steps
     DEF SendRequest, Route, peer, core, vars

LEMMA TailIs ==
  ASSUME backlog \in Seq(Procs), backlog # <<>>, backlog' = Tail(backlog)
  PROVE  /\ \A n \in DOMAIN backlog' : /\ n \in Nat /\ n + 1 \in DOMAIN backlog
                                       /\ backlog'[n] = backlog[n + 1]
         /\ \A n \in DOMAIN backlog : n # 1 => /\ n \in Nat /\ n - 1 \in DOMAIN backlog'
                                               /\ backlog'[n - 1] = backlog[n]
OBVIOUS

LEMMA QueuedStep ==
  ASSUME Sound, InTurn, Queued, [Next]_vars
  PROVE  Queued'
<1>0. TypeOK /\ Waiting /\ Handling /\ backlog \in Seq(Procs)
  BY DEF Sound, TypeOK, ConnTypes
<1>1. ASSUME NEW c \in Procs, Connect(c)
      PROVE  Queued'
  <2>1. /\ plug[c] = "new" /\ plug' = [plug EXCEPT ![c] = "up"] /\ conn' = conn
        /\ backlog' = Append(backlog, c)
    BY <1>1 DEF Connect, core
  <2>2. /\ DOMAIN backlog = 1 .. Len(backlog) /\ Len(backlog) \in Nat
        /\ DOMAIN backlog' = 1 .. Len(backlog) + 1
        /\ \A n \in DOMAIN backlog : backlog'[n] = backlog[n] /\ backlog[n] \in Procs
        /\ backlog'[Len(backlog) + 1] = c
    BY <1>0, <2>1, JoinIs DEF TypeOK
  <2>3. ASSUME NEW i \in Procs, plug'[i] # "new", conn'[i] = "none"
        PROVE  \E n \in DOMAIN backlog' : backlog'[n] = i
    <3>1. CASE i = c
      BY <2>2, <3>1
    <3>2. CASE i # c
      <4>1. plug[i] # "new" /\ conn[i] = "none"
        BY <1>0, <2>1, <2>3, <3>2 DEF TypeOK, PeerTypes
      <4>2. PICK n \in DOMAIN backlog : backlog[n] = i
        BY <4>1 DEF Queued
      <4>3. n \in DOMAIN backlog' /\ backlog'[n] = i
        BY <2>2, <4>2
      <4> QED
        BY <4>3
    <3> QED
      BY <3>1, <3>2
  <2>4. \A n \in DOMAIN backlog : c \notin Earlier(backlog[n])
    BY <1>0, <2>1, <2>2 DEF Waiting, InTurn, Turn
  <2>5. c \notin Earlier(c)
    BY EarlierIs
  <2>6. ASSUME NEW m \in DOMAIN backlog', NEW n \in DOMAIN backlog',
               backlog'[m] \in Earlier(backlog'[n])
        PROVE  m < n
    <3>1. CASE m = Len(backlog) + 1
      BY <2>2, <2>4, <2>5, <2>6, <3>1
    <3>2. CASE m \in DOMAIN backlog /\ n = Len(backlog) + 1
      BY <2>2, <3>2
    <3>3. CASE m \in DOMAIN backlog /\ n \in DOMAIN backlog
      BY <2>2, <2>6, <3>3 DEF Queued
    <3> QED
      BY <2>2, <3>1, <3>2, <3>3
  <2> QED
    BY <2>3, <2>6 DEF Queued, Earlier
<1>2. CASE Accept
  <2> DEFINE h == backlog[1]
  <2>1. /\ backlog # <<>> /\ backlog' = Tail(backlog) /\ plug' = plug
        /\ h \in Procs /\ conn'[h] # "none"
        /\ \A i \in Procs : i # h => conn'[i] = conn[i]
    <3>1. backlog # <<>> /\ h \in Procs /\ Head(backlog) = h
      BY <1>0, <1>2, BacklogIs DEF Accept, Waiting, TypeOK
    <3> QED
      BY <1>0, <1>2, <3>1 DEF Accept, peer, TypeOK, ConnTypes
  <2>2. /\ \A n \in DOMAIN backlog' : /\ n \in Nat /\ n + 1 \in DOMAIN backlog
                                      /\ backlog'[n] = backlog[n + 1]
        /\ \A n \in DOMAIN backlog : n # 1 => /\ n \in Nat /\ n - 1 \in DOMAIN backlog'
                                              /\ backlog'[n - 1] = backlog[n]
    BY <1>0, <2>1, TailIs
  <2>3. ASSUME NEW i \in Procs, plug'[i] # "new", conn'[i] = "none"
        PROVE  \E n \in DOMAIN backlog' : backlog'[n] = i
    <3>1. PICK n \in DOMAIN backlog : backlog[n] = i /\ i # h
      BY <2>1, <2>3 DEF Queued
    <3>2. n - 1 \in DOMAIN backlog' /\ backlog'[n - 1] = i
      BY <2>2, <3>1
    <3> QED
      BY <3>2
  <2>4. ASSUME NEW m \in DOMAIN backlog', NEW n \in DOMAIN backlog',
               backlog'[m] \in Earlier(backlog'[n])
        PROVE  m < n
    <3>1. m + 1 < n + 1 /\ m \in Nat /\ n \in Nat
      BY <2>2, <2>4 DEF Queued
    <3> QED
      BY <3>1
  <2> QED
    BY <2>3, <2>4 DEF Queued, Earlier
<1>3. CASE Destroy
  <2>1. /\ main.conn \in Procs /\ conn'[main.conn] = "destroyed"
        /\ \A i \in Procs : i # main.conn => conn'[i] = conn[i]
        /\ UNCHANGED <<plug, backlog>>
    BY <1>0, <1>3, DestroyIs DEF Destroy, TypeOK, ConnTypes
  <2> QED
    BY <2>1 DEF Queued, Earlier
<1>4. ASSUME NEW c \in Procs, EndLine(c) \/ End(c) \/ \E l \in Lines : Write(c, l)
      PROVE  Queued'
  <2>1. /\ \A i \in Procs : plug'[i] # "new" => plug[i] # "new"
        /\ UNCHANGED <<conn, backlog>>
    BY <1>0, <1>4 DEF EndLine, End, Write, core, TypeOK, PeerTypes
  <2> QED
    BY <2>1 DEF Queued, Earlier
<1>5. CASE UNCHANGED <<plug, conn, backlog>>
  BY <1>5 DEF Queued, Earlier
<1> QED
  BY <1>1, <1>2, <1>3, <1>4, <1>5, Steps
     DEF Fetch, Sweep, SendRequest, Route, Handle, Disconnect, peer, core, vars

(* What handling a line does to names and records: a hello gives the name,  *)
(* a registration needs it.                                                 *)
LEMMA RecordIs ==
  ASSUME Sound, NEW c \in Procs, Handle(c)
  PROVE  /\ Open(c) /\ conn' = conn
         /\ \A i \in Procs : i # c => name'[i] = name[i] /\ taken'[i] = taken[i]
         /\ \/ name'[c] = c[1] /\ taken' = taken /\ registry' = registry
            \/ name' = name /\ taken' = taken /\ registry' = registry
            \/ \E e \in Endpoints : /\ Buffered(c)[1] = e
                                    /\ name' = name /\ name[c] = c[1]
                                    /\ taken'[c] = Append(taken[c], e)
                                    /\ Len(registry) < MaxEntries
                                    /\ registry' = Append(registry, Entry(c, e))
<1>0. TypeOK /\ NameOwn /\ Handling
  BY DEF Sound
<1>1. Open(c) /\ conn' = conn
  BY <1>0 DEF Handle, Handling
<1>2. CASE Hello(c)
  BY <1>0, <1>1, <1>2 DEF Hello, TypeOK, ConnTypes
<1>3. ASSUME NEW e \in Endpoints, Buffered(c)[1] = e, Register(c, e)
      PROVE  /\ name' = name
             /\ \A i \in Procs : i # c => taken'[i] = taken[i]
             /\ \/ taken' = taken /\ registry' = registry
                \/ /\ name[c] = c[1] /\ taken'[c] = Append(taken[c], e)
                   /\ Len(registry) < MaxEntries
                   /\ registry' = Append(registry, Entry(c, e))
  BY <1>0, <1>3 DEF Register, NameOwn, TypeOK, ConnTypes
<1> QED
  BY <1>0, <1>1, <1>2, <1>3, HandleIs

(* ... and a record that is made stays as it is.                            *)
LEMMA TakenIs ==
  ASSUME Sound, NEW c \in Procs, Handle(c)
  PROVE  /\ \A i \in Procs : \A n \in DOMAIN taken[i] :
              n \in DOMAIN taken'[i] /\ taken'[i][n] = taken[i][n]
         /\ \A i \in Procs : name[i] # NoName => name'[i] = name[i]
<1>1. ASSUME NEW e \in Endpoints, taken'[c] = Append(taken[c], e), NEW n \in DOMAIN taken[c]
      PROVE  n \in DOMAIN taken'[c] /\ taken'[c][n] = taken[c][n]
  <2>1. taken[c] \in Seq(Endpoints)
    BY DEF Sound, TypeOK, ConnTypes
  <2> QED
    BY <1>1, <2>1
<1>2. \A i \in Procs : name[i] # NoName => name'[i] = name[i]
  BY RecordIs DEF Sound, NameOwn
<1> QED
  BY <1>1, <1>2, RecordIs

LEMMA NamedStep ==
  ASSUME Sound, Named, [Next]_vars
  PROVE  Named'
<1>0. TypeOK /\ NameOwn /\ Waiting /\ Handling
  BY DEF Sound
<1>1. ASSUME NEW c \in Procs, Handle(c)
      PROVE  Named'
  <2> SUFFICES ASSUME NEW i \in Procs
               PROVE  /\ taken'[i] # <<>> /\ Open(i)' => name'[i] = i[1]
                      /\ conn'[i] = "none" => taken'[i] = <<>>
    BY DEF Named
  <2>1. CASE i # c
    BY <1>1, <2>1, RecordIs DEF Named, Open
  <2>2. CASE i = c
    BY <1>1, <2>2, RecordIs DEF Named, Open
  <2> QED
    BY <2>1, <2>2
<1>2. CASE Accept
  <2>1. backlog[1] \in Procs /\ conn[backlog[1]] = "none" /\ Head(backlog) = backlog[1]
    BY <1>0, <1>2, BacklogIs DEF Accept, Waiting, TypeOK
  <2> QED
    BY <1>0, <1>2, <2>1 DEF Accept, Named, Open, TypeOK, ConnTypes
<1>3. CASE Destroy
  BY <1>0, <1>3, DestroyIs DEF Destroy, Release, Named, Open, TypeOK, ConnTypes
<1>4. CASE UNCHANGED <<conn, name, taken>>
  BY <1>4 DEF Named, Open
<1> QED
  BY <1>1, <1>2, <1>3, <1>4, Steps
     DEF Fetch, Sweep, SendRequest, Route, Disconnect, Connect, EndLine, End, Write, core, vars

-----------------------------------------------------------------------------
(* A name that two connections had would be of two processes of a plugin,   *)
(* and the later of them has none while the earlier is open.                *)
LEMMA OneByName ==
  ASSUME Sound, InTurn, NEW i \in Procs, NEW j \in Procs, Open(i), Open(j),
         name[i] = name[j], name[i] # NoName
  PROVE  i = j
<1>1. i[1] = j[1]
  BY DEF Sound, NameOwn
<1>2. ASSUME NEW a \in Procs, NEW b \in Earlier(a), Open(a), Open(b)
      PROVE  name[a] = NoName
  BY <1>2 DEF InTurn, Turn, Open
<1> QED
  BY <1>1, <1>2, Comparable

(* The registry before a registration and after it, and its record.         *)
LEMMA RecordedIs ==
  ASSUME Sound, NEW c \in Procs, NEW e \in Endpoints, name[c] = c[1],
         Len(registry) < MaxEntries, registry' = Append(registry, Entry(c, e))
  PROVE  /\ Len(registry) \in Nat /\ DOMAIN registry = 1 .. Len(registry)
         /\ DOMAIN registry' = 1 .. Len(registry) + 1
         /\ \A k \in DOMAIN registry : registry'[k] = registry[k]
         /\ registry'[Len(registry) + 1] = Entry(c, e)
         /\ Entry(c, e).plugin = name[c] /\ Entry(c, e).endpoint = e
         /\ Entry(c, e).of = <<c, Len(taken[c]) + 1>> /\ Len(taken[c]) \in Nat
<1>1. TypeOK /\ RegistryTypes /\ name[c] # NoName
  BY BrokerAssumption DEF Sound, TypeOK, Plugins
<1> QED
  BY <1>1, EntryIs, RegistryIs, AppendIs

LEMMA OwnedStep ==
  ASSUME Sound, Owned, [Next]_vars
  PROVE  Owned'
<1>0. /\ TypeOK /\ NameOwn /\ Waiting /\ Handling /\ SweptSoFar /\ RegistryTypes
      /\ \A k \in DOMAIN registry : registry[k].plugin # NoName
  BY RegistryIs, BrokerAssumption DEF Sound, TypeOK, Entries
<1>1. ASSUME NEW c \in Procs, Handle(c)
      PROVE  Owned'
  <2>1. /\ Open(c) /\ conn' = conn
        /\ \A i \in Procs : name[i] # NoName => name'[i] = name[i]
        /\ \A i \in Procs : \A n \in DOMAIN taken[i] :
             n \in DOMAIN taken'[i] /\ taken'[i][n] = taken[i][n]
    BY <1>1, RecordIs, TakenIs
  <2>2. ASSUME NEW k \in DOMAIN registry, registry'[k] = registry[k]
        PROVE  Records(registry[k])'
    <3>1. PICK i \in Procs : /\ Open(i) /\ name[i] = registry[k].plugin
                             /\ \E n \in DOMAIN taken[i] : /\ registry[k].of = <<i, n>>
                                                           /\ registry[k].endpoint = taken[i][n]
      BY DEF Owned, Records
    <3>2. name'[i] = registry'[k].plugin /\ Open(i)'
      BY <1>0, <2>1, <2>2, <3>1 DEF Open
    <3> QED
      BY <2>1, <2>2, <3>1, <3>2 DEF Records
  <2>3. CASE registry' = registry
    BY <2>2, <2>3 DEF Owned
  <2>4. ASSUME NEW e \in Endpoints, name' = name, name[c] = c[1],
               taken'[c] = Append(taken[c], e), Len(registry) < MaxEntries,
               registry' = Append(registry, Entry(c, e))
        PROVE  Owned'
    <3> SUFFICES ASSUME NEW k \in DOMAIN registry'
                 PROVE  Records(registry[k])'
      BY DEF Owned
    <3>1. /\ Len(registry) \in Nat /\ DOMAIN registry = 1 .. Len(registry)
          /\ DOMAIN registry' = 1 .. Len(registry) + 1
          /\ \A n \in DOMAIN registry : registry'[n] = registry[n]
          /\ registry'[Len(registry) + 1] = Entry(c, e)
          /\ Entry(c, e).plugin = name[c] /\ Entry(c, e).endpoint = e
          /\ Entry(c, e).of = <<c, Len(taken[c]) + 1>>
      BY <2>4, RecordedIs
    <3>2. CASE k \in DOMAIN registry
      BY <2>2, <3>1, <3>2
    <3>3. CASE k = Len(registry) + 1
      <4>1. Len(taken[c]) + 1 \in DOMAIN taken'[c] /\ taken'[c][Len(taken[c]) + 1] = e
        <5>1. taken[c] \in Seq(Endpoints)
          BY <1>0 DEF TypeOK, ConnTypes
        <5> QED
          BY <2>4, <5>1
      <4>2. Open(c)' /\ name'[c] = registry'[k].plugin
        BY <2>1, <2>4, <3>1, <3>3 DEF Open
      <4> QED
        BY <3>1, <3>3, <4>1, <4>2 DEF Records
    <3> QED
      BY <3>1, <3>2, <3>3
  <2> QED
    BY <1>1, <2>3, <2>4, RecordIs
<1>2. CASE Accept
  <2>1. backlog[1] \in Procs /\ conn[backlog[1]] = "none" /\ Head(backlog) = backlog[1]
    BY <1>0, <1>2, BacklogIs DEF Accept, Waiting, TypeOK
  <2>2. \A i \in Procs : Open(i) => Open(i)'
    BY <1>0, <1>2, <2>1 DEF Accept, Open, TypeOK, ConnTypes
  <2> QED
    BY <1>2, <2>2 DEF Accept, Owned, Records
<1>3. CASE Sweep
  <2>1. \A m \in DOMAIN registry' : \E j \in DOMAIN registry : registry'[m] = registry[j]
    BY <1>0, <1>3, SweepIs, RemoveIs
  <2> QED
    BY <1>3, <2>1 DEF Sweep, Owned, Records, Open
<1>4. CASE Destroy
  <2>1. main.conn \in Procs /\ main.at = "sweep"
        /\ (name[main.conn] = NoName \/ main.k > Len(registry)) /\ main.k \in Nat
    BY <1>0, <1>4, DestroyIs
  <2>2. \A i \in Procs : i # main.conn => conn'[i] = conn[i] /\ name'[i] = name[i]
    BY <1>0, <1>4, <2>1 DEF Destroy, Release, TypeOK, ConnTypes
  <2>3. \A k \in DOMAIN registry : registry[k].plugin # name[main.conn]
    BY <1>0, <2>1, RegistryIs DEF SweptSoFar
  <2>4. registry' = registry /\ taken' = taken
    BY <1>4 DEF Destroy
  <2> QED
    BY <2>2, <2>3, <2>4 DEF Owned, Records, Open
<1>5. CASE UNCHANGED <<registry, conn, name, taken>>
  BY <1>5 DEF Owned, Records, Open
<1> QED
  BY <1>1, <1>2, <1>3, <1>4, <1>5, Steps
     DEF Fetch, SendRequest, Route, Disconnect, Connect, EndLine, End, Write, core, vars

LEMMA StaysStep ==
  ASSUME Sound, InTurn, Named, StaysRegistered, [Next]_vars
  PROVE  StaysRegistered'
<1>0. TypeOK /\ NameOwn /\ Waiting /\ Handling /\ RegistryTypes
  BY DEF Sound, TypeOK
<1> SUFFICES ASSUME NEW i \in Procs, Open(i)', ~Sweeping(i)', NEW n \in DOMAIN taken'[i]
             PROVE  \E k \in DOMAIN registry' : registry'[k] = Listing(i, n)'
  BY DEF StaysRegistered
<1>1. ASSUME NEW c \in Procs, Handle(c)
      PROVE  \E k \in DOMAIN registry' : registry'[k] = Listing(i, n)'
  <2>1. Open(i) /\ ~Sweeping(i)
    BY <1>1, RecordIs DEF Open, Handle, Sweeping
  <2>2. CASE n \in DOMAIN taken[i]
    <3>1. Listing(i, n)' = Listing(i, n)
      <4>1. taken'[i][n] = taken[i][n]
        BY <1>1, <2>2, TakenIs
      <4>2. taken[i] # <<>>
        BY <2>2
      <4>3. name'[i] = name[i]
        BY <1>1, <2>1, <4>2, RecordIs DEF Named
      <4> QED
        BY <4>1, <4>3 DEF Listing
    <3>2. PICK k \in DOMAIN registry : registry[k] = Listing(i, n)
      BY <2>1, <2>2 DEF StaysRegistered
    <3>3. CASE registry' = registry
      BY <3>1, <3>2, <3>3
    <3>4. ASSUME NEW f \in Endpoints, name[c] = c[1], Len(registry) < MaxEntries,
                 registry' = Append(registry, Entry(c, f))
          PROVE  k \in DOMAIN registry' /\ registry'[k] = Listing(i, n)
      BY <3>2, <3>4, RecordedIs
    <3> QED
      BY <1>1, <3>1, <3>3, <3>4, RecordIs
  <2>3. CASE n \notin DOMAIN taken[i]
    <3>1. i = c
      BY <1>1, <2>3, RecordIs
    <3>2. PICK f \in Endpoints :
            /\ name' = name /\ name[c] = c[1] /\ taken'[c] = Append(taken[c], f)
            /\ Len(registry) < MaxEntries /\ registry' = Append(registry, Entry(c, f))
      BY <1>1, <2>3, <3>1, RecordIs
    <3>3. n = Len(taken[c]) + 1 /\ taken'[c][n] = f
      <4>1. taken[c] \in Seq(Endpoints)
        BY <1>0 DEF TypeOK, ConnTypes
      <4> QED
        BY <2>3, <3>1, <3>2, <4>1
    <3>4. Listing(i, n)' = Entry(c, f)
      BY <3>1, <3>2, <3>3 DEF Entry, Listing
    <3>5. Len(registry) + 1 \in DOMAIN registry' /\ registry'[Len(registry) + 1] = Entry(c, f)
      BY <3>2, RecordedIs
    <3> QED
      BY <3>4, <3>5
  <2> QED
    BY <2>2, <2>3
<1>2. CASE Accept
  <2>1. backlog[1] \in Procs /\ conn[backlog[1]] = "none" /\ Head(backlog) = backlog[1]
    BY <1>0, <1>2, BacklogIs DEF Accept, Waiting, TypeOK
  <2>2. UNCHANGED <<taken, name, registry, main>>
    BY <1>2 DEF Accept
  <2>3. i # backlog[1]
    BY <2>1, <2>2 DEF Named
  <2>4. Open(i) /\ ~Sweeping(i)
    BY <1>0, <1>2, <2>1, <2>2, <2>3 DEF Accept, Open, Sweeping, TypeOK, ConnTypes
  <2> QED
    BY <2>2, <2>4 DEF StaysRegistered, Listing
<1>3. CASE Sweep
  <2>1. /\ UNCHANGED <<conn, name, taken>> /\ main.at = "sweep" /\ main'.at = "sweep"
        /\ main.conn \in Procs /\ main'.conn = main.conn /\ main.k \in DOMAIN registry
        /\ name[main.conn] # NoName
        /\ \/ /\ registry[main.k].plugin = name[main.conn]
              /\ registry' = WithoutEntry(main.k)
           \/ registry' = registry
    BY <1>0, <1>3, SweepIs DEF Sweep
  <2>2. /\ Open(i) /\ ~Sweeping(i) /\ i # main.conn /\ Open(main.conn)
        /\ n \in DOMAIN taken[i] /\ taken[i] # <<>> /\ Listing(i, n)' = Listing(i, n)
    BY <1>0, <2>1 DEF Open, Sweeping, Handling, Listing
  <2>3. name[i] = i[1] /\ name[i] # name[main.conn]
    BY <2>1, <2>2, OneByName DEF Named
  <2>4. PICK k \in DOMAIN registry : registry[k] = Listing(i, n)
    BY <2>1, <2>2 DEF StaysRegistered
  <2>5. registry[k].plugin # name[main.conn]
    BY <2>3, <2>4 DEF Listing
  <2>6. \E m \in DOMAIN registry' : registry'[m] = registry[k]
    BY <1>0, <2>1, <2>4, <2>5, RemoveIs
  <2> QED
    BY <2>2, <2>4, <2>6
<1>4. CASE Destroy
  <2>1. /\ main.conn \in Procs /\ UNCHANGED <<taken, registry>>
        /\ conn'[main.conn] = "destroyed"
        /\ \A j \in Procs : j # main.conn => conn'[j] = conn[j] /\ name'[j] = name[j]
    BY <1>0, <1>4, DestroyIs DEF Destroy, Release, TypeOK, ConnTypes
  <2>2. Open(i) /\ ~Sweeping(i) /\ name'[i] = name[i]
    BY <2>1 DEF Open, Sweeping
  <2> QED
    BY <2>1, <2>2 DEF StaysRegistered, Listing
<1>5. ASSUME NEW c \in Procs, Disconnect(c)
      PROVE  \E k \in DOMAIN registry' : registry'[k] = Listing(i, n)'
  <2>1. UNCHANGED <<conn, name, taken, registry>> /\ main.at = "loop"
    BY <1>5 DEF Disconnect, core
  <2> QED
    BY <2>1 DEF StaysRegistered, Listing, Open, Sweeping
<1>6. CASE UNCHANGED <<conn, name, taken, registry, main>>
  BY <1>6 DEF StaysRegistered, Listing, Open, Sweeping
<1> QED
  BY <1>1, <1>2, <1>3, <1>4, <1>5, <1>6, Steps
     DEF Fetch, SendRequest, Route, Connect, EndLine, End, Write, core, vars

LEMMA RemoveDistinct ==
  ASSUME RegistryTypes, Distinct, NEW k \in DOMAIN registry, registry' = WithoutEntry(k)
  PROVE  Distinct'
<1> DEFINE src(m) == IF m = k THEN Len(registry) ELSE m
<1>1. Len(registry) \in Nat /\ DOMAIN registry = 1 .. Len(registry) /\ k \in 1 .. Len(registry)
  BY RegistryIs
<1>2. registry' = [m \in 1 .. Len(registry) - 1 |-> registry[src(m)]]
  BY DEF WithoutEntry
<1>3. /\ \A m \in 1 .. Len(registry) - 1 : src(m) \in DOMAIN registry
      /\ \A m, n \in 1 .. Len(registry) - 1 : src(m) = src(n) => m = n
  BY <1>1
<1> HIDE DEF src
<1>4. DOMAIN registry' = 1 .. Len(registry) - 1
      /\ \A m \in 1 .. Len(registry) - 1 : registry'[m] = registry[src(m)]
  BY <1>2
<1> QED
  BY <1>3, <1>4 DEF Distinct

(* A registration gets a number that its process has not used.              *)
LEMMA DistinctStep ==
  ASSUME Sound, Owned, Distinct, [Next]_vars
  PROVE  Distinct'
<1>0. TypeOK /\ RegistryTypes
  BY DEF Sound, TypeOK
<1>1. ASSUME NEW c \in Procs, Handle(c)
      PROVE  Distinct'
  <2>1. ASSUME NEW e \in Endpoints, name[c] = c[1],
               Len(registry) < MaxEntries, registry' = Append(registry, Entry(c, e))
        PROVE  Distinct'
    <3>1. /\ Len(registry) \in Nat /\ DOMAIN registry = 1 .. Len(registry)
          /\ DOMAIN registry' = 1 .. Len(registry) + 1
          /\ \A k \in DOMAIN registry : registry'[k] = registry[k]
          /\ registry'[Len(registry) + 1] = Entry(c, e)
          /\ Entry(c, e).of = <<c, Len(taken[c]) + 1>>
      BY <2>1, RecordedIs
    <3>2. ASSUME NEW k \in DOMAIN registry, registry[k].of = <<c, Len(taken[c]) + 1>>
          PROVE  FALSE
      <4>1. Len(taken[c]) + 1 \in DOMAIN taken[c]
        BY <3>2 DEF Owned, Records
      <4>2. taken[c] \in Seq(Endpoints)
        BY <1>0 DEF TypeOK, ConnTypes
      <4> QED
        BY <4>1, <4>2
    <3> QED
      BY <3>1, <3>2 DEF Distinct
  <2>2. CASE registry' = registry
    BY <2>2 DEF Distinct
  <2> QED
    BY <1>1, <2>1, <2>2, RecordIs
<1>2. CASE Sweep
  <2>1. main.k \in DOMAIN registry /\ (registry' = registry \/ registry' = WithoutEntry(main.k))
    BY <1>0, <1>2, SweepIs
  <2>2. CASE registry' = registry
    BY <2>2 DEF Distinct
  <2>3. CASE registry' = WithoutEntry(main.k)
    BY <1>0, <2>1, <2>3, RemoveDistinct
  <2> QED
    BY <2>1, <2>2, <2>3
<1>3. CASE registry' = registry
  BY <1>3 DEF Distinct
<1> QED
  BY <1>1, <1>2, <1>3, Steps
     DEF Fetch, Accept, Destroy, SendRequest, Route, Disconnect, Connect, EndLine, End, Write, core, vars

(* ... and the entries under a connected process's name are of its own.     *)
LEMMA OwnedDistinct ==
  ASSUME Sound, InTurn, Owned, Distinct
  PROVE  ListedOnce
<1>1. ASSUME NEW k \in DOMAIN registry, NEW i \in Procs, name[i] = registry[k].plugin
      PROVE  registry[k].of[1] = i
  <2>1. PICK j \in Procs : /\ Open(j) /\ name[j] = registry[k].plugin
                           /\ \E n \in DOMAIN taken[j] : registry[k].of = <<j, n>>
    BY DEF Owned, Records
  <2>2. name[i] # NoName
    BY <1>1, RegistryIs, BrokerAssumption DEF Sound, TypeOK, Entries
  <2>3. Open(i)
    BY <2>2 DEF Sound, NameOwn
  <2>4. i = j
    BY <1>1, <2>1, <2>2, <2>3, OneByName
  <2> QED
    BY <2>1, <2>4
<1> QED
  BY <1>1 DEF ListedOnce, Distinct

LEMMA TargetStep ==
  ASSUME Sound, InTurn, Owned, TargetRegistered, [Next]_vars
  PROVE  TargetRegistered'
<1>0. TypeOK /\ \A k \in DOMAIN registry : registry[k].plugin # NoName
  BY RegistryIs, BrokerAssumption DEF Sound, TypeOK, Entries
<1>1. ASSUME NEW e \in Endpoints, Route(e)
      PROVE  TargetRegistered'
  <2>1. PICK k \in Routes(e), i \in Procs :
          /\ Open(i) /\ name[i] = registry[k].plugin
          /\ http' = [at |-> "send", conn |-> i, endpoint |-> e]
    BY <1>1 DEF Route
  <2>2. k \in DOMAIN registry /\ registry[k].endpoint = e /\ name[i] # NoName
    BY <1>0, <2>1 DEF Routes
  <2>3. PICK j \in Procs : /\ Open(j) /\ name[j] = name[i]
                           /\ \E n \in DOMAIN taken[j] : taken[j][n] = e
    BY <2>1, <2>2 DEF Owned, Records
  <2>4. i = j
    BY <2>1, <2>2, <2>3, OneByName
  <2> QED
    BY <1>1, <2>1, <2>3, <2>4 DEF TargetRegistered, Route, core
<1>2. CASE SendRequest
  BY <1>2 DEF SendRequest, TargetRegistered, IdleHttp
<1>3. ASSUME NEW c \in Procs, Handle(c)
      PROVE  TargetRegistered'
  <2>1. /\ http' = http
        /\ \A i \in Procs : \A n \in DOMAIN taken[i] :
             n \in DOMAIN taken'[i] /\ taken'[i][n] = taken[i][n]
    BY <1>3, TakenIs DEF Handle
  <2>2. http.at = "send" => http.conn \in Procs
    BY <1>0 DEF TypeOK, ThreadTypes, IdleHttp
  <2> QED
    BY <2>1, <2>2 DEF TargetRegistered
<1>4. CASE UNCHANGED <<http, taken>>
  BY <1>4 DEF TargetRegistered
<1> QED
  BY <1>1, <1>2, <1>3, <1>4, Steps
     DEF Fetch, Accept, Sweep, Destroy, Disconnect, Connect, EndLine, End, Write, core, vars

-----------------------------------------------------------------------------
Orderly == /\ InTurn /\ Queued /\ Named /\ Owned /\ Distinct
           /\ StaysRegistered /\ TargetRegistered

LEMMA OrderlyInit == Init => Orderly
<1> SUFFICES ASSUME Init PROVE Orderly
  OBVIOUS
<1>1. InTurn
  BY EarlierIs DEF Init, InTurn, Turn, Open
<1>2. Queued /\ Named /\ Owned /\ Distinct /\ StaysRegistered /\ TargetRegistered
  BY DEF Init, Queued, Named, Owned, Distinct, StaysRegistered, TargetRegistered, IdleHttp, Open
<1> QED
  BY <1>1, <1>2 DEF Orderly

LEMMA OrderlyStep == ~Overlap => (Sound /\ Orderly /\ [Next]_vars => Orderly')
<1> SUFFICES ASSUME ~Overlap, Sound, Orderly, [Next]_vars PROVE Orderly'
  OBVIOUS
<1>1. InTurn' /\ Queued' /\ Named' /\ Owned' /\ Distinct'
  BY InTurnStep, QueuedStep, NamedStep, OwnedStep, DistinctStep DEF Orderly
<1>2. StaysRegistered' /\ TargetRegistered'
  BY StaysStep, TargetStep DEF Orderly
<1> QED
  BY <1>1, <1>2 DEF Orderly

(* The invariant of registrations when a plugin has one process at a time,  *)
(* for any plugins, processes, endpoints and limits: who is accepted and    *)
(* disconnected in which order, and which entry records what.               *)
THEOREM OrderInvariant == ~Overlap => (Spec => []Orderly)
<1> SUFFICES ASSUME ~Overlap PROVE Spec => []Orderly
  OBVIOUS
<1>1. Sound /\ Orderly /\ [Next]_vars => Orderly'
  BY OrderlyStep
<1> QED
  BY <1>1, OrderlyInit, BrokerInvariant, PTL DEF Spec

(* What a connected process has registered stays registered, whatever its   *)
(* predecessor's disconnect removes (disconnect_client, server.c:486-493).  *)
THEOREM RegistrationsStay == ~Overlap => (Spec => []StaysRegistered)
<1> SUFFICES ASSUME ~Overlap PROVE Spec => []StaysRegistered
  OBVIOUS
<1>1. Orderly => StaysRegistered
  BY DEF Orderly
<1>2. Spec => []Orderly
  BY OrderInvariant
<1> QED
  BY <1>1, <1>2, PTL

(* Each registration is listed once and nothing of a predecessor is listed  *)
(* with it, whatever the process registers and how often: the swap of       *)
(* disconnect_client (server.c:486-493) neither doubles an entry nor leaves *)
(* one to the plugin's next process.                                        *)
THEOREM NoneListedTwice == ~Overlap => (Spec => []ListedOnce)
<1> SUFFICES ASSUME ~Overlap PROVE Spec => []ListedOnce
  OBVIOUS
<1>1. Sound /\ Orderly => ListedOnce
  BY OwnedDistinct DEF Orderly
<1>2. Spec => []Orderly
  BY OrderInvariant
<1> QED
  BY <1>1, <1>2, BrokerInvariant, PTL

(* http_async_handler sends a request to a process that registered the      *)
(* endpoint itself.                                                         *)
THEOREM TargetsRegistered == ~Overlap => (Spec => []TargetRegistered)
<1> SUFFICES ASSUME ~Overlap PROVE Spec => []TargetRegistered
  OBVIOUS
<1>1. Orderly => TargetRegistered
  BY DEF Orderly
<1>2. Spec => []Orderly
  BY OrderInvariant
<1> QED
  BY <1>1, <1>2, PTL
=============================================================================
