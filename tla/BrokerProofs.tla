----------------------------- MODULE BrokerProofs -----------------------------
(***************************************************************************)
(* What holds of the connections and the registry for any plugins,         *)
(* processes, endpoints and limits.                                        *)
(***************************************************************************)
EXTENDS Broker, TLAPS, SequenceTheorems

(* A connection has its own plugin's name, from hello until it is destroyed. *)
NameOwn == \A i \in Procs : /\ name[i] \in {NoName, i[1]}
                            /\ name[i] # NoName => Open(i)

(* What waits at the listener waits there once and has not been accepted.   *)
Waiting == /\ \A n \in DOMAIN backlog : plug[backlog[n]] # "new" /\ conn[backlog[n]] = "none"
           /\ \A m, n \in DOMAIN backlog : backlog[m] = backlog[n] => m = n
           /\ listen => backlog # <<>>
           /\ \A i \in Procs : plug[i] = "new" => conn[i] = "none"

(* The main thread works on open connections.                               *)
Handling == /\ \A i \in Procs : batch[i] # "none" => Open(i)
            /\ main.at = "sweep" => Open(main.conn) /\ batch[main.conn] = "none"

(* The loop invariant of the sweep.                                         *)
SweptSoFar == main.at = "sweep" =>
  \A j \in DOMAIN registry : j < main.k => registry[j].plugin # name[main.conn]

Sound == TypeOK /\ NameOwn /\ Waiting /\ Handling /\ SweptSoFar /\ EntriesAreConnected

-----------------------------------------------------------------------------
(* Sequences.                                                               *)
Entries == [plugin : Plugins, endpoint : Endpoints, of : Procs \X Nat]

LEMMA RegistryIs ==
  ASSUME RegistryTypes
  PROVE  /\ Len(registry) \in Nat /\ DOMAIN registry = 1 .. Len(registry)
         /\ \A k \in DOMAIN registry : registry[k] \in Entries
         /\ Len(registry) <= MaxEntries /\ MaxEntries \in Nat
<1>1. registry \in Seq(Entries) /\ Len(registry) <= MaxEntries
  BY DEF RegistryTypes, Entries
<1> HIDE DEF Entries
<1> QED
  BY <1>1, BrokerAssumption

LEMMA RemoveIs ==
  ASSUME RegistryTypes, NEW k \in DOMAIN registry, registry' = WithoutEntry(k)
  PROVE  /\ RegistryTypes'
         /\ \A m \in DOMAIN registry' : \E j \in DOMAIN registry :
              j # k /\ registry'[m] = registry[j] /\ (m < k => j = m)
         /\ \A j \in DOMAIN registry : j # k =>
              \E m \in DOMAIN registry' : registry'[m] = registry[j]
<1> DEFINE src(m) == IF m = k THEN Len(registry) ELSE m
           dst(j) == IF j = Len(registry) THEN k ELSE j
<1>1. Len(registry) \in Nat /\ DOMAIN registry = 1 .. Len(registry)
      /\ k \in 1 .. Len(registry) /\ Len(registry) <= MaxEntries /\ MaxEntries \in Nat
      /\ \A m \in DOMAIN registry : registry[m] \in Entries
  BY RegistryIs
<1>2. \A m \in 1 .. Len(registry) - 1 :
        src(m) \in DOMAIN registry /\ src(m) # k /\ (m < k => src(m) = m)
  <2>1. TAKE m \in 1 .. Len(registry) - 1
  <2>2. CASE m = k
    BY <1>1, <2>1, <2>2
  <2>3. CASE m # k
    BY <1>1, <2>1, <2>3
  <2> QED
    BY <2>2, <2>3
<1>3. \A j \in DOMAIN registry : j # k =>
        dst(j) \in 1 .. Len(registry) - 1 /\ src(dst(j)) = j
  BY <1>1
<1>4. registry' = [m \in 1 .. Len(registry) - 1 |-> registry[src(m)]]
  BY DEF WithoutEntry
<1> HIDE DEF src, dst, Entries
<1>5. registry' \in [1 .. Len(registry) - 1 -> Entries] /\ Len(registry) - 1 \in Nat
  BY <1>1, <1>2, <1>4
<1>6. registry' \in Seq(Entries) /\ Len(registry') = Len(registry) - 1
      /\ DOMAIN registry' = 1 .. Len(registry) - 1
  BY <1>5
<1>7. RegistryTypes'
  BY <1>1, <1>6 DEF RegistryTypes, Entries
<1>8. \A m \in DOMAIN registry' : registry'[m] = registry[src(m)]
  BY <1>4, <1>6
<1>9. \A m \in DOMAIN registry' : \E j \in DOMAIN registry :
        j # k /\ registry'[m] = registry[j] /\ (m < k => j = m)
  <2>1. TAKE m \in DOMAIN registry'
  <2>2. /\ src(m) \in DOMAIN registry /\ src(m) # k /\ (m < k => src(m) = m)
        /\ registry'[m] = registry[src(m)]
    BY <1>2, <1>6, <1>8, <2>1
  <2> QED
    BY <2>2
<1>10. \A j \in DOMAIN registry : j # k =>
         \E m \in DOMAIN registry' : registry'[m] = registry[j]
  <2>1. TAKE j \in DOMAIN registry
  <2>2. HAVE j # k
  <2>3. dst(j) \in DOMAIN registry' /\ registry'[dst(j)] = registry[j]
    BY <1>3, <1>6, <1>8, <2>1, <2>2
  <2> QED
    BY <2>3
<1> QED
  BY <1>7, <1>9, <1>10

LEMMA AppendIs ==
  ASSUME RegistryTypes, NEW x \in Entries, Len(registry) < MaxEntries,
         registry' = Append(registry, x)
  PROVE  /\ RegistryTypes'
         /\ Len(registry') = Len(registry) + 1 /\ DOMAIN registry' = 1 .. Len(registry')
         /\ \A k \in DOMAIN registry : k \in DOMAIN registry' /\ registry'[k] = registry[k]
         /\ registry'[Len(registry')] = x
<1>1. registry \in Seq(Entries) /\ Len(registry) \in Nat /\ MaxEntries \in Nat
  BY RegistryIs DEF RegistryTypes, Entries
<1> HIDE DEF Entries
<1>2. /\ registry' \in Seq(Entries)
      /\ Len(registry') = Len(registry) + 1 /\ DOMAIN registry' = 1 .. Len(registry')
      /\ \A k \in DOMAIN registry : k \in DOMAIN registry' /\ registry'[k] = registry[k]
      /\ registry'[Len(registry')] = x
  BY <1>1
<1> QED
  BY <1>1, <1>2 DEF RegistryTypes, Entries

(* What a registration records (ipc_handlers.c:253-258).                    *)
LEMMA EntryIs ==
  ASSUME TypeOK, NEW i \in Procs, NEW e \in Endpoints, name[i] # NoName
  PROVE  /\ Entry(i, e) \in Entries
         /\ Entry(i, e).plugin = name[i] /\ Entry(i, e).endpoint = e
         /\ Entry(i, e).of = <<i, Len(taken[i]) + 1>> /\ Len(taken[i]) \in Nat
<1>1. Len(taken[i]) \in Nat /\ name[i] \in Plugins
  BY DEF TypeOK, ConnTypes
<1> QED
  BY <1>1 DEF Entry, Entries

LEMMA BacklogIs ==
  ASSUME ConnTypes, backlog # <<>>, backlog' = Tail(backlog)
  PROVE  /\ backlog' \in Seq(Procs) /\ Head(backlog) = backlog[1] /\ backlog[1] \in Procs
         /\ 1 \in DOMAIN backlog
         /\ \A n \in DOMAIN backlog' : /\ n \in Nat /\ n + 1 \in DOMAIN backlog
                                       /\ backlog'[n] = backlog[n + 1]
<1>1. backlog \in Seq(Procs)
  BY DEF ConnTypes
<1> QED
  BY <1>1

LEMMA JoinIs ==
  ASSUME ConnTypes, NEW i \in Procs, backlog' = Append(backlog, i)
  PROVE  /\ backlog' \in Seq(Procs) /\ backlog' # <<>>
         /\ DOMAIN backlog = 1 .. Len(backlog) /\ Len(backlog) \in Nat
         /\ DOMAIN backlog' = 1 .. Len(backlog) + 1
         /\ \A n \in DOMAIN backlog : backlog'[n] = backlog[n] /\ backlog[n] \in Procs
         /\ backlog'[Len(backlog) + 1] = i
<1>1. backlog \in Seq(Procs)
  BY DEF ConnTypes
<1> QED
  BY <1>1

-----------------------------------------------------------------------------
(* Types.                                                                   *)
LEMMA TypeInit == Init => TypeOK
<1> SUFFICES ASSUME Init PROVE TypeOK
  OBVIOUS
<1>1. PeerTypes
  BY BrokerAssumption DEF Init, PeerTypes
<1>2. ConnTypes
  BY DEF Init, ConnTypes
<1>3. RegistryTypes
  BY BrokerAssumption DEF Init, RegistryTypes
<1>4. ThreadTypes
  BY DEF Init, ThreadTypes
<1> QED
  BY <1>1, <1>2, <1>3, <1>4 DEF TypeOK

(* The steps that leave the main thread's state alone.                      *)
LEMMA TypePeer ==
  ASSUME TypeOK, NEW i \in Procs,
         EndLine(i) \/ End(i) \/ (\E l \in Lines : Write(i, l))
  PROVE  TypeOK'
<1>1. PeerTypes'
  <2>1. CASE \E l \in Lines : Write(i, l)
    <3>1. PICK l \in Lines : Write(i, l)
      BY <2>1
    <3>2. said \in [Procs -> Nat] /\ MaxLines \in [Procs -> Nat]
          /\ \A j \in Procs : said[j] <= MaxLines[j]
      BY BrokerAssumption DEF PeerTypes, TypeOK
    <3>3. said[i] < MaxLines[i] /\ said' = [said EXCEPT ![i] = @ + 1]
      BY <3>1 DEF Write
    <3>4. said' \in [Procs -> Nat] /\ \A j \in Procs : said'[j] <= MaxLines[j]
      <4>1. said' \in [Procs -> Nat] /\ said'[i] = said[i] + 1
            /\ \A j \in Procs \ {i} : said'[j] = said[j]
        BY <3>2, <3>3
      <4>2. said[i] \in Nat /\ MaxLines[i] \in Nat
        BY <3>2
      <4>3. said'[i] <= MaxLines[i]
        BY <3>3, <4>1, <4>2
      <4> QED
        BY <3>2, <4>1, <4>3
    <3> QED
      BY <3>1, <3>4 DEF Write, PeerTypes, TypeOK
  <2>2. CASE EndLine(i)
    BY <2>2 DEF EndLine, PeerTypes, TypeOK
  <2>3. CASE End(i)
    <3>1. said' \in [Procs -> Nat] /\ \A j \in Procs : said'[j] <= MaxLines[j]
      <4>1. MaxLines[i] \in Nat /\ 0 <= MaxLines[i]
        BY BrokerAssumption
      <4> QED
        BY <2>3, <4>1 DEF End, PeerTypes, TypeOK
    <3> QED
      BY <2>3, <3>1 DEF End, PeerTypes, TypeOK
  <2> QED
    BY <2>1, <2>2, <2>3
<1> QED
  BY <1>1 DEF Write, EndLine, End, core, TypeOK, ConnTypes, RegistryTypes, ThreadTypes

LEMMA TypeConnect ==
  ASSUME TypeOK, NEW i \in Procs, Connect(i)
  PROVE  TypeOK'
<1>1. PeerTypes'
  BY DEF Connect, PeerTypes, TypeOK
<1>2. ConnTypes'
  BY JoinIs DEF Connect, ConnTypes, TypeOK, core
<1> QED
  BY <1>1, <1>2 DEF Connect, core, TypeOK, RegistryTypes, ThreadTypes

LEMMA TypeHttp ==
  ASSUME TypeOK, SendRequest \/ (\E e \in Endpoints : Route(e))
  PROVE  TypeOK'
<1>1. ThreadTypes'
  BY DEF SendRequest, Route, ThreadTypes, TypeOK
<1> QED
  BY <1>1 DEF SendRequest, Route, peer, core, TypeOK, PeerTypes, ConnTypes, RegistryTypes

LEMMA TypeFetch ==
  ASSUME TypeOK, Fetch
  PROVE  TypeOK'
<1>1. ThreadTypes'
  BY DEF Fetch, Events, Event, ThreadTypes, TypeOK
<1> QED
  BY <1>1 DEF Fetch, peer, core, TypeOK, PeerTypes, ConnTypes, RegistryTypes

LEMMA TypeAccept ==
  ASSUME TypeOK, Waiting, Accept
  PROVE  TypeOK'
<1>1. backlog # <<>> /\ backlog' = Tail(backlog)
  BY DEF Accept, Waiting
<1>2. ConnTypes'
  BY <1>1, BacklogIs DEF Accept, ConnTypes, TypeOK
<1> QED
  BY <1>2 DEF Accept, peer, TypeOK, PeerTypes, ThreadTypes, RegistryTypes

LEMMA BufferedType ==
  ASSUME TypeOK, NEW i \in Procs
  PROVE  /\ Buffered(i) \in Seq(Lines \cup {Newline})
         /\ Unread(i) \in Seq(Lines \cup {Newline})
BY DEF Buffered, Unread, TypeOK, PeerTypes, ConnTypes

(* What handling a line may do.                                             *)
LEMMA HandleIs ==
  ASSUME TypeOK, NEW i \in Procs, Handle(i)
  PROVE  \E n \in DOMAIN Buffered(i) :
           /\ EndsLine(Buffered(i), n) /\ n \in Nat
           /\ buf' = [buf EXCEPT ![i] = SubSeq(Buffered(i), n + 1, Len(Buffered(i)))]
           /\ SubSeq(Buffered(i), n + 1, Len(Buffered(i))) \in Seq(Lines \cup {Newline})
           /\ \/ Buffered(i)[1] = "hello" /\ Hello(i)
              \/ Buffered(i)[1] \in Endpoints /\ Register(i, Buffered(i)[1])
<1>1. PICK n \in DOMAIN Buffered(i) :
        /\ EndsLine(Buffered(i), n) /\ Command(i, Buffered(i)[1])
        /\ buf' = [buf EXCEPT ![i] = SubSeq(Buffered(i), n + 1, Len(Buffered(i)))]
  BY DEF Handle
<1>2. n \in Nat /\ SubSeq(Buffered(i), n + 1, Len(Buffered(i))) \in Seq(Lines \cup {Newline})
  BY BufferedType
<1> QED
  BY <1>1, <1>2 DEF Command

LEMMA TypeHandle ==
  ASSUME TypeOK, NEW i \in Procs, Handle(i)
  PROVE  TypeOK'
<1>1. PICK n \in DOMAIN Buffered(i) :
        /\ buf' = [buf EXCEPT ![i] = SubSeq(Buffered(i), n + 1, Len(Buffered(i)))]
        /\ SubSeq(Buffered(i), n + 1, Len(Buffered(i))) \in Seq(Lines \cup {Newline})
        /\ \/ Buffered(i)[1] = "hello" /\ Hello(i)
           \/ Buffered(i)[1] \in Endpoints /\ Register(i, Buffered(i)[1])
  BY HandleIs
<1>2. PeerTypes' /\ ThreadTypes'
  BY BufferedType DEF Handle, PeerTypes, ThreadTypes, TypeOK
<1>3. buf' \in [Procs -> Seq(Lines \cup {Newline})]
  BY <1>1 DEF ConnTypes, TypeOK
<1>4. CASE Hello(i)
  <2>1. name' \in [Procs -> Plugins \cup {NoName}]
    BY <1>4 DEF Hello, ConnTypes, TypeOK, Plugins
  <2> QED
    BY <1>2, <1>3, <1>4, <2>1 DEF Hello, Handle, ConnTypes, RegistryTypes, TypeOK
<1>5. CASE Buffered(i)[1] \in Endpoints /\ Register(i, Buffered(i)[1])
  <2> DEFINE e == Buffered(i)[1]
  <2>1. CASE name[i] # NoName /\ Len(registry) < MaxEntries
    <3>1. Entry(i, e) \in Entries
      BY <1>5, <2>1, EntryIs
    <3>2. registry' = Append(registry, Entry(i, e)) /\ taken' = [taken EXCEPT ![i] = Append(@, e)]
      BY <1>5, <2>1 DEF Register
    <3>3. RegistryTypes'
      BY <2>1, <3>1, <3>2, AppendIs DEF TypeOK
    <3>4. taken' \in [Procs -> Seq(Endpoints)]
      BY <1>5, <3>2 DEF ConnTypes, TypeOK
    <3> QED
      BY <1>2, <1>3, <1>5, <3>3, <3>4 DEF Register, Handle, ConnTypes, TypeOK
  <2>2. CASE ~(name[i] # NoName /\ Len(registry) < MaxEntries)
    BY <1>2, <1>3, <1>5, <2>2 DEF Register, Handle, ConnTypes, RegistryTypes, TypeOK
  <2> QED
    BY <2>1, <2>2
<1> QED
  BY <1>1, <1>4, <1>5

LEMMA TypeDisconnect ==
  ASSUME TypeOK, NEW i \in Procs, Disconnect(i)
  PROVE  TypeOK'
<1>1. ThreadTypes'
  BY BrokerAssumption DEF Disconnect, ThreadTypes, TypeOK
<1> QED
  BY <1>1 DEF Disconnect, peer, core, TypeOK, PeerTypes, ConnTypes, RegistryTypes

(* A round of the sweep: at main.k there is an entry to look at.            *)
LEMMA SweepIs ==
  ASSUME TypeOK, Sweep
  PROVE  /\ main.conn \in Procs /\ main.k \in DOMAIN registry /\ main.k \in Nat
         /\ main.at = "sweep" /\ name[main.conn] # NoName
         /\ \/ /\ registry[main.k].plugin = name[main.conn]
               /\ registry' = WithoutEntry(main.k) /\ main' = main
            \/ /\ registry[main.k].plugin # name[main.conn]
               /\ main'.at = "sweep" /\ main'.conn = main.conn /\ main'.k = main.k + 1
               /\ registry' = registry
<1>1. main \in [at : {"sweep"}, conn : Procs, k : 1 .. MaxEntries + 1]
  BY DEF Sweep, ThreadTypes, TypeOK, InLoop
<1>2. main.k \in DOMAIN registry /\ name[main.conn] # NoName
  BY <1>1, RegistryIs DEF Sweep, Swept, TypeOK
<1> QED
  BY <1>1, <1>2 DEF Sweep

LEMMA TypeSweep ==
  ASSUME TypeOK, Sweep
  PROVE  TypeOK'
<1>1. RegistryTypes'
  BY SweepIs, RemoveIs DEF TypeOK, RegistryTypes
<1>2. ThreadTypes'
  <2>1. main \in [at : {"sweep"}, conn : Procs, k : 1 .. MaxEntries + 1]
    BY DEF Sweep, ThreadTypes, TypeOK, InLoop
  <2>2. CASE main' = main
    BY <2>2 DEF Sweep, ThreadTypes, TypeOK
  <2>3. CASE main' = [main EXCEPT !.k = @ + 1]
    <3>1. main.k + 1 \in 1 .. MaxEntries + 1
      BY <2>1, SweepIs, RegistryIs DEF TypeOK
    <3>2. main' \in [at : {"sweep"}, conn : Procs, k : 1 .. MaxEntries + 1]
      BY <2>1, <2>3, <3>1
    <3> QED
      BY <3>2 DEF Sweep, ThreadTypes, TypeOK
  <2> QED
    BY <2>2, <2>3 DEF Sweep
<1> QED
  BY <1>1, <1>2 DEF Sweep, peer, TypeOK, PeerTypes, ConnTypes

LEMMA DestroyIs ==
  ASSUME TypeOK, Destroy
  PROVE  /\ main.conn \in Procs /\ main.at = "sweep" /\ main' = InLoop
         /\ name[main.conn] = NoName \/ main.k > Len(registry)
         /\ main.k \in Nat
BY DEF Destroy, Swept, ThreadTypes, TypeOK, InLoop

LEMMA TypeDestroy ==
  ASSUME TypeOK, Destroy
  PROVE  TypeOK'
<1>1. PeerTypes'
  BY DestroyIs DEF Destroy, Release, PeerTypes, TypeOK
<1>2. ConnTypes'
  BY DestroyIs DEF Destroy, Release, ConnTypes, TypeOK
<1>3. RegistryTypes' /\ ThreadTypes'
  BY DEF Destroy, RegistryTypes, ThreadTypes, TypeOK
<1> QED
  BY <1>1, <1>2, <1>3 DEF TypeOK

LEMMA Steps ==
  ASSUME [Next]_vars
  PROVE  \/ Fetch \/ Accept \/ Sweep \/ Destroy \/ SendRequest
         \/ \E e \in Endpoints : Route(e)
         \/ \E i \in Procs : \/ Handle(i) \/ Disconnect(i) \/ Connect(i) \/ EndLine(i) \/ End(i)
                             \/ \E l \in Lines : Write(i, l)
         \/ UNCHANGED vars
BY DEF Next, MainStep

LEMMA TypeStep ==
  ASSUME TypeOK, Waiting, [Next]_vars
  PROVE  TypeOK'
<1>1. CASE UNCHANGED vars
  BY <1>1 DEF vars, peer, core, TypeOK, PeerTypes, ConnTypes, RegistryTypes, ThreadTypes
<1> QED
  BY <1>1, Steps, TypeFetch, TypeAccept, TypeSweep, TypeDestroy, TypeHttp, TypeHandle,
     TypeDisconnect, TypeConnect, TypePeer
-----------------------------------------------------------------------------
(* The parts of Sound, step by step.                                        *)
LEMMA NameOwnStep ==
  ASSUME Sound, [Next]_vars
  PROVE  NameOwn'
<1>0. TypeOK /\ NameOwn /\ Handling /\ Waiting
  BY DEF Sound
<1>1. ASSUME NEW i \in Procs, Handle(i)
      PROVE  NameOwn'
  <2>1. Open(i) /\ conn' = conn
    BY <1>0, <1>1 DEF Handle, Handling
  <2>2. Hello(i) \/ name' = name
    BY <1>0, <1>1, HandleIs DEF Register
  <2> QED
    BY <1>0, <2>1, <2>2 DEF NameOwn, Open, Hello, TypeOK, ConnTypes
<1>2. CASE Accept
  <2>1. backlog[1] \in Procs /\ conn[backlog[1]] = "none" /\ Head(backlog) = backlog[1]
    BY <1>0, <1>2, BacklogIs DEF Accept, Waiting, TypeOK
  <2> QED
    BY <1>0, <1>2, <2>1 DEF Accept, NameOwn, Open, TypeOK, ConnTypes
<1>3. CASE Destroy
  BY <1>0, <1>3, DestroyIs DEF Destroy, Release, NameOwn, Open, TypeOK, ConnTypes
<1>4. CASE UNCHANGED <<conn, name>>
  BY <1>0, <1>4 DEF NameOwn, Open
<1> QED
  BY <1>1, <1>2, <1>3, <1>4, Steps
     DEF Fetch, Sweep, SendRequest, Route, Disconnect, Connect, EndLine, End, Write, core, vars

LEMMA WaitingStep ==
  ASSUME Sound, [Next]_vars
  PROVE  Waiting'
<1>0. TypeOK /\ Waiting
  BY DEF Sound
<1>1. ASSUME NEW i \in Procs, Connect(i)
      PROVE  Waiting'
  <2>1. /\ plug[i] = "new" /\ plug' = [plug EXCEPT ![i] = "up"]
        /\ backlog' = Append(backlog, i) /\ conn' = conn /\ listen' = listen
    BY <1>1 DEF Connect, core
  <2>2. /\ backlog' # <<>> /\ Len(backlog) \in Nat
        /\ DOMAIN backlog = 1 .. Len(backlog) /\ DOMAIN backlog' = 1 .. Len(backlog) + 1
        /\ \A n \in DOMAIN backlog : backlog'[n] = backlog[n] /\ backlog[n] \in Procs
        /\ backlog'[Len(backlog) + 1] = i
    BY <1>0, <2>1, JoinIs DEF TypeOK
  <2>3. \A n \in DOMAIN backlog : backlog[n] # i
    BY <1>0, <2>1 DEF Waiting
  <2>4. \A n \in DOMAIN backlog' : plug'[backlog'[n]] # "new" /\ conn'[backlog'[n]] = "none"
    BY <1>0, <2>1, <2>2, <2>3 DEF Waiting, TypeOK, PeerTypes
  <2>5. \A m, n \in DOMAIN backlog' : backlog'[m] = backlog'[n] => m = n
    BY <1>0, <2>2, <2>3 DEF Waiting
  <2>6. \A j \in Procs : plug'[j] = "new" => conn'[j] = "none"
    BY <1>0, <2>1 DEF Waiting, TypeOK, PeerTypes
  <2> QED
    BY <2>2, <2>4, <2>5, <2>6 DEF Waiting
<1>2. CASE Accept
  <2>1. /\ backlog # <<>> /\ backlog' = Tail(backlog) /\ ~listen'
        /\ plug' = plug /\ \A i \in Procs : i # Head(backlog) => conn'[i] = conn[i]
    BY <1>0, <1>2 DEF Accept, Waiting, peer, TypeOK, ConnTypes
  <2>2. /\ Head(backlog) = backlog[1] /\ backlog[1] \in Procs /\ 1 \in DOMAIN backlog
        /\ \A n \in DOMAIN backlog' : /\ n \in Nat /\ n + 1 \in DOMAIN backlog
                                      /\ backlog'[n] = backlog[n + 1]
        /\ backlog' \in Seq(Procs)
    BY <1>0, <2>1, BacklogIs DEF TypeOK
  <2>3. \A n \in DOMAIN backlog' : n \in Nat /\ n + 1 # 1 /\ backlog'[n] \in Procs
    BY <2>2
  <2>4. \A n \in DOMAIN backlog' : backlog'[n] # backlog[1]
    BY <1>0, <2>2, <2>3 DEF Waiting
  <2>5. \A n \in DOMAIN backlog' : plug'[backlog'[n]] # "new" /\ conn'[backlog'[n]] = "none"
    BY <1>0, <2>1, <2>2, <2>3, <2>4 DEF Waiting
  <2>6. \A m, n \in DOMAIN backlog' : backlog'[m] = backlog'[n] => m = n
    <3>1. TAKE m, n \in DOMAIN backlog'
    <3>2. HAVE backlog'[m] = backlog'[n]
    <3>3. m + 1 = n + 1 /\ m \in Nat /\ n \in Nat
      BY <1>0, <2>2, <3>1, <3>2 DEF Waiting
    <3> QED
      BY <3>3
  <2>7. \A j \in Procs : plug'[j] = "new" => conn'[j] = "none"
    BY <1>0, <2>1, <2>2 DEF Waiting
  <2> QED
    BY <2>1, <2>5, <2>6, <2>7 DEF Waiting
<1>3. CASE Destroy
  <2>1. /\ main.conn \in Procs /\ Open(main.conn)
        /\ backlog' = backlog /\ plug' = plug /\ listen' = listen
        /\ \A i \in Procs : i # main.conn => conn'[i] = conn[i]
    BY <1>0, <1>3, DestroyIs DEF Destroy, Sound, Handling, TypeOK, ConnTypes
  <2>2. backlog \in Seq(Procs) /\ \A n \in DOMAIN backlog : backlog[n] \in Procs
    BY <1>0 DEF TypeOK, ConnTypes
  <2> QED
    BY <1>0, <2>1, <2>2 DEF Waiting, Open
<1>4. ASSUME NEW i \in Procs, EndLine(i) \/ End(i) \/ \E l \in Lines : Write(i, l)
      PROVE  Waiting'
  <2>1. /\ plug[i] # "new" /\ plug'[i] # "new" /\ \A j \in Procs \ {i} : plug'[j] = plug[j]
        /\ backlog' = backlog /\ conn' = conn /\ listen' = listen
    BY <1>0, <1>4 DEF EndLine, End, Write, core, TypeOK, PeerTypes
  <2>2. backlog \in Seq(Procs) /\ \A n \in DOMAIN backlog : backlog[n] \in Procs
    BY <1>0 DEF TypeOK, ConnTypes
  <2> QED
    BY <1>0, <2>1, <2>2 DEF Waiting
<1>5. CASE Fetch
  BY <1>0, <1>5 DEF Fetch, Waiting, peer, core
<1>6. CASE UNCHANGED <<plug, conn, backlog, listen>>
  BY <1>0, <1>6 DEF Waiting
<1> QED
  BY <1>1, <1>2, <1>3, <1>4, <1>5, <1>6, Steps
     DEF Sweep, SendRequest, Route, Handle, Disconnect, peer, core, vars

LEMMA HandlingStep ==
  ASSUME Sound, [Next]_vars
  PROVE  Handling'
<1>0. TypeOK /\ Waiting /\ Handling
  BY DEF Sound
<1>1. CASE Fetch
  BY <1>0, <1>1 DEF Fetch, Idle, Events, Event, Handling, Open, core
<1>2. CASE Accept
  <2>1. backlog[1] \in Procs /\ conn[backlog[1]] = "none" /\ Head(backlog) = backlog[1]
    BY <1>0, <1>2, BacklogIs DEF Accept, Waiting, TypeOK
  <2> QED
    BY <1>0, <1>2, <2>1 DEF Accept, Handling, Open, TypeOK, ConnTypes
<1>3. CASE Destroy
  BY <1>0, <1>3, DestroyIs DEF Destroy, Handling, Open, InLoop, TypeOK, ConnTypes
<1>4. CASE Sweep
  BY <1>0, <1>4, SweepIs DEF Sweep, Handling, Open
<1>5. ASSUME NEW i \in Procs, Disconnect(i)
      PROVE  Handling'
  BY <1>0, <1>5 DEF Disconnect, Handling, Open, core, TypeOK, ThreadTypes
<1>6. ASSUME NEW i \in Procs, Handle(i)
      PROVE  Handling'
  BY <1>0, <1>6 DEF Handle, Handling, Open, TypeOK, ThreadTypes
<1>7. CASE UNCHANGED <<conn, batch, main>>
  BY <1>0, <1>7 DEF Handling, Open
<1> QED
  BY <1>1, <1>2, <1>3, <1>4, <1>5, <1>6, <1>7, Steps
     DEF SendRequest, Route, Connect, EndLine, End, Write, core, vars

LEMMA SweptSoFarStep ==
  ASSUME Sound, [Next]_vars
  PROVE  SweptSoFar'
<1>0. TypeOK /\ SweptSoFar /\ RegistryTypes
  BY DEF Sound, TypeOK
<1>1. CASE Sweep
  <2>1. CASE /\ registry[main.k].plugin # name[main.conn] /\ registry' = registry
             /\ main'.at = "sweep" /\ main'.conn = main.conn /\ main'.k = main.k + 1
    BY <1>0, <1>1, <2>1, SweepIs, RegistryIs DEF Sweep, SweptSoFar
  <2>2. CASE registry' = WithoutEntry(main.k) /\ main' = main
    <3>1. /\ name' = name
          /\ \A m \in DOMAIN registry' : \E j \in DOMAIN registry :
               registry'[m] = registry[j] /\ (m < main.k => j = m)
      BY <1>0, <1>1, <2>2, SweepIs, RemoveIs DEF Sweep
    <3> QED
      BY <1>0, <2>2, <3>1 DEF SweptSoFar
  <2> QED
    BY <1>0, <1>1, <2>1, <2>2, SweepIs
<1>2. ASSUME NEW i \in Procs, Disconnect(i)
      PROVE  SweptSoFar'
  BY <1>0, <1>2, RegistryIs DEF Disconnect, SweptSoFar, core
<1>3. CASE main'.at # "sweep"
  BY <1>3 DEF SweptSoFar
<1>4. CASE UNCHANGED <<registry, main, name>>
  BY <1>0, <1>4 DEF SweptSoFar
<1>5. ASSUME NEW i \in Procs, Handle(i)
      PROVE  main'.at # "sweep"
  BY <1>5 DEF Handle
<1>6. Destroy => main'.at # "sweep"
  BY DEF Destroy, InLoop
<1> QED
  BY <1>1, <1>2, <1>3, <1>4, <1>5, <1>6, Steps
     DEF Fetch, Accept, SendRequest, Route, Connect, EndLine, End, Write, core, vars

LEMMA EntriesStep ==
  ASSUME Sound, [Next]_vars
  PROVE  EntriesAreConnected'
<1>0. /\ TypeOK /\ NameOwn /\ Waiting /\ Handling /\ SweptSoFar
      /\ EntriesAreConnected /\ RegistryTypes
  BY DEF Sound, TypeOK
<1>1. ASSUME NEW i \in Procs, Handle(i)
      PROVE  EntriesAreConnected'
  <2>1. Open(i) /\ conn' = conn
    BY <1>0, <1>1 DEF Handle, Handling
  <2>2. CASE Hello(i)
    <3>1. registry' = registry /\ \A j \in Procs : name[j] # NoName => name'[j] = name[j]
      BY <1>0, <2>2 DEF Hello, NameOwn, TypeOK, ConnTypes
    <3>2. \A k \in DOMAIN registry : registry[k].plugin # NoName
      BY <1>0, RegistryIs, BrokerAssumption DEF Entries
    <3> QED
      BY <1>0, <2>1, <3>1, <3>2 DEF EntriesAreConnected, Open
  <2>3. ASSUME NEW e \in Endpoints, Register(i, e)
        PROVE  EntriesAreConnected'
    <3>1. CASE registry' = registry
      BY <1>0, <2>1, <2>3, <3>1 DEF EntriesAreConnected, Open, Register
    <3>2. CASE name[i] # NoName /\ Len(registry) < MaxEntries
      <4>1. Entry(i, e) \in Entries /\ Entry(i, e).plugin = name[i]
        BY <1>0, <3>2, EntryIs
      <4>2. registry' = Append(registry, Entry(i, e)) /\ name' = name
        BY <2>3, <3>2 DEF Register
      <4>3. /\ Len(registry') = Len(registry) + 1 /\ DOMAIN registry' = 1 .. Len(registry')
            /\ \A k \in DOMAIN registry : registry'[k] = registry[k]
            /\ registry'[Len(registry')] = Entry(i, e)
        BY <1>0, <3>2, <4>1, <4>2, AppendIs
      <4>4. \A k \in DOMAIN registry' : k \in DOMAIN registry \/ k = Len(registry')
        BY <1>0, <4>3, RegistryIs
      <4>5. ASSUME NEW k \in DOMAIN registry'
            PROVE  \E j \in Procs : Open(j) /\ name[j] = registry'[k].plugin
        BY <1>0, <2>1, <4>1, <4>3, <4>4, <4>5 DEF EntriesAreConnected
      <4> QED
        BY <2>1, <4>2, <4>5 DEF EntriesAreConnected, Open
    <3> QED
      BY <2>3, <3>1, <3>2 DEF Register
  <2> QED
    BY <1>0, <1>1, <2>2, <2>3, HandleIs
<1>2. CASE Accept
  <2>1. backlog[1] \in Procs /\ conn[backlog[1]] = "none" /\ Head(backlog) = backlog[1]
    BY <1>0, <1>2, BacklogIs DEF Accept, Waiting, TypeOK
  <2>2. \A i \in Procs : Open(i) => Open(i)'
    BY <1>0, <1>2, <2>1 DEF Accept, Open, TypeOK, ConnTypes
  <2> QED
    BY <1>0, <1>2, <2>2 DEF Accept, EntriesAreConnected
<1>3. CASE Sweep
  <2>1. \A m \in DOMAIN registry' : \E j \in DOMAIN registry : registry'[m] = registry[j]
    BY <1>0, <1>3, SweepIs, RemoveIs
  <2> QED
    BY <1>0, <1>3, <2>1 DEF Sweep, EntriesAreConnected, Open
<1>4. CASE Destroy
  <2>1. main.conn \in Procs /\ main.at = "sweep"
        /\ (name[main.conn] = NoName \/ main.k > Len(registry)) /\ main.k \in Nat
    BY <1>0, <1>4, DestroyIs
  <2>2. \A i \in Procs : i # main.conn => conn'[i] = conn[i] /\ name'[i] = name[i]
    BY <1>0, <1>4, <2>1 DEF Destroy, Release, TypeOK, ConnTypes
  <2>3. \A k \in DOMAIN registry : registry[k].plugin # name[main.conn]
    <3>1. CASE name[main.conn] = NoName
      BY <1>0, <3>1, RegistryIs, BrokerAssumption DEF Entries
    <3>2. CASE main.k > Len(registry)
      BY <1>0, <2>1, <3>2, RegistryIs DEF SweptSoFar
    <3> QED
      BY <2>1, <3>1, <3>2
  <2>4. registry' = registry
    BY <1>4 DEF Destroy
  <2> QED
    BY <1>0, <2>2, <2>3, <2>4 DEF EntriesAreConnected, Open
<1>5. CASE UNCHANGED <<registry, conn, name>>
  BY <1>0, <1>5 DEF EntriesAreConnected, Open
<1> QED
  BY <1>1, <1>2, <1>3, <1>4, <1>5, Steps
     DEF Fetch, SendRequest, Route, Disconnect, Connect, EndLine, End, Write, core, vars

-----------------------------------------------------------------------------
(* The invariant of connections and registry, whatever the number of        *)
(* plugins, processes and endpoints, and whether or not a plugin may have   *)
(* two processes.                                                           *)
THEOREM BrokerInvariant == Spec => []Sound
<1>1. Init => Sound
  <2> SUFFICES ASSUME Init PROVE Sound
    OBVIOUS
  <2>1. NameOwn /\ Handling /\ SweptSoFar
    BY DEF Init, NameOwn, Handling, SweptSoFar, InLoop
  <2>2. Waiting /\ EntriesAreConnected
    BY DEF Init, Waiting, EntriesAreConnected
  <2> QED
    BY <2>1, <2>2, TypeInit DEF Sound
<1>2. Sound /\ [Next]_vars => Sound'
  <2> SUFFICES ASSUME Sound, [Next]_vars PROVE Sound'
    OBVIOUS
  <2>1. TypeOK'
    BY TypeStep DEF Sound
  <2> QED
    BY <2>1, NameOwnStep, WaitingStep, HandlingStep, SweptSoFarStep, EntriesStep DEF Sound
<1> QED
  BY <1>1, <1>2, PTL DEF Spec

(* Values stay in their types; the registry never has more entries than     *)
(* room (cmd_register_endpoint_handler).                                    *)
THEOREM TypeCorrect == Spec => []TypeOK
<1>1. Sound => TypeOK
  BY DEF Sound
<1> QED
  BY <1>1, BrokerInvariant, PTL

(* What a plugin registered goes with its connection (disconnect_client).   *)
THEOREM NoDanglingEntry == Spec => []EntriesAreConnected
<1>1. Sound => EntriesAreConnected
  BY DEF Sound
<1> QED
  BY <1>1, BrokerInvariant, PTL
=============================================================================
