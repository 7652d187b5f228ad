--------------------------- MODULE HttpServerProofs ---------------------------
(***************************************************************************)
(* Proofs about HttpServer for any pool of slots, any number of clients    *)
(* and any sizes, as long as every response fits: one that does not makes  *)
(* the main thread close a connection that the HTTP thread is using, and   *)
(* RefsCoverHolders is then false (MCHttpServer.cfg, Fits = {TRUE, FALSE}). *)
(***************************************************************************)
EXTENDS HttpServer, TLAPS, SequenceTheorems

AllFit == Fits \subseteq {TRUE}

(* Every connection in use has an id of its own, drawn once.                *)
Idents == \A c \in Conns :
  /\ Used(c) <=> id[c] # NoId
  /\ id[c] # NoId => peer[id[c]] \notin {"new", "refused"}
  /\ \A d \in Conns : id[c] = id[d] /\ id[c] # NoId => c = d

(* epoll knows open connections only, and has events for none else.         *)
Sockets == \A c \in Conns :
  /\ Watched(c) => Used(c)
  /\ batch[c] # {} \/ edge[c] # {} => Watched(c)

(* What a thread knows of the connection in its hands.                      *)
HttpHands ==
  /\ pc["http"].at \in {"loop", "park", "close", "closed"}
  /\ pc["http"].conn = NoConn <=> At("http", "loop")
  /\ \A c \in Conns : pc["http"].conn = c =>
       /\ Used(c) /\ batch[c] = {}
       /\ Watched(c) <=> ~At("http", "closed")
       /\ At("http", "park") => st[c] = "processing" /\ id[c] = pc["http"].id

MainHands ==
  /\ pc["main"].at \in {"loop", "copy", "arm", "unref"}
  /\ pc["main"].conn = NoConn <=> At("main", "loop")
  /\ \A c \in Conns : MainHas(c) => id[c] = pc["main"].id /\ id[c] # NoId

(* Until it is parked, a connection has the event loop's reference only.    *)
Unparked(c) == st[c] = "reading" \/ (At("http", "park") /\ pc["http"].conn = c)
Fresh == \A c \in Conns :
  Unparked(c) => refs[c] = 1 /\ ~TableHas(c) /\ ~MainHas(c)

(* A connection's response is the core's or the plugin's answer to its id.  *)
Bodies == \A c \in Conns : resp[c] \in {NoId, Core, id[c]}

Inv == /\ TypeOK /\ RefsCoverHolders /\ PendingIsOwn /\ RightClient
       /\ Idents /\ Sockets /\ HttpHands /\ MainHands /\ Fresh /\ Bodies

-----------------------------------------------------------------------------
(* Ids and clients.                                                         *)
LEMMA IdTypes == /\ Ids \subseteq Nat /\ NoId \notin Ids /\ Core \notin Ids /\ Core # NoId
                 /\ \A b \in BOOLEAN : Count(b) \in {0, 1}
BY HttpAssumption DEF Ids, NoId, Core, Count

(* Where a thread goes.                                                     *)
LEMMA GotoIs ==
  ASSUME ThreadTypes, NEW t \in {"http", "main"}, NEW where, NEW c, NEW i,
         Goto(t, where, c, i)
  PROVE  /\ pc'[t].at = where /\ pc'[t].conn = c /\ pc'[t].id = i
         /\ \A u \in {"http", "main"} : u # t => pc'[u] = pc[u]
BY DEF Goto, ThreadTypes

(* Taking the n-th entry out of the table leaves the others, each once.     *)
LEMMA WithoutIs ==
  ASSUME TableTypes, NEW n \in DOMAIN pending, pending' = Without(n)
  PROVE  /\ TableTypes'
         /\ \A m \in DOMAIN pending' :
              \E k \in DOMAIN pending : k # n /\ pending'[m] = pending[k]
         /\ \A m, l \in DOMAIN pending' :
              (\A j, k \in DOMAIN pending : pending[j].conn = pending[k].conn => j = k)
              /\ pending'[m].conn = pending'[l].conn => m = l
<1> DEFINE src(m) == IF m = n THEN Len(pending) ELSE m
           E == [id : Ids, conn : Conns]
<1>1. pending \in Seq(E) /\ Len(pending) \in Nat /\ DOMAIN pending = 1 .. Len(pending)
      /\ n \in 1 .. Len(pending) /\ Len(pending) <= MaxPending
  <2>1. pending \in Seq(E) /\ Len(pending) <= MaxPending
    BY DEF TableTypes
  <2> HIDE DEF E
  <2> QED
    BY <2>1
<1>2. \A m \in 1 .. Len(pending) - 1 : src(m) \in DOMAIN pending /\ src(m) # n
  BY <1>1
<1>3. \A m, l \in 1 .. Len(pending) - 1 : src(m) = src(l) => m = l
  BY <1>1
<1>4. pending' = [m \in 1 .. Len(pending) - 1 |-> pending[src(m)]]
  BY DEF Without
<1> HIDE DEF src, E
<1>5. \A m \in 1 .. Len(pending) - 1 : pending[src(m)] \in E
  BY <1>1, <1>2, ElementOfSeq
<1>6. pending' \in [1 .. Len(pending) - 1 -> E] /\ Len(pending) - 1 \in Nat
  BY <1>1, <1>4, <1>5
<1>7. pending' \in Seq(E) /\ Len(pending') = Len(pending) - 1
      /\ DOMAIN pending' = 1 .. Len(pending) - 1
  BY <1>6
<1>8. Len(pending') <= MaxPending
  BY <1>1, <1>7, HttpAssumption
<1> QED
  BY <1>2, <1>3, <1>4, <1>7, <1>8 DEF E, TableTypes

-----------------------------------------------------------------------------
(* Types, one action at a time.                                             *)
LEMMA TypeInit == Init => TypeOK
<1> SUFFICES ASSUME Init PROVE TypeOK
  OBVIOUS
<1>1. TableTypes
  BY HttpAssumption, EmptySeq DEF Init, TableTypes
<1>2. ConnTypes
  BY HttpAssumption DEF Init, ConnTypes
<1>3. ThreadTypes
  BY DEF Init, ThreadTypes, Idle, Places
<1>4. WorldTypes
  BY HttpAssumption DEF Init, WorldTypes
<1> QED
  BY <1>1, <1>2, <1>3, <1>4 DEF TypeOK

LEMMA UnrefType ==
  ASSUME ConnTypes, NEW c \in Conns, Unref(c)
  PROVE  ConnTypes'
<1>1. CASE refs[c] > 1
  BY <1>1 DEF Unref, ConnTypes
<1>2. CASE ~(refs[c] > 1)
  BY <1>2, HttpAssumption DEF Unref, ConnTypes
<1> QED
  BY <1>1, <1>2

LEMMA GotoType ==
  ASSUME ThreadTypes, NEW t \in {"http", "main"}, NEW where \in Places,
         NEW c \in Conns \cup {NoConn}, NEW i \in Ids \cup {NoId},
         Goto(t, where, c, i)
  PROVE  ThreadTypes'
BY DEF Goto, ThreadTypes

LEMMA TypeClient ==
  ASSUME TypeOK, NEW i \in Ids, Send(i) \/ Leave(i) \/ Reset(i) \/ Drain(i)
  PROVE  TypeOK'
<1>1. ConnTypes'
  BY DEF Send, Leave, Reset, Drain, Raise, ConnTypes, TypeOK
<1>2. WorldTypes'
  BY HttpAssumption DEF Send, Leave, Reset, Drain, TypeOK, WorldTypes, world
<1> QED
  BY <1>1, <1>2 DEF Send, Leave, Reset, Drain, TypeOK, TableTypes, ThreadTypes

LEMMA TypeAccept ==
  ASSUME TypeOK, NEW i \in Ids, Accept(i)
  PROVE  TypeOK'
<1>1. ConnTypes'
  <2>1. CASE \A c \in Conns : Used(c)
    BY <2>1 DEF Accept, TypeOK, ConnTypes, conns
  <2>2. CASE ~ \A c \in Conns : Used(c)
    BY <2>2 DEF Accept, TypeOK, ConnTypes
  <2> QED
    BY <2>1, <2>2
<1>2. WorldTypes'
  BY DEF Accept, TypeOK, WorldTypes
<1> QED
  BY <1>1, <1>2 DEF Accept, TypeOK, TableTypes, ThreadTypes

(* The places each action goes to, for GotoType.                            *)
LEMMA Destinations ==
  /\ {"loop", "park", "close", "closed", "copy", "arm", "unref"} = Places
  /\ NoConn \in Conns \cup {NoConn} /\ NoId \in Ids \cup {NoId}
  /\ \A c \in Conns : c \in Conns \cup {NoConn}
BY DEF Places

LEMMA TypeEvent ==
  ASSUME TypeOK, Idents, Sockets, NEW c \in Conns,
         Fetch \/ Hup(c) \/ ReadOn(c) \/ AnswerNow(c) \/ AnswerTooLong(c)
               \/ Forward(c) \/ Write(c)
  PROVE  TypeOK'
<1>1. Turn(c) => id[c] \in Ids
  BY DEF Turn, Idents, Sockets, Used, TypeOK, ConnTypes
<1>2. ConnTypes'
  <2>1. CASE Fetch
    BY <2>1 DEF Fetch, TypeOK, ConnTypes
  <2>2. CASE Hup(c) \/ ReadOn(c)
    BY <2>2 DEF Hup, ReadOn, Turn, TypeOK, ConnTypes
  <2>3. CASE AnswerNow(c)
    BY <2>3, HttpAssumption DEF AnswerNow, Complete, Turn, Respond, TypeOK, ConnTypes
  <2>4. CASE AnswerTooLong(c) \/ Forward(c)
    BY <2>4 DEF AnswerTooLong, Forward, Complete, Turn, TypeOK, ConnTypes
  <2>5. CASE Write(c)
    BY <2>5, HttpAssumption DEF Write, Turn, TypeOK, ConnTypes
  <2> QED
    BY <2>1, <2>2, <2>3, <2>4, <2>5
<1>3. ThreadTypes'
  <2>1. \/ pc' = pc
        \/ \E where \in Places, i \in Ids \cup {NoId} : Goto("http", where, c, i)
    BY <1>1 DEF Fetch, Hup, ReadOn, AnswerNow, AnswerTooLong, Forward, Complete, Write, Places
  <2> QED
    BY <2>1, GotoType DEF TypeOK, ThreadTypes
<1>4. WorldTypes'
  <2>1. CASE Forward(c)
    BY <1>1, <2>1, HttpAssumption DEF Forward, Complete, TypeOK, WorldTypes
  <2>2. CASE Write(c)
    BY <1>1, <2>2 DEF Write, TypeOK, WorldTypes, ConnTypes
  <2> QED
    BY <2>1, <2>2 DEF Fetch, Hup, ReadOn, AnswerNow, AnswerTooLong, TypeOK, WorldTypes, world
<1>5. TableTypes'
  BY DEF Fetch, Hup, ReadOn, AnswerNow, AnswerTooLong, Forward, Write, TypeOK, TableTypes
<1> QED
  BY <1>2, <1>3, <1>4, <1>5 DEF TypeOK

LEMMA TypePark ==
  ASSUME TypeOK, Idents, HttpHands, Fresh, Park
  PROVE  TypeOK'
<1> DEFINE c == pc["http"].conn
<1>1. c \in Conns /\ refs[c] = 1 /\ id[c] \in Ids
  <2>1. At("http", "park") /\ c \in Conns
    BY DEF Park, HttpHands, At, TypeOK, ThreadTypes
  <2> QED
    BY <2>1 DEF HttpHands, Fresh, Unparked, Idents, TypeOK, ConnTypes
<1> HIDE DEF c
<1>2. /\ IF Len(pending) < MaxPending THEN Parked(c) ELSE UNCHANGED <<pending, refs>>
      /\ Goto("http", "loop", NoConn, NoId)
      /\ UNCHANGED <<st, id, want, edge, batch, resp, left, world>>
  BY DEF Park, c
<1>3. ConnTypes'
  BY <1>1, <1>2 DEF Parked, TypeOK, ConnTypes
<1>4. TableTypes'
  <2> DEFINE e == [id |-> id[c], conn |-> c]
             E == [id : Ids, conn : Conns]
  <2>1. e \in E
    BY <1>1
  <2>2. pending \in Seq(E) /\ Len(pending) <= MaxPending
    BY DEF TypeOK, TableTypes
  <2>3. CASE Len(pending) < MaxPending
    <3>1. pending' = Append(pending, e)
      BY <1>2, <2>3 DEF Parked
    <3> HIDE DEF e, E
    <3>2. pending' \in Seq(E) /\ Len(pending') = Len(pending) + 1
      BY <2>1, <2>2, <3>1, AppendProperties
    <3>3. Len(pending') <= MaxPending
      BY <2>2, <2>3, <3>2, HttpAssumption
    <3> QED
      BY <3>2, <3>3 DEF E, TableTypes
  <2>4. CASE ~(Len(pending) < MaxPending)
    BY <1>2, <2>4 DEF TypeOK, TableTypes
  <2> QED
    BY <2>3, <2>4
<1>5. ThreadTypes'
  BY <1>2, Destinations, GotoType DEF TypeOK
<1>6. WorldTypes'
  BY <1>2 DEF world, TypeOK, WorldTypes
<1> QED
  BY <1>3, <1>4, <1>5, <1>6 DEF TypeOK

LEMMA PendingConns ==
  ASSUME TypeOK, NEW n \in DOMAIN pending
  PROVE  pending[n] \in [id : Ids, conn : Conns] /\ pending[n].conn \in Conns
<1> DEFINE E == [id : Ids, conn : Conns]
<1>1. pending \in Seq(E)
  BY DEF TypeOK, TableTypes
<1> HIDE DEF E
<1>2. pending[n] \in E
  BY <1>1, ElementOfSeq
<1> QED
  BY <1>2 DEF E

(* The connections in the threads' hands.                                   *)
LEMMA InHand ==
  ASSUME TypeOK, HttpHands, MainHands
  PROVE  /\ ~At("http", "loop") => pc["http"].conn \in Conns
         /\ ~At("main", "loop") => /\ pc["main"].conn \in Conns
                                   /\ pc["main"].id \in Ids
                                   /\ id[pc["main"].conn] = pc["main"].id
BY DEF HttpHands, MainHands, MainHas, TypeOK, ThreadTypes

LEMMA ForgetType ==
  ASSUME TypeOK, NEW c \in Conns, Forget(c)
  PROVE  TableTypes'
<1>1. CASE Entries(c) = {}
  BY <1>1 DEF Forget, TypeOK, TableTypes
<1>2. CASE Entries(c) # {}
  <2>1. PICK n \in Entries(c) : pending' = Without(n)
    BY <1>2 DEF Forget
  <2> QED
    BY <2>1, WithoutIs DEF Entries, TypeOK
<1> QED
  BY <1>1, <1>2

LEMMA TypeClose ==
  ASSUME TypeOK, HttpHands, MainHands, Close("http")
  PROVE  TypeOK'
<1> DEFINE c == pc["http"].conn
<1>1. c \in Conns /\ pc["http"].id \in Ids \cup {NoId}
  BY InHand DEF Close, At, TypeOK, ThreadTypes
<1> HIDE DEF c
<1>2. /\ want' = [want EXCEPT ![c] = "none"]
      /\ edge' = [edge EXCEPT ![c] = {}]
      /\ Forget(c) /\ Freed(resp[c])
      /\ resp' = [resp EXCEPT ![c] = NoId]
      /\ Goto("http", "closed", c, pc["http"].id)
      /\ UNCHANGED <<st, id, refs, batch, left, peer, sent, heard, owed>>
  BY DEF Close, c
<1>3. ConnTypes'
  BY <1>1, <1>2 DEF TypeOK, ConnTypes
<1>4. TableTypes'
  BY <1>1, <1>2, ForgetType
<1>5. ThreadTypes'
  BY <1>1, <1>2, Destinations, GotoType DEF TypeOK
<1>6. WorldTypes'
  BY <1>2 DEF Freed, TypeOK, WorldTypes
<1> QED
  BY <1>3, <1>4, <1>5, <1>6 DEF TypeOK

LEMMA TypeDropLoopRef ==
  ASSUME TypeOK, HttpHands, MainHands, DropLoopRef("http")
  PROVE  TypeOK'
<1>1. pc["http"].conn \in Conns
  BY InHand DEF DropLoopRef, At
<1>2. ConnTypes'
  BY <1>1, UnrefType DEF DropLoopRef, TypeOK
<1>3. ThreadTypes'
  BY Destinations, GotoType DEF DropLoopRef, TypeOK
<1> QED
  BY <1>2, <1>3 DEF DropLoopRef, TypeOK, TableTypes, WorldTypes, world

LEMMA TypeReply ==
  ASSUME TypeOK, NEW i \in Ids, Reply(i)
  PROVE  TypeOK'
<1>1. WorldTypes'
  BY HttpAssumption DEF Reply, TypeOK, WorldTypes
<1>2. ConnTypes'
  BY DEF Reply, conns, TypeOK, ConnTypes
<1>3. TableTypes' /\ ThreadTypes'
  <2>1. CASE Found(i) = {}
    BY <2>1 DEF Reply, TypeOK, TableTypes, ThreadTypes
  <2>2. CASE Found(i) # {}
    <3>1. PICK n \in Found(i) : /\ pending' = Without(n)
                                /\ Goto("main", "copy", pending[n].conn, i)
      BY <2>2 DEF Reply
    <3>2. n \in DOMAIN pending /\ pending[n].conn \in Conns
      BY PendingConns DEF Found
    <3> QED
      BY <3>1, <3>2, WithoutIs, Destinations, GotoType DEF TypeOK
  <2> QED
    BY <2>1, <2>2
<1> QED
  BY <1>1, <1>2, <1>3 DEF TypeOK

LEMMA TypeCompletion ==
  ASSUME AllFit, TypeOK, HttpHands, MainHands, Copy \/ Arm \/ DropAsyncRef
  PROVE  TypeOK'
<1> DEFINE c == pc["main"].conn
           i == pc["main"].id
<1>1. c \in Conns /\ i \in Ids
  BY InHand DEF Copy, Arm, DropAsyncRef, At
<1> HIDE DEF c, i
<1>2. CASE Copy
  <2>1. ConnTypes'
    BY <1>1, <1>2 DEF Copy, TypeOK, ConnTypes, c, i
  <2>2. ThreadTypes'
    BY <1>1, <1>2, Destinations, GotoType DEF Copy, TypeOK, c, i
  <2> QED
    BY <1>2, <2>1, <2>2 DEF Copy, TypeOK, TableTypes, WorldTypes, world
<1>3. CASE Arm
  <2>1. Respond(c) /\ Goto("main", "unref", c, i)
        /\ UNCHANGED <<id, refs, batch, resp, pending, world>>
    BY <1>3 DEF Arm, AllFit, c, i
  <2>2. ConnTypes'
    BY <1>1, <2>1, HttpAssumption DEF Respond, TypeOK, ConnTypes
  <2>3. ThreadTypes'
    BY <1>1, <2>1, Destinations, GotoType DEF TypeOK
  <2> QED
    BY <2>1, <2>2, <2>3 DEF TypeOK, TableTypes, WorldTypes, world
<1>4. CASE DropAsyncRef
  <2>1. Unref(c) /\ Freed(i) /\ Goto("main", "loop", NoConn, NoId)
        /\ UNCHANGED <<pending, peer, sent, heard, owed>>
    BY <1>4 DEF DropAsyncRef, c, i
  <2>2. ConnTypes'
    BY <1>1, <2>1, UnrefType DEF TypeOK
  <2>3. ThreadTypes'
    BY <2>1, Destinations, GotoType DEF TypeOK
  <2> QED
    BY <2>1, <2>2, <2>3 DEF Freed, TypeOK, TableTypes, WorldTypes
<1> QED
  BY <1>2, <1>3, <1>4

-----------------------------------------------------------------------------
(* The steps of Next when every response fits; the main thread then never   *)
(* closes a connection itself.                                              *)
Client(i) == Send(i) \/ Leave(i) \/ Reset(i) \/ Drain(i)
Event(c) == Hup(c) \/ ReadOn(c) \/ AnswerNow(c) \/ AnswerTooLong(c) \/ Forward(c) \/ Write(c)

LEMMA Steps ==
  ASSUME MainHands, [Next]_vars
  PROVE  \/ \E i \in Ids : Client(i) \/ Accept(i) \/ Reply(i)
         \/ \E c \in Conns : Event(c)
         \/ Fetch \/ Park \/ Close("http") \/ DropLoopRef("http")
         \/ Copy \/ Arm \/ DropAsyncRef
         \/ UNCHANGED vars
<1>1. ~Close("main") /\ ~DropLoopRef("main")
  BY DEF Close, DropLoopRef, At, MainHands
<1> QED
  BY <1>1 DEF Next, HttpThread, Completion, Client, Event

LEMMA TypeStep ==
  ASSUME AllFit, Inv, [Next]_vars
  PROVE  TypeOK'
<1> USE DEF Inv
<1>1. ASSUME NEW i \in Ids, Client(i) \/ Accept(i) \/ Reply(i)
      PROVE  TypeOK'
  BY <1>1, TypeClient, TypeAccept, TypeReply DEF Client
<1>2. ASSUME NEW c \in Conns, Event(c) \/ Fetch
      PROVE  TypeOK'
  BY <1>2, TypeEvent DEF Event
<1>3. CASE Fetch
  <2>1. CASE Conns = {}
    BY <1>3, <2>1 DEF Fetch
  <2> QED
    BY <1>2, <1>3, <2>1
<1>4. CASE UNCHANGED vars
  BY <1>4 DEF vars, conns, world, TypeOK, ConnTypes, TableTypes, ThreadTypes, WorldTypes
<1> QED
  BY <1>1, <1>2, <1>3, <1>4, Steps, TypePark, TypeClose, TypeDropLoopRef, TypeCompletion

-----------------------------------------------------------------------------
(* conn_unref by a holder: either others hold the slot, and it stays as it  *)
(* is, or nobody does, epoll knows nothing of it, and it goes back.         *)
LEMMA UnrefIs ==
  ASSUME TypeOK, RefsCoverHolders, Sockets, NEW c \in Conns, Unref(c),
         (LoopHas(c) /\ ~Watched(c) /\ batch[c] = {}) \/ MainHas(c)
  PROVE  \/ /\ refs[c] = 2 /\ refs' = [refs EXCEPT ![c] = 1]
            /\ UNCHANGED <<st, id, want, edge, batch, resp, left>>
         \/ /\ refs[c] = 1 /\ refs' = [refs EXCEPT ![c] = 0]
            /\ ~TableHas(c) /\ ~Watched(c) /\ batch[c] = {} /\ edge[c] = {}
            /\ pc["http"].conn = c => ~MainHas(c)
            /\ st' = [st EXCEPT ![c] = "free"] /\ id' = [id EXCEPT ![c] = NoId]
            /\ resp' = [resp EXCEPT ![c] = NoId]
            /\ want' = want /\ edge' = edge /\ batch' = batch
<1>1. refs[c] \in {1, 2} /\ (refs[c] = 1 => /\ ~(LoopHas(c) /\ TableHas(c))
                                            /\ ~(LoopHas(c) /\ MainHas(c))
                                            /\ ~(TableHas(c) /\ MainHas(c)))
  BY DEF RefsCoverHolders, Count, TypeOK, ConnTypes
<1>2. CASE refs[c] = 2
  BY <1>2 DEF Unref
<1>3. CASE refs[c] = 1
  <2>1. ~TableHas(c) /\ ~Watched(c) /\ batch[c] = {} /\ (pc["http"].conn = c => ~MainHas(c))
    BY <1>1, <1>3 DEF LoopHas
  <2>2. edge[c] = {} /\ want[c] = "none"
    BY <2>1 DEF Sockets, Watched
  <2>3. want' = want /\ edge' = edge
    <3>1. want \in [Conns -> {"none", "in", "out"}]
          /\ edge \in [Conns -> SUBSET {"in", "out", "hup"}]
      BY DEF TypeOK, ConnTypes
    <3>2. want' = [want EXCEPT ![c] = "none"] /\ edge' = [edge EXCEPT ![c] = {}]
      BY <1>3 DEF Unref
    <3> QED
      BY <2>2, <3>1, <3>2
  <2> QED
    BY <1>3, <2>1, <2>2, <2>3 DEF Unref
<1> QED
  BY <1>1, <1>2, <1>3

(* The drops of the two references, for UnrefIs.                            *)
LEMMA Drops ==
  ASSUME Inv
  PROVE  /\ DropLoopRef("http") => /\ pc["http"].conn \in Conns /\ Unref(pc["http"].conn)
                                   /\ LoopHas(pc["http"].conn)
                                   /\ ~Watched(pc["http"].conn) /\ batch[pc["http"].conn] = {}
         /\ DropAsyncRef => /\ pc["main"].conn \in Conns /\ Unref(pc["main"].conn)
                            /\ MainHas(pc["main"].conn)
<1>1. ASSUME DropLoopRef("http")
      PROVE  /\ pc["http"].conn \in Conns /\ Unref(pc["http"].conn)
             /\ LoopHas(pc["http"].conn)
             /\ ~Watched(pc["http"].conn) /\ batch[pc["http"].conn] = {}
  BY <1>1, InHand DEF Inv, DropLoopRef, At, HttpHands, LoopHas
<1>2. ASSUME DropAsyncRef
      PROVE  pc["main"].conn \in Conns /\ Unref(pc["main"].conn) /\ MainHas(pc["main"].conn)
  BY <1>2, InHand DEF Inv, DropAsyncRef, At, MainHas
<1> QED
  BY <1>1, <1>2

(* An event that is handled is of an open connection.                       *)
LEMMA TurnIs ==
  ASSUME Inv, NEW c \in Conns, Event(c)
  PROVE  /\ Turn(c) /\ At("http", "loop") /\ pc["http"].conn = NoConn
         /\ Used(c) /\ Watched(c) /\ id[c] \in Ids
         /\ batch' = [batch EXCEPT ![c] = {}]
<1>1. Turn(c)
  BY DEF Event, Hup, ReadOn, AnswerNow, AnswerTooLong, Forward, Complete, Write
<1> QED
  BY <1>1 DEF Turn, Inv, Sockets, Idents, HttpHands, TypeOK, ConnTypes

(* Ids: one is given with a slot and taken with it.                         *)
LEMMA IdentsStep ==
  ASSUME AllFit, Inv, [Next]_vars
  PROVE  Idents'
<1> USE DEF Inv, Idents, Used
<1>1. ASSUME NEW i \in Ids, Client(i)
      PROVE  Idents'
  BY <1>1 DEF Client, Send, Leave, Reset, Drain, world, TypeOK, WorldTypes, ConnTypes
<1>2. ASSUME NEW i \in Ids, Accept(i)
      PROVE  Idents'
  <2>1. CASE \A c \in Conns : Used(c)
    BY <1>2, <2>1 DEF Accept, conns, TypeOK, WorldTypes, ConnTypes
  <2>2. CASE ~ \A c \in Conns : Used(c)
    <3>1. PICK c \in Conns : /\ ~Used(c)
                             /\ peer' = [peer EXCEPT ![i] = "here"]
                             /\ st' = [st EXCEPT ![c] = "reading"]
                             /\ id' = [id EXCEPT ![c] = i]
      BY <1>2, <2>2 DEF Accept
    <3>2. peer[i] = "new" /\ i # NoId /\ \A d \in Conns : id[d] # i
      BY <1>2, IdTypes DEF Accept
    <3> USE DEF TypeOK, ConnTypes, WorldTypes
    <3>3. \A d \in Conns : id'[d] # NoId => peer'[id'[d]] \notin {"new", "refused"}
      BY <3>1, <3>2
    <3>4. \A d \in Conns : Used(d)' <=> id'[d] # NoId
      BY <3>1, <3>2
    <3>5. \A d, e \in Conns : id'[d] = id'[e] /\ id'[d] # NoId => d = e
      BY <3>1, <3>2
    <3> QED
      BY <3>3, <3>4, <3>5
  <2> QED
    BY <2>1, <2>2
<1>3. ASSUME NEW i \in Ids, Reply(i)
      PROVE  Idents'
  BY <1>3 DEF Reply, conns
<1>4. ASSUME NEW c \in Conns, Event(c)
      PROVE  Idents'
  <2>1. Used(c) /\ id' = id /\ peer' = peer
        /\ (st' = st \/ \E s \in {"processing", "writing"} : st' = [st EXCEPT ![c] = s])
    BY <1>4, TurnIs DEF Event, Hup, ReadOn, AnswerNow, AnswerTooLong, Forward, Write,
                        Respond, world
  <2> QED
    BY <2>1 DEF TypeOK, ConnTypes
<1>5. CASE Fetch \/ Park \/ Close("http") \/ Copy \/ UNCHANGED vars
  BY <1>5 DEF Fetch, Park, Close, Copy, vars, conns, world
<1>6. CASE DropLoopRef("http") \/ DropAsyncRef
  <2>1. PICK c \in Conns :
         \/ id' = id /\ st' = st
         \/ id' = [id EXCEPT ![c] = NoId] /\ st' = [st EXCEPT ![c] = "free"]
    BY <1>6, Drops, UnrefIs
  <2>2. peer' = peer
    BY <1>6 DEF DropLoopRef, DropAsyncRef, world
  <2> QED
    BY <2>1, <2>2 DEF TypeOK, ConnTypes
<1>7. CASE Arm
  <2> DEFINE c == pc["main"].conn
  <2>1. c \in Conns /\ Used(c)
    BY <1>7, InHand, IdTypes DEF Arm, At
  <2>2. Respond(c) /\ id' = id /\ peer' = peer
    BY <1>7 DEF Arm, AllFit, world
  <2> QED
    BY <2>1, <2>2 DEF Respond, TypeOK, ConnTypes
<1> QED
  BY <1>1, <1>2, <1>3, <1>4, <1>5, <1>6, <1>7, Steps

(* Sockets: a slot goes back only when epoll knows nothing of it.           *)
LEMMA SocketsStep ==
  ASSUME AllFit, Inv, [Next]_vars
  PROVE  Sockets'
<1> USE DEF Inv, Sockets, Watched, Used
<1>1. ASSUME NEW i \in Ids, Client(i)
      PROVE  Sockets'
  BY <1>1 DEF Client, Send, Leave, Reset, Drain, Raise, TypeOK, ConnTypes
<1>2. ASSUME NEW i \in Ids, Accept(i)
      PROVE  Sockets'
  <2>1. CASE \A c \in Conns : Used(c)
    BY <1>2, <2>1 DEF Accept, conns
  <2>2. CASE ~ \A c \in Conns : Used(c)
    BY <1>2, <2>2 DEF Accept, TypeOK, ConnTypes
  <2> QED
    BY <2>1, <2>2
<1>3. ASSUME NEW i \in Ids, Reply(i)
      PROVE  Sockets'
  BY <1>3 DEF Reply, conns
<1>4. ASSUME NEW c \in Conns, Event(c)
      PROVE  Sockets'
  <2>1. CASE AnswerNow(c)
    BY <1>4, <2>1, TurnIs DEF AnswerNow, Respond, TypeOK, ConnTypes
  <2>2. CASE ~AnswerNow(c)
    <3>1. /\ want' = want /\ edge' = edge
          /\ (st' = st \/ \E s \in {"processing", "writing"} : st' = [st EXCEPT ![c] = s])
      BY <1>4, <2>2 DEF Event, Hup, ReadOn, AnswerTooLong, Forward, Write
    <3> QED
      BY <1>4, <3>1, TurnIs DEF TypeOK, ConnTypes
  <2> QED
    BY <2>1, <2>2
<1>5. CASE Fetch \/ Park \/ Copy \/ UNCHANGED vars
  BY <1>5 DEF Fetch, Park, Copy, vars, conns, TypeOK, ConnTypes
<1>6. CASE Close("http")
  BY <1>6, InHand DEF Close, At, HttpHands, TypeOK, ConnTypes
<1>7. CASE DropLoopRef("http") \/ DropAsyncRef
  <2>1. PICK c \in Conns : /\ batch' = batch /\ want' = want /\ edge' = edge
                           /\ (st' = st \/ (~Watched(c) /\ st' = [st EXCEPT ![c] = "free"]))
    BY <1>7, Drops, UnrefIs
  <2> QED
    BY <2>1 DEF TypeOK, ConnTypes
<1>8. CASE Arm
  <2> DEFINE c == pc["main"].conn
  <2>1. c \in Conns
    BY <1>8, InHand DEF Arm, At
  <2>2. Respond(c) /\ batch' = batch
    BY <1>8 DEF Arm, AllFit
  <2> QED
    BY <2>1, <2>2 DEF Respond, TypeOK, ConnTypes
<1> QED
  BY <1>1, <1>2, <1>3, <1>4, <1>5, <1>6, <1>7, <1>8, Steps

(* Where the threads are and what they hold.                                *)
LEMMA HttpHandsStep ==
  ASSUME AllFit, Inv, [Next]_vars
  PROVE  HttpHands'
<1> USE HttpAssumption DEF Inv, HttpHands, At, Used, Watched
<1>1. ASSUME NEW i \in Ids, Client(i) \/ Accept(i) \/ Reply(i)
      PROVE  HttpHands'
  <2>1. CASE Client(i)
    BY <1>1, <2>1 DEF Client, Send, Leave, Reset, Drain
  <2>2. CASE Accept(i)
    BY <1>1, <2>2 DEF Accept
  <2>3. CASE Reply(i)
    <3>1. pc'["http"] = pc["http"]
      BY <2>3, GotoIs DEF Reply, TypeOK
    <3> QED
      BY <2>3, <3>1 DEF Reply, conns
  <2> QED
    BY <1>1, <2>1, <2>2, <2>3
<1>2. ASSUME NEW c \in Conns, Event(c)
      PROVE  HttpHands'
  <2>1. CASE pc' = pc
    BY <1>2, <2>1, TurnIs
  <2>2. CASE Goto("http", "close", c, NoId)
    <3>1. /\ pc'["http"].at = "close" /\ pc'["http"].conn = c
      BY <2>2, GotoIs DEF TypeOK
    <3>2. want' = want /\ st'[c] # "free"
      BY <1>2, <2>2, <3>1, TurnIs
      DEF Event, Hup, ReadOn, AnswerNow, AnswerTooLong, Forward, Write, TypeOK, ConnTypes
    <3> QED
      BY <1>2, <3>1, <3>2, TurnIs DEF TypeOK, ConnTypes
  <2>3. CASE Goto("http", "park", c, id[c])
    <3>1. /\ pc'["http"].at = "park" /\ pc'["http"].conn = c /\ pc'["http"].id = id[c]
      BY <2>3, GotoIs DEF TypeOK
    <3>2. want' = want /\ id' = id /\ st'[c] = "processing"
      BY <1>2, <2>3, <3>1, TurnIs, GotoIs
      DEF Event, Hup, ReadOn, AnswerNow, AnswerTooLong, Forward, Write, TypeOK, ConnTypes
    <3> QED
      BY <1>2, <3>1, <3>2, TurnIs DEF TypeOK, ConnTypes
  <2> QED
    BY <1>2, <2>1, <2>2, <2>3
    DEF Event, Hup, ReadOn, AnswerNow, AnswerTooLong, Forward, Write
<1>3. CASE Fetch \/ UNCHANGED vars
  BY <1>3 DEF Fetch, vars, conns
<1>4. CASE Park \/ DropLoopRef("http")
  <2>1. /\ pc'["http"].at = "loop" /\ pc'["http"].conn = NoConn
    BY <1>4, GotoIs DEF Park, DropLoopRef, TypeOK
  <2> QED
    BY <2>1
<1>5. CASE Close("http")
  <2> DEFINE c == pc["http"].conn
  <2>1. c \in Conns /\ pc'["http"].at = "closed" /\ pc'["http"].conn = c
    BY <1>5, InHand, GotoIs DEF Close, TypeOK
  <2> QED
    BY <1>5, <2>1 DEF Close, TypeOK, ConnTypes
<1>6. CASE Copy
  <2>1. pc'["http"] = pc["http"]
    BY <1>6, GotoIs DEF Copy, TypeOK
  <2> QED
    BY <1>6, <2>1 DEF Copy
<1>7. CASE Arm
  <2> DEFINE c == pc["main"].conn
  <2>1. /\ c \in Conns /\ MainHas(c)
        /\ Respond(c) /\ UNCHANGED <<id, batch>> /\ pc'["http"] = pc["http"]
    BY <1>7, InHand, GotoIs DEF Arm, AllFit, TypeOK, MainHas
  <2>2. ~(pc["http"].at = "park" /\ pc["http"].conn = c)
    BY <2>1 DEF Fresh, Unparked
  <2> QED
    BY <2>1, <2>2 DEF Respond, TypeOK, ConnTypes
<1>8. CASE DropAsyncRef
  <2>1. PICK c \in Conns : /\ batch' = batch /\ want' = want
                           /\ \/ st' = st /\ id' = id
                              \/ /\ pc["http"].conn # c
                                 /\ st' = [st EXCEPT ![c] = "free"]
                                 /\ id' = [id EXCEPT ![c] = NoId]
    BY <1>8, Drops, UnrefIs
  <2>2. pc'["http"] = pc["http"]
    BY <1>8, GotoIs DEF DropAsyncRef, TypeOK
  <2> QED
    BY <2>1, <2>2 DEF TypeOK, ConnTypes
<1> QED
  BY <1>1, <1>2, <1>3, <1>4, <1>5, <1>6, <1>7, <1>8, Steps

LEMMA MainHandsStep ==
  ASSUME AllFit, Inv, [Next]_vars
  PROVE  MainHands'
<1> USE HttpAssumption DEF Inv, MainHands, At, MainHas
<1>1. ASSUME NEW i \in Ids, Client(i)
      PROVE  MainHands'
  BY <1>1 DEF Client, Send, Leave, Reset, Drain
<1>2. ASSUME NEW i \in Ids, Accept(i)
      PROVE  MainHands'
  <2>1. pc' = pc /\ \A c \in Conns : id[c] # NoId => id'[c] = id[c]
    BY <1>2 DEF Accept, Idents, conns, TypeOK, ConnTypes
  <2> QED
    BY <2>1
<1>3. ASSUME NEW i \in Ids, Reply(i)
      PROVE  MainHands'
  <2>1. CASE Found(i) = {}
    BY <1>3, <2>1 DEF Reply, conns
  <2>2. CASE Found(i) # {}
    <3>1. PICK n \in Found(i) : Goto("main", "copy", pending[n].conn, i)
      BY <1>3, <2>2 DEF Reply
    <3>2. n \in DOMAIN pending /\ pending[n].id = i
      BY DEF Found
    <3>3. /\ pc'["main"].at = "copy" /\ pc'["main"].conn = pending[n].conn
          /\ pc'["main"].id = i
      BY <3>1, GotoIs DEF TypeOK
    <3>4. id' = id /\ id[pending[n].conn] = i /\ i # NoId /\ pending[n].conn \in Conns
      BY <1>3, <3>2, IdTypes, PendingConns DEF Reply, conns, PendingIsOwn
    <3> QED
      BY <3>3, <3>4
  <2> QED
    BY <2>1, <2>2
<1>4. ASSUME NEW c \in Conns, Event(c)
      PROVE  MainHands'
  <2>1. id' = id /\ pc'["main"] = pc["main"]
    BY <1>4, GotoIs DEF Event, Hup, ReadOn, AnswerNow, AnswerTooLong, Forward, Write, TypeOK
  <2> QED
    BY <2>1
<1>5. CASE Fetch \/ UNCHANGED vars
  BY <1>5 DEF Fetch, vars, conns
<1>6. CASE Park \/ Close("http")
  <2>1. id' = id /\ pc'["main"] = pc["main"]
    BY <1>6, GotoIs DEF Park, Close, TypeOK
  <2> QED
    BY <2>1
<1>7. CASE DropLoopRef("http")
  <2>1. PICK c \in Conns : \/ id' = id
                           \/ ~MainHas(c) /\ id' = [id EXCEPT ![c] = NoId]
    BY <1>7, Drops, UnrefIs DEF LoopHas
  <2>2. pc'["main"] = pc["main"]
    BY <1>7, GotoIs DEF DropLoopRef, TypeOK
  <2> QED
    BY <2>1, <2>2 DEF TypeOK, ConnTypes
<1>8. CASE Copy \/ Arm
  <2>1. /\ id' = id /\ pc'["main"].at \in {"arm", "unref"}
        /\ pc'["main"].conn = pc["main"].conn /\ pc'["main"].id = pc["main"].id
    BY <1>8, GotoIs DEF Copy, Arm, AllFit, TypeOK
  <2>2. pc["main"].conn \in Conns
    BY <1>8, InHand DEF Copy, Arm
  <2> QED
    BY <2>1, <2>2
<1>9. CASE DropAsyncRef
  <2>1. pc'["main"].at = "loop" /\ pc'["main"].conn = NoConn
    BY <1>9, GotoIs DEF DropAsyncRef, TypeOK
  <2> QED
    BY <2>1
<1> QED
  BY <1>1, <1>2, <1>3, <1>4, <1>5, <1>6, <1>7, <1>8, <1>9, Steps

-----------------------------------------------------------------------------
(* The pending table after an entry left or came.                           *)
LEMMA TableWithout ==
  ASSUME Inv, NEW n \in DOMAIN pending, pending' = Without(n)
  PROVE  /\ \A c \in Conns : TableHas(c)' <=> TableHas(c) /\ c # pending[n].conn
         /\ \A m \in DOMAIN pending' : \E k \in DOMAIN pending : pending'[m] = pending[k]
         /\ \A m, l \in DOMAIN pending' : pending'[m].conn = pending'[l].conn => m = l
<1>1. ASSUME NEW c \in Conns, TableHas(c)'
      PROVE  TableHas(c) /\ c # pending[n].conn
  <2>1. PICK m \in DOMAIN pending' : pending'[m].conn = c
    BY <1>1 DEF TableHas, Entries
  <2>2. PICK k \in DOMAIN pending : k # n /\ pending'[m] = pending[k]
    BY WithoutIs DEF Inv, TypeOK
  <2> QED
    BY <2>1, <2>2 DEF TableHas, Entries, Inv, PendingIsOwn
<1>2. ASSUME NEW c \in Conns, TableHas(c), c # pending[n].conn
      PROVE  TableHas(c)'
  <2>1. PICK k \in DOMAIN pending : pending[k].conn = c /\ k # n
    BY <1>2 DEF TableHas, Entries
  <2>2. /\ DOMAIN pending = 1 .. Len(pending) /\ Len(pending) \in Nat
    BY DEF Inv, TypeOK, TableTypes
  <2>3. \E m \in 1 .. Len(pending) - 1 : Without(n)[m].conn = c
    <3>1. CASE k = Len(pending)
      BY <2>1, <2>2, <3>1 DEF Without
    <3>2. CASE k # Len(pending)
      BY <2>1, <2>2, <3>2 DEF Without
    <3> QED
      BY <3>1, <3>2
  <2>4. DOMAIN pending' = 1 .. Len(pending) - 1
    BY DEF Without
  <2> QED
    BY <2>3, <2>4 DEF TableHas, Entries
<1>3. \A j, k \in DOMAIN pending : pending[j].conn = pending[k].conn => j = k
  BY DEF Inv, PendingIsOwn
<1> QED
  BY <1>1, <1>2, <1>3, WithoutIs DEF Inv, TypeOK

LEMMA TableForget ==
  ASSUME Inv, NEW c \in Conns, Forget(c)
  PROVE  /\ \A d \in Conns : TableHas(d)' <=> TableHas(d) /\ d # c
         /\ \A m \in DOMAIN pending' : \E k \in DOMAIN pending : pending'[m] = pending[k]
         /\ \A m, l \in DOMAIN pending' : pending'[m].conn = pending'[l].conn => m = l
<1>1. CASE Entries(c) = {}
  BY <1>1 DEF Forget, TableHas, Entries, Inv, PendingIsOwn
<1>2. CASE Entries(c) # {}
  <2>1. PICK n \in Entries(c) : pending' = Without(n)
    BY <1>2 DEF Forget
  <2> QED
    BY <2>1, TableWithout DEF Entries
<1> QED
  BY <1>1, <1>2

LEMMA TableParked ==
  ASSUME Inv, NEW c \in Conns, id[c] \in Ids, Parked(c)
  PROVE  /\ \A d \in Conns : TableHas(d)' <=> TableHas(d) \/ d = c
         /\ DOMAIN pending' = DOMAIN pending \cup {Len(pending) + 1}
         /\ Len(pending) + 1 \notin DOMAIN pending
         /\ \A m \in DOMAIN pending : pending'[m] = pending[m]
         /\ pending'[Len(pending) + 1] = [id |-> id[c], conn |-> c]
<1> DEFINE e == [id |-> id[c], conn |-> c]
           E == [id : Ids, conn : Conns]
<1>1. e \in E
  OBVIOUS
<1>2. pending \in Seq(E)
  BY DEF Inv, TypeOK, TableTypes
<1>3. pending' = Append(pending, e)
  BY DEF Parked
<1> HIDE DEF e, E
<1>4. /\ DOMAIN pending = 1 .. Len(pending) /\ Len(pending) \in Nat
      /\ DOMAIN pending' = 1 .. Len(pending) + 1
      /\ \A m \in 1 .. Len(pending) : pending'[m] = pending[m]
      /\ pending'[Len(pending) + 1] = e
  BY <1>1, <1>2, <1>3, AppendProperties
<1>5. e.conn = c
  BY DEF e
<1>6. \A d \in Conns : TableHas(d)' <=> TableHas(d) \/ d = c
  BY <1>4, <1>5 DEF TableHas, Entries
<1> QED
  BY <1>4, <1>6 DEF e

(* Nobody comes to hold a slot.                                             *)
LEMMA NoNewHolder ==
  ASSUME Inv, TypeOK', NEW c \in Conns,
         LoopHas(c)' => LoopHas(c), TableHas(c)' => TableHas(c),
         MainHas(c)' => MainHas(c), refs'[c] = refs[c]
  PROVE  refs'[c] >= Count(LoopHas(c))' + Count(TableHas(c))' + Count(MainHas(c))'
BY DEF Inv, RefsCoverHolders, Count, TypeOK, ConnTypes

(* The connection to be parked: it has the event loop's reference only.     *)
LEMMA ToPark ==
  ASSUME Inv, Park
  PROVE  LET c == pc["http"].conn
         IN /\ c \in Conns /\ id[c] \in Ids /\ refs[c] = 1 /\ ~TableHas(c) /\ ~MainHas(c)
            /\ Watched(c) /\ st[c] = "processing"
            /\ IF Len(pending) < MaxPending
               THEN Parked(c) ELSE UNCHANGED <<pending, refs>>
            /\ pc'["http"].at = "loop" /\ pc'["http"].conn = NoConn
            /\ pc'["main"] = pc["main"]
            /\ UNCHANGED <<st, id, want, edge, batch, resp, left, world>>
<1> DEFINE c == pc["http"].conn
<1>1. At("http", "park") /\ c \in Conns
  BY InHand DEF Park, At, Inv
<1>2. /\ refs[c] = 1 /\ ~TableHas(c) /\ ~MainHas(c)
      /\ Used(c) /\ Watched(c) /\ st[c] = "processing"
  BY <1>1 DEF Inv, Fresh, Unparked, HttpHands, At
<1>3. id[c] \in Ids
  BY <1>1, <1>2 DEF Inv, Idents, TypeOK, ConnTypes
<1>4. /\ pc'["http"].at = "loop" /\ pc'["http"].conn = NoConn
      /\ pc'["main"] = pc["main"]
  BY GotoIs DEF Park, Inv, TypeOK
<1> QED
  BY <1>1, <1>2, <1>3, <1>4 DEF Park

(* Reply moves an entry from the table into the main thread's hands.        *)
LEMMA Taken ==
  ASSUME Inv, NEW i \in Ids, Reply(i)
  PROVE  \/ UNCHANGED <<conns, pending, pc, heard>>
         \/ \E n \in DOMAIN pending :
              /\ pending' = Without(n) /\ pending[n].id = i
              /\ pending[n].conn \in Conns /\ TableHas(pending[n].conn)
              /\ pc'["http"] = pc["http"] /\ pc["main"].conn = NoConn
              /\ pc'["main"].at = "copy" /\ pc'["main"].conn = pending[n].conn
              /\ pc'["main"].id = i
              /\ UNCHANGED <<conns, heard>>
<1>1. CASE Found(i) = {}
  BY <1>1 DEF Reply
<1>2. CASE Found(i) # {}
  <2>1. PICK n \in Found(i) : /\ pending' = Without(n)
                              /\ Goto("main", "copy", pending[n].conn, i)
    BY <1>2 DEF Reply
  <2>2. n \in DOMAIN pending /\ pending[n].id = i
    BY DEF Found
  <2>3. pending[n].conn \in Conns /\ TableHas(pending[n].conn)
    BY <2>2, PendingConns DEF Inv, TableHas, Entries
  <2>4. /\ pc'["http"] = pc["http"] /\ pc'["main"].at = "copy"
        /\ pc'["main"].conn = pending[n].conn /\ pc'["main"].id = i
    BY <2>1, GotoIs DEF Inv, TypeOK
  <2>5. pc["main"].conn = NoConn /\ UNCHANGED <<conns, heard>>
    BY DEF Reply, Inv, MainHands
  <2> QED
    BY <2>1, <2>2, <2>3, <2>4, <2>5
<1> QED
  BY <1>1, <1>2

(* What the completion of a request does to the slot in its hands.          *)
LEMMA Completing ==
  ASSUME AllFit, Inv, Copy \/ Arm
  PROVE  LET c == pc["main"].conn
         IN /\ c \in Conns /\ MainHas(c) /\ id[c] \in Ids
            /\ pc'["http"] = pc["http"] /\ pc'["main"].conn = c
            /\ UNCHANGED <<id, refs, batch, pending, heard>>
            /\ \/ UNCHANGED <<st, want>> /\ resp' = resp
               \/ UNCHANGED <<st, want>> /\ resp' = [resp EXCEPT ![c] = id[c]]
               \/ Respond(c) /\ resp' = resp
<1> DEFINE c == pc["main"].conn
<1>1. c \in Conns /\ MainHas(c) /\ id[c] \in Ids /\ pc["main"].id = id[c]
  BY InHand DEF Copy, Arm, At, Inv, MainHas
<1>2. pc'["http"] = pc["http"] /\ pc'["main"].conn = c
  BY GotoIs DEF Copy, Arm, AllFit, Inv, TypeOK
<1>3. UNCHANGED <<id, refs, batch, pending, heard>>
  BY DEF Copy, Arm, world
<1>4. CASE Copy
  <2>1. UNCHANGED <<st, want>> /\ (resp' = resp \/ resp' = [resp EXCEPT ![c] = pc["main"].id])
    BY <1>4 DEF Copy
  <2> QED
    BY <1>1, <1>2, <1>3, <2>1
<1>5. CASE Arm
  <2>1. Respond(c) /\ resp' = resp
    BY <1>5 DEF Arm, AllFit
  <2> QED
    BY <1>1, <1>2, <1>3, <2>1
<1> QED
  BY <1>4, <1>5

(* What handling an event does to the slot.                                 *)
LEMMA Handled ==
  ASSUME Inv, NEW c \in Conns, Event(c)
  PROVE  /\ UNCHANGED <<id, refs, pending>> /\ pc'["main"] = pc["main"]
         /\ \A d \in Conns : Watched(d)' <=> Watched(d)
         /\ st' = st \/ \E s \in {"processing", "writing"} :
                          st[c] = "reading" /\ st' = [st EXCEPT ![c] = s]
         /\ resp' = resp \/ resp' = [resp EXCEPT ![c] = Core]
         /\ heard' = heard \/ heard' = [heard EXCEPT ![id[c]] = resp[c]]
         /\ pc'["http"].conn \in {c, NoConn}
         /\ pc'["http"].at = "park" => st[c] = "reading"
<1>1. UNCHANGED <<id, refs, pending>> /\ pc'["main"] = pc["main"]
  BY GotoIs DEF Event, Hup, ReadOn, AnswerNow, AnswerTooLong, Forward, Write, Inv, TypeOK
<1>2. \A d \in Conns : Watched(d)' <=> Watched(d)
  <2>1. CASE AnswerNow(c)
    BY <2>1 DEF AnswerNow, Respond, Watched, Inv, TypeOK, ConnTypes
  <2>2. CASE ~AnswerNow(c)
    BY <2>2 DEF Event, Hup, ReadOn, AnswerTooLong, Forward, Write, Watched
  <2> QED
    BY <2>1, <2>2
<1>3. /\ st' = st \/ \E s \in {"processing", "writing"} :
                       st[c] = "reading" /\ st' = [st EXCEPT ![c] = s]
      /\ resp' = resp \/ resp' = [resp EXCEPT ![c] = Core]
  BY DEF Event, Hup, ReadOn, AnswerNow, AnswerTooLong, Forward, Write, Complete, Respond
<1>4. heard' = heard \/ heard' = [heard EXCEPT ![id[c]] = resp[c]]
  BY DEF Event, Hup, ReadOn, AnswerNow, AnswerTooLong, Forward, Write, world, Inv,
         TypeOK, WorldTypes
<1>5. pc'["http"].conn \in {c, NoConn} /\ (pc'["http"].at = "park" => st[c] = "reading")
  BY TurnIs, GotoIs
  DEF Event, Hup, ReadOn, AnswerNow, AnswerTooLong, Forward, Write, Complete, At, Inv, TypeOK
<1> QED
  BY <1>1, <1>2, <1>3, <1>4, <1>5

(* The reference count of a slot, line 68: each way to come to hold a slot  *)
(* brings a reference, each way to give it up returns one.                  *)
LEMMA RefsStep ==
  ASSUME AllFit, Inv, [Next]_vars
  PROVE  RefsCoverHolders'
<1> DEFINE Covered(c) ==
      /\ refs'[c] >= Count(LoopHas(c))' + Count(TableHas(c))' + Count(MainHas(c))'
      /\ Used(c)' <=> refs'[c] > 0
<1>0. TypeOK'
  BY TypeStep
<1>a. \A c \in Conns : Used(c) <=> refs[c] > 0
  BY DEF Inv, RefsCoverHolders
<1> SUFFICES \A c \in Conns : Covered(c)
  BY DEF RefsCoverHolders
<1>1. ASSUME NEW i \in Ids, Client(i)
      PROVE  \A c \in Conns : Covered(c)
  BY <1>0, <1>1, <1>a, NoNewHolder
  DEF Client, Send, Leave, Reset, Drain, LoopHas, TableHas, Entries, MainHas, Watched, Used
<1>2. ASSUME NEW i \in Ids, Accept(i)
      PROVE  \A c \in Conns : Covered(c)
  <2>1. CASE \A c \in Conns : Used(c)
    BY <1>0, <1>2, <1>a, <2>1, NoNewHolder
    DEF Accept, conns, LoopHas, TableHas, Entries, MainHas, Watched, Used
  <2>2. CASE ~ \A c \in Conns : Used(c)
    <3>1. PICK d \in Conns : /\ ~Used(d)
                             /\ st' = [st EXCEPT ![d] = "reading"]
                             /\ refs' = [refs EXCEPT ![d] = 1]
                             /\ want' = [want EXCEPT ![d] = "in"]
                             /\ UNCHANGED <<batch, pending, pc>>
      BY <1>2, <2>2 DEF Accept
    <3>2. refs[d] = 0 /\ ~TableHas(d) /\ ~MainHas(d)
      BY <1>a, <3>1 DEF Inv, RefsCoverHolders, Count, TypeOK, ConnTypes
    <3>3. Covered(d)
      BY <3>1, <3>2 DEF Count, TableHas, Entries, MainHas, LoopHas, Watched, Used, Inv,
                        TypeOK, ConnTypes
    <3>4. ASSUME NEW c \in Conns, c # d
          PROVE  Covered(c)
      <4>1. refs'[c] = refs[c] /\ (Used(c)' <=> Used(c)) /\ (LoopHas(c)' <=> LoopHas(c))
        BY <3>1, <3>4 DEF Used, LoopHas, Watched, Inv, TypeOK, ConnTypes
      <4>2. (TableHas(c)' <=> TableHas(c)) /\ (MainHas(c)' <=> MainHas(c))
        BY <3>1 DEF TableHas, Entries, MainHas
      <4> QED
        BY <1>0, <1>a, <4>1, <4>2, NoNewHolder
    <3> QED
      BY <3>3, <3>4
  <2> QED
    BY <2>1, <2>2
<1>3. ASSUME NEW i \in Ids, Reply(i)
      PROVE  \A c \in Conns : Covered(c)
  <2>1. CASE UNCHANGED <<conns, pending, pc, heard>>
    BY <1>0, <1>a, <2>1, NoNewHolder
    DEF conns, LoopHas, TableHas, Entries, MainHas, Watched, Used
  <2>2. CASE ~ UNCHANGED <<conns, pending, pc, heard>>
    <3>1. PICK n \in DOMAIN pending :
            /\ pending' = Without(n)
            /\ pending[n].conn \in Conns /\ TableHas(pending[n].conn)
            /\ pc'["http"] = pc["http"] /\ pc["main"].conn = NoConn
            /\ pc'["main"].conn = pending[n].conn
            /\ UNCHANGED conns
      BY <1>3, <2>2, Taken
    <3>d. PICK d \in Conns : d = pending[n].conn
      BY <3>1
    <3>2. \A c \in Conns : /\ TableHas(c)' <=> TableHas(c) /\ c # d
                           /\ LoopHas(c)' <=> LoopHas(c)
                           /\ MainHas(c)' <=> c = d
                           /\ refs'[c] = refs[c] /\ (Used(c)' <=> Used(c))
      BY <3>1, <3>d, TableWithout DEF conns, LoopHas, MainHas, Watched, Used
    <3>3. ~MainHas(d)
      BY <3>1, HttpAssumption DEF MainHas
    <3>4. TableHas(d)
      BY <3>1, <3>d
    <3>5. Covered(d)
      BY <1>a, <3>2, <3>3, <3>4 DEF Count, Inv, RefsCoverHolders, TypeOK, ConnTypes
    <3>6. \A c \in Conns \ {d} : Covered(c)
      BY <1>0, <1>a, <3>2, NoNewHolder
    <3> QED
      BY <3>5, <3>6
  <2> QED
    BY <2>1, <2>2
<1>4. ASSUME NEW d \in Conns, Event(d)
      PROVE  \A c \in Conns : Covered(c)
  <2>1. \A c \in Conns : /\ refs'[c] = refs[c] /\ (Used(c)' <=> Used(c))
                         /\ (TableHas(c)' <=> TableHas(c)) /\ (MainHas(c)' <=> MainHas(c))
    BY <1>4, Handled DEF TableHas, Entries, MainHas, Used, Inv, TypeOK, ConnTypes
  <2>2. \A c \in Conns : LoopHas(c)' => LoopHas(c)
    BY <1>4, Handled, TurnIs, HttpAssumption DEF LoopHas, Inv, TypeOK, ConnTypes
  <2> QED
    BY <1>0, <1>a, <2>1, <2>2, NoNewHolder
<1>5. CASE Fetch \/ UNCHANGED vars
  <2>1. \A c \in Conns : /\ refs'[c] = refs[c] /\ (Used(c)' <=> Used(c))
                         /\ (TableHas(c)' <=> TableHas(c)) /\ (MainHas(c)' <=> MainHas(c))
                         /\ LoopHas(c)' => LoopHas(c)
    BY <1>5 DEF Fetch, vars, conns, LoopHas, TableHas, Entries, MainHas, Watched, Used,
                Inv, Sockets
  <2> QED
    BY <1>0, <1>a, <2>1, NoNewHolder
<1>6. CASE Park
  <2>1. PICK d \in Conns :
        /\ id[d] \in Ids /\ refs[d] = 1 /\ ~MainHas(d) /\ Watched(d)
        /\ IF Len(pending) < MaxPending THEN Parked(d) ELSE UNCHANGED <<pending, refs>>
        /\ pc'["http"].conn = NoConn /\ pc'["main"] = pc["main"]
        /\ UNCHANGED <<st, want, batch>>
    BY <1>6, ToPark
  <2>2. \A c \in Conns : /\ (LoopHas(c)' => LoopHas(c)) /\ (Used(c)' <=> Used(c))
                         /\ MainHas(c)' <=> MainHas(c)
    BY <2>1, HttpAssumption DEF LoopHas, MainHas, Watched, Used
  <2>3. CASE Len(pending) < MaxPending
    <3>1. \A c \in Conns \ {d} : refs'[c] = refs[c] /\ (TableHas(c)' <=> TableHas(c))
      BY <2>1, <2>3, TableParked DEF Parked, Inv, TypeOK, ConnTypes
    <3>2. refs'[d] = 2
      BY <2>1, <2>3 DEF Parked, Inv, TypeOK, ConnTypes
    <3>3. Covered(d)
      BY <1>a, <2>1, <2>2, <3>2 DEF Count
    <3> QED
      BY <1>0, <1>a, <2>2, <3>1, <3>3, NoNewHolder
  <2>4. CASE ~(Len(pending) < MaxPending)
    BY <1>0, <1>a, <2>1, <2>2, <2>4, NoNewHolder DEF TableHas, Entries
  <2> QED
    BY <2>3, <2>4
<1>7. CASE Close("http")
  <2> DEFINE d == pc["http"].conn
  <2>1. /\ d \in Conns /\ pc'["http"].conn = d /\ pc'["main"] = pc["main"]
        /\ want' = [want EXCEPT ![d] = "none"] /\ Forget(d)
        /\ UNCHANGED <<st, refs, batch>>
    BY <1>7, InHand, GotoIs DEF Close, At, Inv, TypeOK
  <2>2. \A c \in Conns : /\ refs'[c] = refs[c] /\ (Used(c)' <=> Used(c))
                         /\ TableHas(c)' => TableHas(c)
                         /\ MainHas(c)' <=> MainHas(c)
    BY <2>1, TableForget DEF MainHas, Used
  <2>3. \A c \in Conns : LoopHas(c)' => LoopHas(c)
    BY <2>1 DEF LoopHas, Watched, Inv, TypeOK, ConnTypes
  <2> QED
    BY <1>0, <1>a, <2>2, <2>3, NoNewHolder
<1>8. CASE DropLoopRef("http")
  <2>1. PICK d \in Conns :
        /\ LoopHas(d) /\ ~Watched(d) /\ batch[d] = {} /\ Unref(d)
        /\ pc'["http"].conn = NoConn /\ pc'["main"] = pc["main"] /\ pending' = pending
    BY <1>8, Drops, GotoIs DEF DropLoopRef, Inv, TypeOK
  <2>2. /\ \/ refs[d] = 2 /\ refs' = [refs EXCEPT ![d] = 1] /\ st' = st
           \/ /\ refs[d] = 1 /\ refs' = [refs EXCEPT ![d] = 0]
              /\ st' = [st EXCEPT ![d] = "free"]
        /\ want' = want /\ batch' = batch
    BY <2>1, UnrefIs DEF Inv
  <2>3. \A c \in Conns : /\ LoopHas(c)' => LoopHas(c)
                         /\ (TableHas(c)' <=> TableHas(c)) /\ (MainHas(c)' <=> MainHas(c))
    BY <2>1, <2>2, HttpAssumption DEF LoopHas, TableHas, Entries, MainHas, Watched
  <2>4. ~LoopHas(d)'
    BY <2>1, <2>2, HttpAssumption DEF LoopHas, Watched
  <2>5. Covered(d)
    BY <1>a, <2>1, <2>2, <2>3, <2>4
    DEF Count, Inv, RefsCoverHolders, TypeOK, ConnTypes, Used
  <2>6. \A c \in Conns \ {d} : refs'[c] = refs[c] /\ (Used(c)' <=> Used(c))
    BY <2>1, <2>2 DEF Used, Inv, TypeOK, ConnTypes
  <2> QED
    BY <1>0, <1>a, <2>3, <2>5, <2>6, NoNewHolder
<1>9. CASE Copy \/ Arm
  <2>1. \A c \in Conns : /\ refs'[c] = refs[c]
                         /\ (TableHas(c)' <=> TableHas(c)) /\ (MainHas(c)' <=> MainHas(c))
                         /\ LoopHas(c)' => LoopHas(c)
    BY <1>9, Completing, HttpAssumption
    DEF Respond, LoopHas, TableHas, Entries, MainHas, Watched, Inv, TypeOK, ConnTypes
  <2>2. \A c \in Conns : Used(c)' <=> Used(c)
    BY <1>9, Completing, IdTypes DEF Respond, Used, Idents, Inv, TypeOK, ConnTypes
  <2> QED
    BY <1>0, <1>a, <2>1, <2>2, NoNewHolder
<1>10. CASE DropAsyncRef
  <2>1. PICK d \in Conns :
        /\ MainHas(d) /\ Unref(d)
        /\ pc'["main"].conn = NoConn /\ pc'["http"] = pc["http"] /\ pending' = pending
    BY <1>10, Drops, GotoIs DEF DropAsyncRef, Inv, TypeOK
  <2>2. /\ \/ refs[d] = 2 /\ refs' = [refs EXCEPT ![d] = 1] /\ st' = st
           \/ /\ refs[d] = 1 /\ refs' = [refs EXCEPT ![d] = 0]
              /\ st' = [st EXCEPT ![d] = "free"]
        /\ want' = want /\ batch' = batch
    BY <2>1, UnrefIs DEF Inv
  <2>3. \A c \in Conns : /\ (LoopHas(c)' <=> LoopHas(c))
                         /\ (TableHas(c)' <=> TableHas(c)) /\ ~MainHas(c)'
    BY <2>1, <2>2, HttpAssumption DEF LoopHas, TableHas, Entries, MainHas, Watched
  <2>4. Covered(d)
    BY <1>a, <2>1, <2>2, <2>3
    DEF Count, Inv, RefsCoverHolders, TypeOK, ConnTypes, Used
  <2>5. \A c \in Conns \ {d} : refs'[c] = refs[c] /\ (Used(c)' <=> Used(c))
    BY <2>1, <2>2 DEF Used, Inv, TypeOK, ConnTypes
  <2> QED
    BY <1>0, <1>a, <2>3, <2>4, <2>5, NoNewHolder
<1> QED
  BY <1>1, <1>2, <1>3, <1>4, <1>5, <1>6, <1>7, <1>8, <1>9, <1>10, Steps DEF Inv

(* A connection that was not parked yet stays the event loop's alone.       *)
LEMMA FreshStep ==
  ASSUME AllFit, Inv, [Next]_vars
  PROVE  Fresh'
<1> USE DEF Inv, Fresh, Unparked, At
<1> DEFINE Same(c) == /\ Unparked(c)' => Unparked(c)
                      /\ refs'[c] = refs[c]
                      /\ TableHas(c)' => TableHas(c)
                      /\ MainHas(c)' => MainHas(c)
<1>1. ASSUME NEW i \in Ids, Client(i)
      PROVE  \A c \in Conns : Same(c)
  BY <1>1 DEF Client, Send, Leave, Reset, Drain, TableHas, Entries, MainHas
<1>2. ASSUME NEW i \in Ids, Accept(i)
      PROVE  Fresh'
  <2>1. CASE \A c \in Conns : Used(c)
    BY <1>2, <2>1 DEF Accept, conns, TableHas, Entries, MainHas
  <2>2. CASE ~ \A c \in Conns : Used(c)
    <3>1. PICK d \in Conns : /\ ~Used(d)
                             /\ st' = [st EXCEPT ![d] = "reading"]
                             /\ refs' = [refs EXCEPT ![d] = 1]
                             /\ UNCHANGED <<pending, pc>>
      BY <1>2, <2>2 DEF Accept
    <3>2. ~TableHas(d) /\ ~MainHas(d)
      BY <3>1 DEF TableHas, Entries, PendingIsOwn, Used, Idents, MainHands
    <3> QED
      BY <3>1, <3>2 DEF TableHas, Entries, MainHas, TypeOK, ConnTypes
  <2> QED
    BY <2>1, <2>2
<1>3. ASSUME NEW i \in Ids, Reply(i)
      PROVE  Fresh'
  <2>1. CASE UNCHANGED <<conns, pending, pc, heard>>
    BY <2>1 DEF conns, TableHas, Entries, MainHas
  <2>2. CASE ~ UNCHANGED <<conns, pending, pc, heard>>
    <3>1. PICK n \in DOMAIN pending, d \in Conns :
            /\ pending' = Without(n) /\ TableHas(d)
            /\ pc'["http"] = pc["http"] /\ pc'["main"].conn = d
            /\ UNCHANGED <<st, refs>>
      BY <1>3, <2>2, Taken DEF conns
    <3>2. ASSUME NEW c \in Conns, Unparked(c)'
          PROVE  refs'[c] = 1 /\ ~TableHas(c)' /\ ~MainHas(c)'
      <4>1. Unparked(c)
        BY <3>1, <3>2
      <4> QED
        BY <3>1, <4>1, TableWithout DEF MainHas
    <3> QED
      BY <3>2
  <2> QED
    BY <2>1, <2>2
<1>4. ASSUME NEW d \in Conns, Event(d)
      PROVE  \A c \in Conns : Same(c)
  <2>1. /\ UNCHANGED <<refs, pending>> /\ pc'["main"] = pc["main"]
        /\ st' = st \/ \E s \in {"processing", "writing"} :
                         st[d] = "reading" /\ st' = [st EXCEPT ![d] = s]
        /\ pc'["http"].conn \in {d, NoConn}
        /\ pc'["http"].at = "park" => st[d] = "reading"
    BY <1>4, Handled
  <2> QED
    BY <2>1, HttpAssumption DEF TableHas, Entries, MainHas, TypeOK, ConnTypes
<1>5. CASE Fetch \/ UNCHANGED vars
  BY <1>5 DEF Fetch, vars, conns, TableHas, Entries, MainHas
<1>6. CASE Park
  <2>1. PICK d \in Conns :
          /\ id[d] \in Ids /\ st[d] = "processing"
          /\ IF Len(pending) < MaxPending THEN Parked(d) ELSE UNCHANGED <<pending, refs>>
          /\ pc'["http"].at = "loop" /\ pc'["main"] = pc["main"]
          /\ UNCHANGED st
    BY <1>6, ToPark
  <2>2. ASSUME NEW c \in Conns, Unparked(c)'
        PROVE  refs'[c] = 1 /\ ~TableHas(c)' /\ ~MainHas(c)'
    <3>1. Unparked(c) /\ c # d
      BY <2>1, <2>2
    <3>2. ~MainHas(c)' /\ refs'[c] = refs[c]
      BY <2>1, <3>1 DEF MainHas, Parked, TypeOK, ConnTypes
    <3>3. ~TableHas(c)'
      <4>1. CASE Len(pending) < MaxPending
        BY <2>1, <3>1, <4>1, TableParked
      <4>2. CASE ~(Len(pending) < MaxPending)
        BY <2>1, <3>1, <4>2 DEF TableHas, Entries
      <4> QED
        BY <4>1, <4>2
    <3> QED
      BY <3>1, <3>2, <3>3
  <2> QED
    BY <2>2
<1>7. CASE Close("http")
  <2>1. PICK d \in Conns : /\ pc'["http"].at = "closed" /\ pc'["main"] = pc["main"]
                           /\ Forget(d) /\ UNCHANGED <<st, refs>>
    BY <1>7, InHand, GotoIs DEF Close, TypeOK
  <2> QED
    BY <2>1, TableForget DEF MainHas
<1>8. CASE DropLoopRef("http")
  <2>1. /\ pc'["http"].at = "loop" /\ pc'["main"] = pc["main"] /\ pending' = pending
    BY <1>8, GotoIs DEF DropLoopRef, TypeOK
  <2>2. PICK d \in Conns :
          \/ refs[d] = 2 /\ refs' = [refs EXCEPT ![d] = 1] /\ st' = st
          \/ /\ refs' = [refs EXCEPT ![d] = 0] /\ st' = [st EXCEPT ![d] = "free"]
    BY <1>8, Drops, UnrefIs
  <2> QED
    BY <2>1, <2>2 DEF TableHas, Entries, MainHas, TypeOK, ConnTypes
<1>9. CASE Copy \/ Arm
  <2>1. PICK d \in Conns :
          /\ UNCHANGED <<refs, pending>> /\ pc'["http"] = pc["http"]
          /\ MainHas(d) /\ pc'["main"].conn = d
          /\ st' = st \/ st' = [st EXCEPT ![d] = "writing"]
    BY <1>9, Completing DEF Respond
  <2> QED
    BY <2>1 DEF TableHas, Entries, MainHas, TypeOK, ConnTypes
<1>10. CASE DropAsyncRef
  <2>1. /\ pc'["main"].conn = NoConn /\ pc'["http"] = pc["http"] /\ pending' = pending
    BY <1>10, GotoIs DEF DropAsyncRef, TypeOK
  <2>2. PICK d \in Conns :
          /\ MainHas(d)
          /\ \/ refs[d] = 2 /\ refs' = [refs EXCEPT ![d] = 1] /\ st' = st
             \/ /\ refs' = [refs EXCEPT ![d] = 0] /\ st' = [st EXCEPT ![d] = "free"]
    BY <1>10, Drops, UnrefIs
  <2> QED
    BY <2>1, <2>2, HttpAssumption DEF TableHas, Entries, MainHas, TypeOK, ConnTypes
<1> QED
  BY <1>1, <1>2, <1>3, <1>4, <1>5, <1>6, <1>7, <1>8, <1>9, <1>10, Steps

(* Whose answer a connection has, and a client gets.                        *)
LEMMA BodiesStep ==
  ASSUME AllFit, Inv, [Next]_vars
  PROVE  Bodies' /\ RightClient'
<1> USE DEF Inv, Bodies, RightClient
<1>1. ASSUME NEW i \in Ids, Client(i)
      PROVE  Bodies' /\ RightClient'
  BY <1>1 DEF Client, Send, Leave, Reset, Drain, world
<1>2. ASSUME NEW i \in Ids, Accept(i)
      PROVE  Bodies' /\ RightClient'
  <2>1. \A c \in Conns : resp'[c] = resp[c] /\ (id'[c] = id[c] \/ id[c] = NoId)
    BY <1>2 DEF Accept, conns, Idents, Used, TypeOK, ConnTypes
  <2> QED
    BY <1>2, <2>1 DEF Accept
<1>3. ASSUME NEW i \in Ids, Reply(i)
      PROVE  Bodies' /\ RightClient'
  BY <1>3 DEF Reply, conns
<1>4. ASSUME NEW c \in Conns, Event(c)
      PROVE  Bodies' /\ RightClient'
  <2>1. /\ id' = id /\ id[c] \in Ids
        /\ resp' = resp \/ resp' = [resp EXCEPT ![c] = Core]
        /\ heard' = heard \/ heard' = [heard EXCEPT ![id[c]] = resp[c]]
    BY <1>4, Handled, TurnIs
  <2> QED
    BY <2>1 DEF TypeOK, ConnTypes, WorldTypes
<1>5. CASE Fetch \/ Park \/ UNCHANGED vars
  BY <1>5 DEF Fetch, Park, vars, conns, world
<1>6. CASE Close("http")
  BY <1>6 DEF Close, TypeOK, ConnTypes
<1>7. CASE DropLoopRef("http") \/ DropAsyncRef
  <2>1. PICK c \in Conns :
          \/ id' = id /\ resp' = resp
          \/ id' = [id EXCEPT ![c] = NoId] /\ resp' = [resp EXCEPT ![c] = NoId]
    BY <1>7, Drops, UnrefIs
  <2>2. heard' = heard
    BY <1>7 DEF DropLoopRef, DropAsyncRef, world
  <2> QED
    BY <2>1, <2>2 DEF TypeOK, ConnTypes
<1>8. CASE Copy \/ Arm
  <2>1. PICK c \in Conns : /\ UNCHANGED <<id, heard>>
                           /\ resp' = resp \/ resp' = [resp EXCEPT ![c] = id[c]]
    BY <1>8, Completing
  <2> QED
    BY <2>1 DEF TypeOK, ConnTypes
<1> QED
  BY <1>1, <1>2, <1>3, <1>4, <1>5, <1>6, <1>7, <1>8, Steps

(* The pending table's entries stay the only ones of open, waiting          *)
(* connections.                                                             *)
LEMMA PendingStep ==
  ASSUME AllFit, Inv, [Next]_vars
  PROVE  PendingIsOwn'
<1> USE DEF Inv, PendingIsOwn
<1> DEFINE Fine(c) == st[c] = "processing" /\ Watched(c) /\ ~MainHas(c)
<1>0. \A n \in DOMAIN pending : pending[n].conn \in Conns /\ TableHas(pending[n].conn)
  BY PendingConns DEF TableHas, Entries
<1>a. ASSUME pending' = pending,
             \A c \in Conns : TableHas(c) /\ Fine(c) => id'[c] = id[c] /\ Fine(c)'
      PROVE  PendingIsOwn'
  BY <1>0, <1>a
<1>1. ASSUME NEW i \in Ids, Client(i)
      PROVE  PendingIsOwn'
  BY <1>a, <1>1 DEF Client, Send, Leave, Reset, Drain, Watched, MainHas
<1>2. ASSUME NEW i \in Ids, Accept(i)
      PROVE  PendingIsOwn'
  <2>1. \A c \in Conns : Used(c) => id'[c] = id[c] /\ st'[c] = st[c] /\ want'[c] = want[c]
    BY <1>2 DEF Accept, conns, TypeOK, ConnTypes
  <2>2. pc' = pc /\ pending' = pending
    BY <1>2 DEF Accept
  <2> QED
    BY <1>a, <2>1, <2>2 DEF Watched, MainHas, Used
<1>3. ASSUME NEW i \in Ids, Reply(i)
      PROVE  PendingIsOwn'
  <2>1. CASE UNCHANGED <<conns, pending, pc, heard>>
    BY <1>a, <2>1 DEF conns, Watched, MainHas
  <2>2. CASE ~ UNCHANGED <<conns, pending, pc, heard>>
    <3>1. PICK n \in DOMAIN pending :
            /\ pending' = Without(n) /\ pending[n].conn \in Conns
            /\ pc'["main"].conn = pending[n].conn
            /\ UNCHANGED <<st, id, want>>
      BY <1>3, <2>2, Taken DEF conns
    <3>2. ASSUME NEW m \in DOMAIN pending'
          PROVE  /\ id'[pending'[m].conn] = pending'[m].id
                 /\ st'[pending'[m].conn] = "processing" /\ want'[pending'[m].conn] # "none"
                 /\ pc'["main"].conn # pending'[m].conn
      <4>1. PICK k \in DOMAIN pending : k # n /\ pending'[m] = pending[k]
        BY <3>1, WithoutIs DEF TypeOK
      <4> QED
        BY <3>1, <4>1 DEF Watched
    <3>3. \A m, l \in DOMAIN pending' : pending'[m].conn = pending'[l].conn => m = l
      BY <3>1, TableWithout
    <3> QED
      BY <3>2, <3>3 DEF Watched, MainHas
  <2> QED
    BY <2>1, <2>2
<1>4. ASSUME NEW d \in Conns, Event(d)
      PROVE  PendingIsOwn'
  <2>1. /\ UNCHANGED <<id, pending>> /\ pc'["main"] = pc["main"]
        /\ \A c \in Conns : Watched(c)' <=> Watched(c)
        /\ st' = st \/ \E s \in {"processing", "writing"} :
                         st[d] = "reading" /\ st' = [st EXCEPT ![d] = s]
    BY <1>4, Handled
  <2> QED
    BY <1>a, <2>1 DEF MainHas, TypeOK, ConnTypes
<1>5. CASE Fetch \/ UNCHANGED vars
  BY <1>a, <1>5 DEF Fetch, vars, conns, Watched, MainHas
<1>6. CASE Park
  <2>1. PICK d \in Conns :
          /\ id[d] \in Ids /\ ~TableHas(d) /\ ~MainHas(d) /\ Watched(d)
          /\ st[d] = "processing"
          /\ IF Len(pending) < MaxPending THEN Parked(d) ELSE UNCHANGED <<pending, refs>>
          /\ pc'["main"] = pc["main"]
          /\ UNCHANGED <<st, id, want>>
    BY <1>6, ToPark
  <2>2. CASE Len(pending) < MaxPending
    <3> DEFINE last == Len(pending) + 1
    <3>1. /\ DOMAIN pending' = DOMAIN pending \cup {last} /\ last \notin DOMAIN pending
          /\ \A m \in DOMAIN pending : pending'[m] = pending[m] /\ pending[m].conn # d
          /\ pending'[last].id = id[d] /\ pending'[last].conn = d
      <4>1. \A m \in DOMAIN pending : pending[m].conn # d
        BY <1>0, <2>1
      <4>2. pending'[last] = [id |-> id[d], conn |-> d]
        BY <2>1, <2>2, TableParked
      <4>3. pending'[last].id = id[d] /\ pending'[last].conn = d
        BY <4>2
      <4> QED
        BY <2>1, <2>2, <4>1, <4>3, TableParked
    <3> HIDE DEF last
    <3>2. ASSUME NEW m \in DOMAIN pending'
          PROVE  /\ id'[pending'[m].conn] = pending'[m].id
                 /\ st'[pending'[m].conn] = "processing" /\ want'[pending'[m].conn] # "none"
                 /\ pc'["main"].conn # pending'[m].conn
      BY <2>1, <3>1 DEF Watched, MainHas
    <3>3. \A m, l \in DOMAIN pending' : pending'[m].conn = pending'[l].conn => m = l
      BY <3>1
    <3> QED
      BY <3>2, <3>3 DEF Watched, MainHas
  <2>3. CASE ~(Len(pending) < MaxPending)
    BY <1>a, <2>1, <2>3 DEF Watched, MainHas
  <2> QED
    BY <2>2, <2>3
<1>7. CASE Close("http")
  <2>1. PICK d \in Conns : /\ want' = [want EXCEPT ![d] = "none"]
                           /\ pc'["main"] = pc["main"]
                           /\ Forget(d) /\ UNCHANGED <<st, id>>
    BY <1>7, InHand, GotoIs DEF Close, At, TypeOK
  <2>2. ASSUME NEW m \in DOMAIN pending'
        PROVE  /\ id'[pending'[m].conn] = pending'[m].id
               /\ st'[pending'[m].conn] = "processing" /\ want'[pending'[m].conn] # "none"
               /\ pc'["main"].conn # pending'[m].conn
    <3>1. PICK k \in DOMAIN pending : pending'[m] = pending[k]
      BY <2>1, TableForget
    <3>2. pending[k].conn \in Conns /\ pending[k].conn # d
      <4>1. PICK e \in Conns : e = pending[k].conn
        BY <1>0
      <4>2. TableHas(e)'
        BY <3>1, <4>1 DEF TableHas, Entries
      <4> QED
        BY <2>1, <4>1, <4>2, TableForget
    <3> QED
      BY <2>1, <3>1, <3>2 DEF Watched, MainHas, TypeOK, ConnTypes
  <2>3. \A m, l \in DOMAIN pending' : pending'[m].conn = pending'[l].conn => m = l
    BY <2>1, TableForget
  <2> QED
    BY <2>2, <2>3 DEF Watched, MainHas
<1>8. CASE DropLoopRef("http")
  <2>1. pc'["main"] = pc["main"] /\ pending' = pending
    BY <1>8, GotoIs DEF DropLoopRef, TypeOK
  <2>2. PICK d \in Conns :
          /\ want' = want
          /\ \/ st' = st /\ id' = id
             \/ /\ ~TableHas(d)
                /\ st' = [st EXCEPT ![d] = "free"] /\ id' = [id EXCEPT ![d] = NoId]
    BY <1>8, Drops, UnrefIs
  <2> QED
    BY <1>a, <2>1, <2>2 DEF Watched, MainHas, TypeOK, ConnTypes
<1>9. CASE Copy \/ Arm
  <2>1. PICK d \in Conns :
          /\ UNCHANGED <<id, pending>> /\ MainHas(d) /\ pc'["main"].conn = d
          /\ UNCHANGED <<st, want>> \/ Respond(d)
    BY <1>9, Completing
  <2> QED
    BY <1>a, <2>1 DEF Respond, Watched, MainHas, TypeOK, ConnTypes
<1>10. CASE DropAsyncRef
  <2>1. pc'["main"].conn = NoConn /\ pending' = pending
    BY <1>10, GotoIs DEF DropAsyncRef, TypeOK
  <2>2. PICK d \in Conns :
          /\ want' = want
          /\ \/ st' = st /\ id' = id
             \/ /\ ~TableHas(d)
                /\ st' = [st EXCEPT ![d] = "free"] /\ id' = [id EXCEPT ![d] = NoId]
    BY <1>10, Drops, UnrefIs
  <2> QED
    BY <1>a, <2>1, <2>2, HttpAssumption DEF Watched, MainHas, TypeOK, ConnTypes
<1> QED
  BY <1>1, <1>2, <1>3, <1>4, <1>5, <1>6, <1>7, <1>8, <1>9, <1>10, Steps

-----------------------------------------------------------------------------
LEMMA InvInit == Init => Inv
<1> SUFFICES ASSUME Init PROVE Inv
  OBVIOUS
<1>1. TypeOK
  BY TypeInit
<1>2. pending = <<>> /\ DOMAIN pending = {}
  BY DEF Init
<1>3. /\ \A c \in Conns : ~LoopHas(c) /\ ~TableHas(c) /\ ~MainHas(c)
      /\ \A c \in Conns : ~Used(c) /\ refs[c] = 0
  BY <1>2, HttpAssumption
  DEF Init, LoopHas, TableHas, Entries, MainHas, Watched, Used, Idle
<1>4. RefsCoverHolders
  <2> SUFFICES ASSUME NEW c \in Conns
               PROVE  /\ refs[c] >= Count(LoopHas(c)) + Count(TableHas(c)) + Count(MainHas(c))
                      /\ Used(c) <=> refs[c] > 0
    BY DEF RefsCoverHolders
  <2>1. refs[c] = 0 /\ ~LoopHas(c) /\ ~TableHas(c) /\ ~MainHas(c) /\ ~Used(c)
    BY <1>3
  <2> QED
    BY <2>1 DEF Count
<1>5. PendingIsOwn /\ RightClient /\ Idents /\ Sockets /\ Bodies
  BY <1>2 DEF Init, PendingIsOwn, RightClient, Idents, Sockets, Bodies, Used, Watched
<1>6. HttpHands /\ MainHands
  BY HttpAssumption DEF Init, HttpHands, MainHands, MainHas, At, Idle
<1>7. Fresh
  BY HttpAssumption DEF Init, Fresh, Unparked, At, Idle
<1> QED
  BY <1>1, <1>4, <1>5, <1>6, <1>7 DEF Inv

LEMMA InvStep == AllFit => (Inv /\ [Next]_vars => Inv')
BY TypeStep, RefsStep, PendingStep, BodiesStep, IdentsStep, SocketsStep, HttpHandsStep,
   MainHandsStep, FreshStep DEF Inv

(* The types of the connections, the table, the threads and the clients.    *)
THEOREM TypeCorrect == AllFit => (Spec => []TypeOK)
<1> SUFFICES ASSUME AllFit PROVE Spec => []TypeOK
  OBVIOUS
<1>1. Inv => TypeOK
  BY DEF Inv
<1> QED
  BY <1>1, InvInit, InvStep, PTL DEF Spec

(* A slot has a reference for each of its holders, however the two threads  *)
(* and any number of clients interleave: neither thread touches a slot that *)
(* is back in the pool or somebody else's (http_server.c:68).               *)
THEOREM NoUseAfterUnref == AllFit => (Spec => []RefsCoverHolders)
<1> SUFFICES ASSUME AllFit PROVE Spec => []RefsCoverHolders
  OBVIOUS
<1>1. Inv => RefsCoverHolders
  BY DEF Inv
<1> QED
  BY <1>1, InvInit, InvStep, PTL DEF Spec

(* The pending table holds open connections that wait, each once and under  *)
(* its own id (http_server.c:233-246).                                      *)
THEOREM TableIsCurrent == AllFit => (Spec => []PendingIsOwn)
<1> SUFFICES ASSUME AllFit PROVE Spec => []PendingIsOwn
  OBVIOUS
<1>1. Inv => PendingIsOwn
  BY DEF Inv
<1> QED
  BY <1>1, InvInit, InvStep, PTL DEF Spec

(* No client is ever sent the answer to somebody else's request             *)
(* (http_server.c:227-293), whatever is reset, closed and reused meanwhile. *)
THEOREM AnswersGoHome == AllFit => (Spec => []RightClient)
<1> SUFFICES ASSUME AllFit PROVE Spec => []RightClient
  OBVIOUS
<1>1. Inv => RightClient
  BY DEF Inv
<1> QED
  BY <1>1, InvInit, InvStep, PTL DEF Spec
=============================================================================
