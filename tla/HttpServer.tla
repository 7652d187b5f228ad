------------------------------ MODULE HttpServer ------------------------------
(***************************************************************************)
(* net/http_server.c: the connections of the HTTP server, shared by the    *)
(* HTTP thread, which runs the edge-triggered event loop, and the main     *)
(* thread, which completes the requests the plugins answer.                *)
(*                                                                         *)
(* A connection is a slot of a fixed pool, kept alive by ref_count: one    *)
(* reference for the event loop, one for the pending table or for the main *)
(* thread that has just taken the entry out of it.  An action is one       *)
(* critical section, one atomic operation on ref_count or one system call  *)
(* with the private work around it.  Memory is not exhausted.              *)
(***************************************************************************)
EXTENDS Naturals, Sequences

CONSTANTS
  Conns,       (* slots of conn_pool, as many as max_conns                 *)
  MaxId,       (* bound: connections accepted, each draws the next id      *)
  NoConn,      (* "no connection"                                          *)
  MaxPending,  (* entries of the pending table, 64 in the code             *)
  MaxReplies,  (* bound: http_response messages a plugin sends for one id  *)
  Pieces,      (* bound: reads a request line, writes a response may take  *)
  Fits         (* whether a plugin's response fits in the 16384 bytes that *)
               (* http_serialize_response allows: {TRUE}, or BOOLEAN       *)

ASSUME HttpAssumption == /\ NoConn \notin Conns
                         /\ MaxId \in Nat /\ MaxPending \in Nat
                         /\ MaxReplies \in Nat /\ Pieces \in Nat \ {0}
                         /\ Fits \subseteq BOOLEAN

VARIABLES
  st,       (* conn->state, or "free" when the slot is in the pool         *)
  id,       (* conn->request_id                                            *)
  refs,     (* conn->ref_count                                             *)
  want,     (* what epoll watches the socket for                           *)
  edge,     (* events epoll has for the next epoll_wait                    *)
  batch,    (* events of the last epoll_wait not yet handled               *)
  resp,     (* whose body conn->resp points at                             *)
  left,     (* pieces of write_buf still to be written                     *)
  pending,  (* the pending table, entries 1 to pending_count               *)
  pc,       (* where each thread is, and the conn and id in its hands      *)
  peer,     (* the client that drew this id                                *)
  sent,     (* pieces of its request the client has sent                   *)
  heard,    (* whose response the client received                          *)
  owed,     (* http_response messages a plugin may still send for this id  *)
  freed     (* ids of the replies whose body was freed                     *)

Ids == 1 .. MaxId
NoId == 0          (* an id that was never drawn: conn_reset clears it     *)
Core == MaxId + 1  (* as a response: one made by the core, not by a plugin *)

conns == <<st, id, refs, want, edge, batch, resp, left>>
world == <<peer, sent, heard, owed, freed>>
vars == <<conns, pending, pc, world>>

Used(c) == st[c] # "free"
Watched(c) == want[c] # "none"
At(t, where) == pc[t].at = where
Idle(where) == [at |-> where, conn |-> NoConn, id |-> NoId]
Goto(t, where, c, i) ==
  pc' = [pc EXCEPT ![t] = [at |-> where, conn |-> c, id |-> i]]

Init == /\ st = [c \in Conns |-> "free"]
        /\ id = [c \in Conns |-> NoId]
        /\ refs = [c \in Conns |-> 0]
        /\ want = [c \in Conns |-> "none"]
        /\ edge = [c \in Conns |-> {}]
        /\ batch = [c \in Conns |-> {}]
        /\ resp = [c \in Conns |-> NoId]
        /\ left = [c \in Conns |-> 0]
        /\ pending = <<>>
        /\ pc = [http |-> Idle("loop"), main |-> Idle("loop")]
        /\ peer = [i \in Ids |-> "new"]
        /\ sent = [i \in Ids |-> 0]
        /\ heard = [i \in Ids |-> NoId]
        /\ owed = [i \in Ids |-> 0]
        /\ freed = {}

-----------------------------------------------------------------------------
(* The client of id i: it sends its request line in pieces and the rest in  *)
(* one, shuts down its end or resets the connection; and its kernel makes   *)
(* room for more.  Each is an event e if epoll watches the socket for one   *)
(* of W.                                                                    *)
Raise(i, e, W) == edge' = [c \in Conns |-> IF id[c] = i /\ want[c] \in W
                                           THEN edge[c] \cup {e} ELSE edge[c]]

Connected(i) == \E c \in Conns : id[c] = i

Send(i) == /\ Connected(i) /\ peer[i] = "here" /\ sent[i] <= Pieces
           /\ sent' = [sent EXCEPT ![i] = @ + 1]
           /\ Raise(i, "in", {"in"})
           /\ UNCHANGED <<st, id, refs, want, batch, resp, left, pending, pc,
                          peer, heard, owed, freed>>

Leave(i) == /\ Connected(i) /\ peer[i] = "here"
            /\ peer' = [peer EXCEPT ![i] = "left"]
            /\ Raise(i, "in", {"in"})
            /\ UNCHANGED <<st, id, refs, want, batch, resp, left, pending, pc,
                           sent, heard, owed, freed>>

Reset(i) == /\ Connected(i) /\ peer[i] \in {"here", "left"}
            /\ peer' = [peer EXCEPT ![i] = "reset"]
            /\ Raise(i, "hup", {"in", "out"})
            /\ UNCHANGED <<st, id, refs, want, batch, resp, left, pending, pc,
                           sent, heard, owed, freed>>

Drain(i) == /\ peer[i] \in {"here", "left"}
            /\ \E c \in Conns : /\ id[c] = i
                                /\ want[c] = "out" /\ "out" \notin edge[c]
            /\ Raise(i, "out", {"out"})
            /\ UNCHANGED <<st, id, refs, want, batch, resp, left, pending, pc,
                           world>>

-----------------------------------------------------------------------------
(* handle_accept: a new client gets a slot and an id, or is turned away     *)
(* when every slot is in use.                                               *)
Accept(i) ==
  /\ At("http", "loop")
  /\ peer[i] = "new" /\ \A j \in 1 .. i - 1 : peer[j] # "new"
  /\ IF \A c \in Conns : Used(c)
     THEN peer' = [peer EXCEPT ![i] = "refused"] /\ UNCHANGED conns
     ELSE \E c \in Conns :
            /\ ~Used(c)
            /\ peer' = [peer EXCEPT ![i] = "here"]
            /\ st' = [st EXCEPT ![c] = "reading"]
            /\ id' = [id EXCEPT ![c] = i]
            /\ refs' = [refs EXCEPT ![c] = 1]
            /\ want' = [want EXCEPT ![c] = "in"]
            /\ UNCHANGED <<edge, batch, resp, left>>
  /\ UNCHANGED <<pending, pc, sent, heard, owed, freed>>

(* epoll_wait: a batch of events, each reported once.                       *)
Fetch == /\ At("http", "loop")
         /\ \A c \in Conns : batch[c] = {}
         /\ \E c \in Conns : edge[c] # {}
         /\ batch' = edge
         /\ edge' = [c \in Conns |-> {}]
         /\ UNCHANGED <<st, id, refs, want, resp, left, pending, pc, world>>

(* Mutant: the socket is not switched to writing.                           *)
RespondUnarmed(c) == /\ st' = [st EXCEPT ![c] = "writing"]
                     /\ left' = [left EXCEPT ![c] = Pieces]
                     /\ UNCHANGED <<want, edge>>

(* The response is in write_buf: watch for room instead of for input.  The  *)
(* socket has room, and epoll says so at once; a socket that was taken out  *)
(* of epoll stays out.                                                      *)
Respond(c) == /\ st' = [st EXCEPT ![c] = "writing"]
              /\ left' = [left EXCEPT ![c] = Pieces]
              /\ want' = [want EXCEPT ![c] = IF Watched(c) THEN "out" ELSE @]
              /\ edge' = [edge EXCEPT ![c] = IF Watched(c)
                                             THEN (@ \ {"in"}) \cup {"out"} ELSE @]

(* The next event of the batch is for slot c.                               *)
Turn(c) == /\ At("http", "loop")
           /\ batch[c] # {}
           /\ batch' = [batch EXCEPT ![c] = {}]

(* Mutant: EPOLLHUP and EPOLLERR are not looked at.                         *)
HupIgnored(c) == /\ Turn(c)
                 /\ "hup" \in batch[c]
                 /\ UNCHANGED <<st, id, refs, want, edge, resp, left, pending,
                                pc, world>>

(* EPOLLERR or EPOLLHUP                                                     *)
Hup(c) == /\ Turn(c)
          /\ "hup" \in batch[c]
          /\ Goto("http", "close", c, NoId)
          /\ UNCHANGED <<st, id, refs, want, edge, resp, left, pending, world>>

(* handle_read takes all there is; the end of the stream closes the         *)
(* connection even when a whole request came before it.  Part of a request  *)
(* line, or bytes after it, change nothing.                                 *)
ReadOn(c) == /\ Turn(c)
             /\ "in" \in batch[c] /\ "hup" \notin batch[c]
             /\ IF peer[id[c]] # "here"
                THEN Goto("http", "close", c, NoId)
                ELSE /\ st[c] # "reading" \/ sent[id[c]] < Pieces
                     /\ UNCHANGED pc
             /\ UNCHANGED <<st, id, refs, want, edge, resp, left, pending,
                            world>>

(* process_request once the request line is whole (http_parse_request asks  *)
(* for no more), answered by the core, whose response may be too long ...   *)
Complete(c) == /\ Turn(c)
               /\ "in" \in batch[c] /\ "hup" \notin batch[c]
               /\ peer[id[c]] = "here" /\ st[c] = "reading" /\ sent[id[c]] >= Pieces

AnswerNow(c) == /\ Complete(c)
                /\ resp' = [resp EXCEPT ![c] = Core]
                /\ Respond(c)
                /\ UNCHANGED <<id, refs, pending, pc, world>>

AnswerTooLong(c) == /\ Complete(c)
                    /\ st' = [st EXCEPT ![c] = "processing"]
                    /\ resp' = [resp EXCEPT ![c] = Core]
                    /\ Goto("http", "close", c, NoId)
                    /\ UNCHANGED <<id, refs, want, edge, left, pending, world>>

(* ... or forwarded to a plugin: http_async_handler sends the id to the     *)
(* plugin's socket and returns 1 ...                                        *)
Forward(c) == /\ Complete(c)
              /\ st' = [st EXCEPT ![c] = "processing"]
              /\ owed' = [owed EXCEPT ![id[c]] = MaxReplies]
              /\ Goto("http", "park", c, id[c])
              /\ UNCHANGED <<id, refs, want, edge, resp, left, pending,
                             peer, sent, heard, freed>>

(* Mutants: the pending table takes two references, or none.                *)
ParkedTwice(c) == /\ pending' = Append(pending, [id |-> id[c], conn |-> c])
                  /\ refs' = [refs EXCEPT ![c] = @ + 2]
ParkedUncounted(c) == /\ pending' = Append(pending, [id |-> id[c], conn |-> c])
                      /\ UNCHANGED refs

(* The pending table's entry for slot c, and its reference.                 *)
Parked(c) == /\ pending' = Append(pending, [id |-> id[c], conn |-> c])
             /\ refs' = [refs EXCEPT ![c] = @ + 1]

(* ... and only then enters it in the pending table, if there is room.      *)
Park == LET c == pc["http"].conn
        IN /\ At("http", "park")
           /\ IF Len(pending) < MaxPending
              THEN Parked(c) ELSE UNCHANGED <<pending, refs>>
           /\ Goto("http", "loop", NoConn, NoId)
           /\ UNCHANGED <<st, id, want, edge, batch, resp, left, world>>

(* handle_write: as many pieces as there is room for; the connection is     *)
(* closed after the last one, or when the client has reset it.              *)
Write(c) == /\ Turn(c)
            /\ "out" \in batch[c] /\ "hup" \notin batch[c]
            /\ \E n \in 1 .. left[c] :
                 /\ left' = [left EXCEPT ![c] = @ - n]
                 /\ IF peer[id[c]] # "reset" /\ n < left[c]
                    THEN UNCHANGED <<pc, heard>>
                    ELSE /\ Goto("http", "close", c, NoId)
                         /\ heard' = [heard EXCEPT ![id[c]] =
                                        IF peer[id[c]] = "reset" THEN @ ELSE resp[c]]
            /\ UNCHANGED <<st, id, refs, want, edge, resp, pending,
                           peer, sent, owed, freed>>

-----------------------------------------------------------------------------
(* Mutant: the last entry is cut off whichever was to go.                   *)
WithoutLast(n) == SubSeq(pending, 1, Len(pending) - 1)

(* The table without its n-th entry: the last one takes its place.          *)
Without(n) == [m \in 1 .. Len(pending) - 1 |->
                 IF m = n THEN pending[Len(pending)] ELSE pending[m]]

(* close_connection drops the connection's entry, but not the reference     *)
(* that came with it.                                                       *)
Entries(c) == {n \in DOMAIN pending : pending[n].conn = c}

Forget(c) == IF Entries(c) = {} THEN UNCHANGED pending
             ELSE \E n \in Entries(c) : pending' = Without(n)

Freed(i) == freed' = freed \cup ({i} \cap Ids)

(* close_connection by thread t: out of epoll, out of the pending table,    *)
(* response freed, ...                                                      *)
Close(t) == LET c == pc[t].conn
            IN /\ At(t, "close")
               /\ want' = [want EXCEPT ![c] = "none"]
               /\ edge' = [edge EXCEPT ![c] = {}]
               /\ Forget(c)
               /\ Freed(resp[c])
               /\ resp' = [resp EXCEPT ![c] = NoId]
               /\ Goto(t, "closed", c, pc[t].id)
               /\ UNCHANGED <<st, id, refs, batch, left, peer, sent, heard, owed>>

(* conn_unref: the last reference returns the slot to the pool.             *)
Unref(c) == IF refs[c] > 1
            THEN /\ refs' = [refs EXCEPT ![c] = @ - 1]
                 /\ UNCHANGED <<st, id, want, edge, batch, resp, left>>
            ELSE /\ refs' = [refs EXCEPT ![c] = 0]
                 /\ st' = [st EXCEPT ![c] = "free"]
                 /\ id' = [id EXCEPT ![c] = NoId]
                 /\ want' = [want EXCEPT ![c] = "none"]
                 /\ edge' = [edge EXCEPT ![c] = {}]
                 /\ resp' = [resp EXCEPT ![c] = NoId]
                 /\ left' = [left EXCEPT ![c] = 0]
                 /\ UNCHANGED batch

(* ... and the event loop's reference dropped.                              *)
DropLoopRef(t) == LET c == pc[t].conn
                  IN /\ At(t, "closed")
                     /\ Unref(c)
                     /\ IF t = "http" THEN Goto(t, "loop", NoConn, NoId)
                        ELSE Goto(t, "unref", c, pc[t].id)
                     /\ UNCHANGED <<pending, world>>

-----------------------------------------------------------------------------
(* The main thread handles an http_response: http_server_complete_request   *)
(* looks the id up ...  (Mutant: the lookup takes any entry.)               *)
FoundAny(i) == DOMAIN pending
Found(i) == {n \in DOMAIN pending : pending[n].id = i}

Reply(i) == /\ At("main", "loop")
            /\ owed[i] > 0
            /\ owed' = [owed EXCEPT ![i] = @ - 1]
            /\ IF Found(i) = {}
               THEN UNCHANGED <<pending, pc>>
               ELSE \E n \in Found(i) :
                      /\ pending' = Without(n)
                      /\ Goto("main", "copy", pending[n].conn, i)
            /\ UNCHANGED <<conns, peer, sent, heard, freed>>

(* ... copies the response struct, whose body stays the caller's, ...       *)
Copy == LET c == pc["main"].conn
            i == pc["main"].id
        IN /\ At("main", "copy")
           /\ IF st[c] # "processing"
              THEN Goto("main", "unref", c, i) /\ UNCHANGED resp
              ELSE Goto("main", "arm", c, i) /\ resp' = [resp EXCEPT ![c] = i]
           /\ UNCHANGED <<st, id, refs, want, edge, batch, left, pending, world>>

(* ... serialises it and switches the socket to writing, or closes the      *)
(* connection, whatever the HTTP thread is doing with it, ...               *)
Arm == LET c == pc["main"].conn
           i == pc["main"].id
       IN /\ At("main", "arm")
          /\ \E fits \in Fits :
               IF fits THEN Respond(c) /\ Goto("main", "unref", c, i)
               ELSE Goto("main", "close", c, i) /\ UNCHANGED <<st, want, edge, left>>
          /\ UNCHANGED <<id, refs, batch, resp, pending, world>>

(* ... drops the table's reference, and cmd_http_response_handler frees the *)
(* body.                                                                    *)
DropAsyncRef == /\ At("main", "unref")
                /\ Unref(pc["main"].conn)
                /\ Freed(pc["main"].id)
                /\ Goto("main", "loop", NoConn, NoId)
                /\ UNCHANGED <<pending, peer, sent, heard, owed>>

HttpThread == \/ Fetch \/ Park \/ Close("http") \/ DropLoopRef("http")
              \/ \E c \in Conns : \/ Hup(c) \/ ReadOn(c) \/ AnswerNow(c)
                                  \/ AnswerTooLong(c) \/ Forward(c) \/ Write(c)
Completion == \/ Copy \/ Arm \/ Close("main") \/ DropLoopRef("main")
              \/ DropAsyncRef

Next == \/ \E i \in Ids : \/ Send(i) \/ Leave(i) \/ Reset(i) \/ Drain(i)
                          \/ Accept(i) \/ Reply(i)
        \/ HttpThread
        \/ Completion

(* Both threads keep running, and a client that is there reads what it is   *)
(* sent.  No client has to send anything, and no plugin to answer.          *)
Fairness == /\ WF_vars(HttpThread) /\ WF_vars(Completion)
            /\ \A i \in Ids : WF_vars(Drain(i))

Spec == Init /\ [][Next]_vars
FairSpec == Spec /\ Fairness

-----------------------------------------------------------------------------
(* Types: of a connection's fields, of the pending table and the threads,   *)
(* of the world outside.                                                    *)
ConnTypes ==
  /\ st \in [Conns -> {"free", "reading", "processing", "writing"}]
  /\ id \in [Conns -> Ids \cup {NoId}]
  /\ refs \in [Conns -> 0 .. 2]
  /\ want \in [Conns -> {"none", "in", "out"}]
  /\ edge \in [Conns -> SUBSET {"in", "out", "hup"}]
  /\ batch \in [Conns -> SUBSET {"in", "out", "hup"}]
  /\ resp \in [Conns -> Ids \cup {NoId, Core}]
  /\ left \in [Conns -> 0 .. Pieces]

TableTypes == pending \in Seq([id : Ids, conn : Conns]) /\ Len(pending) <= MaxPending

Places == {"loop", "park", "close", "closed", "copy", "arm", "unref"}
ThreadTypes == pc \in [{"http", "main"} -> [at : Places, conn : Conns \cup {NoConn},
                                            id : Ids \cup {NoId}]]

WorldTypes ==
  /\ peer \in [Ids -> {"new", "here", "left", "reset", "refused"}]
  /\ sent \in [Ids -> 0 .. Pieces + 1]
  /\ heard \in [Ids -> Ids \cup {NoId, Core}]
  /\ owed \in [Ids -> 0 .. MaxReplies]
  /\ freed \subseteq Ids

(* The pending table never outgrows its array (line 600).                   *)
TypeOK == ConnTypes /\ TableTypes /\ ThreadTypes /\ WorldTypes

(* Who may touch slot c: the event loop as long as it has an event of it to *)
(* handle or epoll may report one; the table; and the main thread between   *)
(* finding the entry and conn_unref.                                        *)
LoopHas(c) == Watched(c) \/ batch[c] # {} \/ pc["http"].conn = c
TableHas(c) == Entries(c) # {}
MainHas(c) == pc["main"].conn = c

Count(b) == IF b THEN 1 ELSE 0

(* "Reference counting for async safety" (line 68): a slot has at least as  *)
(* many references as holders, so neither thread ever touches a slot that   *)
(* is back in the pool, and conn_unref never finds 0.                       *)
RefsCoverHolders == \A c \in Conns :
  /\ refs[c] >= Count(LoopHas(c)) + Count(TableHas(c)) + Count(MainHas(c))
  /\ Used(c) <=> refs[c] > 0

(* An entry of the pending table is the connection's only one, carries its  *)
(* id, and stands for an open connection that waits (lines 233-246 and      *)
(* 716-724, against the reuse of slots).                                    *)
PendingIsOwn == \A n \in DOMAIN pending :
  /\ id[pending[n].conn] = pending[n].id
  /\ st[pending[n].conn] = "processing" /\ Watched(pending[n].conn)
  /\ ~MainHas(pending[n].conn)
  /\ \A m \in DOMAIN pending : pending[m].conn = pending[n].conn => m = n

(* A client hears the reply to its own request, however slots are reused    *)
(* while the main thread is inside complete_request.                        *)
RightClient == \A i \in Ids : heard[i] \in {NoId, Core, i}

(* A response that is ready reaches the client, unless the client goes away *)
(* (lines 265-289 and 687-707: no edge of an edge-triggered socket is lost).*)
Ready(i) == \E c \in Conns : id[c] = i /\ st[c] = "writing" /\ Watched(c)
AnswerDelivered ==
  \A i \in Ids : Ready(i) ~> (heard[i] # NoId \/ peer[i] # "here")

(* A connection that was reset leaves the event loop, whatever state it is  *)
(* in and whichever thread is using it (lines 392-395).                     *)
ResetIsNoticed ==
  \A i \in Ids : peer[i] = "reset" ~> \A c \in Conns : id[c] = i => ~Watched(c)

-----------------------------------------------------------------------------
(* http_server.h:139: complete_request returns "0 on success, -1 if request *)
(* not found": the first reply to a request whose connection is open and    *)
(* waiting for it is found.                                                 *)
Waiting(i) == \E c \in Conns : id[c] = i /\ st[c] = "processing" /\ Watched(c)
FirstReplyIsFound ==
  [][\A i \in Ids : Waiting(i) /\ owed[i] = MaxReplies /\ owed'[i] < owed[i] =>
                      pc'["main"].id = i]_vars

(* http_server.h:89: "maximum concurrent connections": a client is turned   *)
(* away only while every slot is somebody's connection.                     *)
RefusedOnlyWhenFull ==
  [][\A i \in Ids : peer[i] = "new" /\ peer'[i] = "refused" =>
                      \A c \in Conns : LoopHas(c) \/ TableHas(c) \/ MainHas(c)]_vars

(* http_server.c:262: "Copy response": the copy a connection keeps does not *)
(* depend on the caller's, which cmd_http_response_handler then destroys.   *)
CopyOutlivesOriginal == \A c \in Conns : resp[c] \notin freed
=============================================================================
