-------------------------------- MODULE Broker --------------------------------
(***************************************************************************)
(* server.c, core/ipc.c and the register and hello handlers of             *)
(* core/ipc_handlers.c: the plugins' connections and the endpoint          *)
(* registry, owned by the main thread and read by the HTTP thread, which   *)
(* routes requests by them.                                                *)
(*                                                                         *)
(* conn_lock needs no variable: the main thread holds it from the sweep of *)
(* the registry to the end of disconnect_client, everybody else for one    *)
(* step.  Plugins send hello and registrations; the other commands touch   *)
(* neither connections nor registry and are left out, as are replies.      *)
(* sdk_ipc_send makes two writes of a line: its text and the newline.  A   *)
(* read returns all there is.                                              *)
(***************************************************************************)
EXTENDS Integers, Sequences, FiniteSets

CONSTANTS
  Procs,       (* <<p, n>>: the n-th process of plugin p; each connects once *)
  Endpoints,   (* a method and a path                                      *)
  MaxConns,    (* MAX_PLUGIN_CONNECTIONS, 32 in the code                   *)
  MaxEntries,  (* entries of the registry, 32 in the code                  *)
  MaxLines,    (* bound: lines each process sends                          *)
  Overlap      (* whether a plugin may have two processes at a time        *)

Plugins == {i[1] : i \in Procs}
NoName == "none"                  (* conn->plugin_id is NULL                 *)
Lines == Endpoints \cup {"hello"} (* an endpoint: its registration         *)
Newline == "newline"

ASSUME BrokerAssumption == /\ Procs \subseteq Plugins \X (Nat \ {0})
                           /\ NoName \notin Plugins
                           /\ Endpoints \cap {"hello", Newline} = {}
                           /\ MaxConns \in Nat \ {0} /\ MaxEntries \in Nat
                           /\ MaxLines \in [Procs -> Nat] /\ Overlap \in BOOLEAN

VARIABLES
  plug,     (* process: not started, connected, between two writes, ended  *)
  said,     (* how many lines a running process has sent                   *)
  wire,     (* written by the process and not yet read                     *)
  backlog,  (* connections waiting at the listener                         *)
  conn,     (* ipc_conn: not yet there, in ctx->conns, destroyed           *)
  name,     (* conn->plugin_id                                             *)
  buf,      (* conn->read_buf                                              *)
  registry, (* entries 1 to registry_count; `of` is history: whose         *)
            (* registration an entry records, and its how manieth          *)
  batch,    (* the connections' events of the last epoll_wait, unhandled   *)
  listen,   (* and the listener's                                          *)
  main,     (* in the loop, or sweeping the registry for a connection      *)
  http,     (* idle, or between finding a target and sending to it         *)
  taken     (* history: the endpoints recorded for a process, in order     *)

peer == <<plug, said, wire>>
core == <<conn, name, buf, registry, taken>>
vars == <<peer, backlog, core, batch, listen, main, http>>

Open(i) == conn[i] = "open"
Entry(i, e) == [plugin |-> name[i], endpoint |-> e, of |-> <<i, Len(taken[i]) + 1>>]
Sweeping(i) == main.at = "sweep" /\ main.conn = i
InLoop == [at |-> "loop", conn |-> <<>>, k |-> 0]
Unheld == main.at = "loop"       (* conn_lock can be taken                  *)
IdleHttp == [at |-> "idle", conn |-> <<>>, endpoint |-> Newline]

Init == /\ plug = [i \in Procs |-> "new"]
        /\ said = [i \in Procs |-> 0]
        /\ wire = [i \in Procs |-> <<>>]
        /\ backlog = <<>>
        /\ conn = [i \in Procs |-> "none"]
        /\ name = [i \in Procs |-> NoName]
        /\ buf = [i \in Procs |-> <<>>]
        /\ registry = <<>>
        /\ batch = [i \in Procs |-> "none"] /\ listen = FALSE
        /\ main = InLoop /\ http = IdleHttp
        /\ taken = [i \in Procs |-> <<>>]

-----------------------------------------------------------------------------
(* The plugins.  A process connects (sdk_ipc_connect), says hello, then     *)
(* registers what it likes, an endpoint several times too, and ends at any  *)
(* time, as processes do; a write to a connection that the core has closed  *)
(* fails, and its next read ends it.                                        *)
Earlier(i) == {j \in Procs : j[1] = i[1] /\ j[2] < i[2]}

Connect(i) == /\ plug[i] = "new"
              /\ \A j \in Earlier(i) : plug[j] = "gone" \/ (Overlap /\ plug[j] # "new")
              /\ plug' = [plug EXCEPT ![i] = "up"]
              /\ backlog' = Append(backlog, i)
              /\ UNCHANGED <<said, wire, core, batch, listen, main, http>>

Write(i, l) == /\ plug[i] = "up" /\ conn[i] # "destroyed"
               /\ said[i] < MaxLines[i] /\ (said[i] = 0 <=> l = "hello")
               /\ said' = [said EXCEPT ![i] = @ + 1]
               /\ wire' = [wire EXCEPT ![i] = Append(@, l)]
               /\ plug' = [plug EXCEPT ![i] = "half"]
               /\ UNCHANGED <<backlog, core, batch, listen, main, http>>

EndLine(i) == /\ plug[i] = "half" /\ conn[i] # "destroyed"
              /\ wire' = [wire EXCEPT ![i] = Append(@, Newline)]
              /\ plug' = [plug EXCEPT ![i] = "up"]
              /\ UNCHANGED <<said, backlog, core, batch, listen, main, http>>

End(i) == /\ plug[i] \in {"up", "half"}
          /\ plug' = [plug EXCEPT ![i] = "gone"]
          /\ said' = [said EXCEPT ![i] = 0]
          /\ UNCHANGED <<wire, backlog, core, batch, listen, main, http>>

-----------------------------------------------------------------------------
(* The main thread.  epoll_wait: 64 events are more than 32 connections,    *)
(* the listener and the signalfd, so one call returns all there are.        *)
Event(i) == IF ~Open(i) THEN "none"
            ELSE IF plug[i] = "gone" THEN "hup"
            ELSE IF wire[i] # <<>> THEN "in" ELSE "none"
Events == [i \in Procs |-> Event(i)]

Idle == main.at = "loop" /\ ~listen /\ \A i \in Procs : batch[i] = "none"

(* Mutant: an events array of one.                                          *)
FetchOne == /\ Idle
            /\ \/ \E i \in Procs : /\ Event(i) # "none"
                                   /\ batch' = [batch EXCEPT ![i] = Event(i)]
                                   /\ UNCHANGED listen
               \/ backlog # <<>> /\ listen' = TRUE /\ UNCHANGED batch
            /\ UNCHANGED <<peer, backlog, core, main, http>>

Fetch == /\ Idle
         /\ backlog # <<>> \/ \E i \in Procs : Event(i) # "none"
         /\ batch' = Events
         /\ listen' = (backlog # <<>>)
         /\ UNCHANGED <<peer, backlog, core, main, http>>

(* handle_new_connection                                                    *)
Accept == /\ main.at = "loop" /\ listen
          /\ listen' = FALSE
          /\ backlog' = Tail(backlog)
          /\ conn' = [conn EXCEPT ![Head(backlog)] =
                        IF Cardinality({i \in Procs : Open(i)}) < MaxConns
                        THEN "open" ELSE "destroyed"]
          /\ UNCHANGED <<peer, name, buf, registry, taken, batch, main, http>>

(* ipc_conn_recv: a line that is in the buffer already, else all that the   *)
(* socket has.                                                              *)
HasLine(s) == \E n \in DOMAIN s : s[n] = Newline
Buffered(i) == IF HasLine(buf[i]) THEN buf[i] ELSE buf[i] \o wire[i]
Unread(i) == IF HasLine(buf[i]) THEN wire[i] ELSE <<>>
EndsLine(s, n) == s[n] = Newline /\ \A m \in 1 .. n - 1 : s[m] # Newline

(* cmd_hello_handler, cmd_register_endpoint_handler                         *)
Hello(i) == /\ name' = [name EXCEPT ![i] = i[1]]
            /\ UNCHANGED <<registry, taken>>

(* Mutant: a registry without an end.                                       *)
RegisterAlways(i, e) ==
  /\ registry' = Append(registry, Entry(i, e))
  /\ taken' = [taken EXCEPT ![i] = Append(@, e)]
  /\ UNCHANGED name

Register(i, e) ==
  /\ IF name[i] # NoName /\ Len(registry) < MaxEntries
     THEN /\ registry' = Append(registry, Entry(i, e))
          /\ taken' = [taken EXCEPT ![i] = Append(@, e)]
     ELSE UNCHANGED <<registry, taken>>
  /\ UNCHANGED name

Command(i, l) == \/ l = "hello" /\ Hello(i)
                 \/ l \in Endpoints /\ Register(i, l)

(* handle_client_event.  A line is handled; anything else that recv reports *)
(* ends the connection, -EAGAIN too; so does EPOLLHUP, before any read.     *)
Handle(i) ==
  /\ main.at = "loop" /\ batch[i] = "in"
  /\ batch' = [batch EXCEPT ![i] = "none"]
  /\ \E n \in DOMAIN Buffered(i) :
       /\ EndsLine(Buffered(i), n)
       /\ Command(i, Buffered(i)[1])
       /\ buf' = [buf EXCEPT ![i] = SubSeq(Buffered(i), n + 1, Len(Buffered(i)))]
  /\ wire' = [wire EXCEPT ![i] = Unread(i)]
  /\ UNCHANGED <<plug, said, backlog, conn, listen, main, http>>

Disconnect(i) ==
  /\ main.at = "loop"
  /\ batch[i] = "hup" \/ (batch[i] = "in" /\ ~HasLine(Buffered(i)))
  /\ batch' = [batch EXCEPT ![i] = "none"]
  /\ main' = [at |-> "sweep", conn |-> i, k |-> 1]
  /\ UNCHANGED <<peer, backlog, core, listen, http>>

(* disconnect_client: the loop over the registry, one round a step ...      *)
Swept == name[main.conn] = NoName \/ main.k > Len(registry)
WithoutEntry(k) == [j \in 1 .. Len(registry) - 1 |->
                      IF j = k THEN registry[Len(registry)] ELSE registry[j]]

(* Mutant: the entry moved into the gap is not looked at (no k--).          *)
SweepOn ==
  /\ main.at = "sweep" /\ ~Swept
  /\ registry' = IF registry[main.k].plugin = name[main.conn]
                 THEN WithoutEntry(main.k) ELSE registry
  /\ main' = [main EXCEPT !.k = @ + 1]
  /\ UNCHANGED <<peer, backlog, conn, name, buf, taken, batch, listen, http>>

(* Mutant: disconnect_client as it was, without the loop.                   *)
SweepNothing ==
  /\ main.at = "sweep" /\ ~Swept
  /\ main' = [main EXCEPT !.k = Len(registry) + 1]
  /\ UNCHANGED <<peer, backlog, core, batch, listen, http>>

Sweep ==
  /\ main.at = "sweep" /\ ~Swept
  /\ IF registry[main.k].plugin = name[main.conn]
     THEN registry' = WithoutEntry(main.k) /\ UNCHANGED main
     ELSE main' = [main EXCEPT !.k = @ + 1] /\ UNCHANGED registry
  /\ UNCHANGED <<peer, backlog, conn, name, buf, taken, batch, listen, http>>

(* ... and the connection itself (ipc_conn_destroy).                        *)
Release(i) == /\ name' = [name EXCEPT ![i] = NoName]
              /\ buf' = [buf EXCEPT ![i] = <<>>]
              /\ wire' = [wire EXCEPT ![i] = <<>>]

Destroy ==
  /\ main.at = "sweep" /\ Swept
  /\ main' = InLoop
  /\ conn' = [conn EXCEPT ![main.conn] = "destroyed"]
  /\ Release(main.conn)
  /\ UNCHANGED <<plug, said, backlog, registry, taken, batch, listen, http>>

MainStep == \/ Fetch \/ Accept \/ Sweep \/ Destroy
            \/ \E i \in Procs : Handle(i) \/ Disconnect(i)

-----------------------------------------------------------------------------
(* Mutant: any entry of a connected plugin will do.                         *)
RoutesAny(e) == {k \in DOMAIN registry :
                  \E i \in Procs : Open(i) /\ name[i] = registry[k].plugin}

(* The HTTP thread, http_async_handler: the first entry for the endpoint    *)
(* whose plugin has a connection, and, after conn_lock was released, the    *)
(* request; in between the connection may be destroyed.  Without a target   *)
(* it answers 404, which changes nothing here.                              *)
Routes(e) == {k \in DOMAIN registry :
                /\ registry[k].endpoint = e
                /\ \E i \in Procs : Open(i) /\ name[i] = registry[k].plugin}

Route(e) == /\ http.at = "idle" /\ Unheld
            /\ \E k \in Routes(e), i \in Procs :
                 /\ \A j \in Routes(e) : k <= j
                 /\ Open(i) /\ name[i] = registry[k].plugin
                 /\ http' = [at |-> "send", conn |-> i, endpoint |-> e]
            /\ UNCHANGED <<peer, backlog, core, batch, listen, main>>

SendRequest == /\ http.at = "send" /\ Unheld
               /\ http' = IdleHttp
               /\ UNCHANGED <<peer, backlog, core, batch, listen, main>>

Next == \/ MainStep \/ SendRequest
        \/ \E e \in Endpoints : Route(e)
        \/ \E i \in Procs : Connect(i) \/ EndLine(i) \/ End(i)
        \/ \E i \in Procs, l \in Lines : Write(i, l)

Spec == Init /\ [][Next]_vars

-----------------------------------------------------------------------------
PeerTypes ==
  /\ plug \in [Procs -> {"new", "up", "half", "gone"}]
  /\ said \in [Procs -> Nat] /\ \A i \in Procs : said[i] <= MaxLines[i]
  /\ wire \in [Procs -> Seq(Lines \cup {Newline})]

ConnTypes ==
  /\ backlog \in Seq(Procs)
  /\ conn \in [Procs -> {"none", "open", "destroyed"}]
  /\ name \in [Procs -> Plugins \cup {NoName}]
  /\ buf \in [Procs -> Seq(Lines \cup {Newline})]
  /\ taken \in [Procs -> Seq(Endpoints)]

RegistryTypes ==
  /\ registry \in Seq([plugin : Plugins, endpoint : Endpoints, of : Procs \X Nat])
  /\ Len(registry) <= MaxEntries

ThreadTypes ==
  /\ batch \in [Procs -> {"none", "in", "hup"}] /\ listen \in BOOLEAN
  /\ main \in {InLoop} \cup [at : {"sweep"}, conn : Procs, k : 1 .. MaxEntries + 1]
  /\ http \in {IdleHttp} \cup [at : {"send"}, conn : Procs, endpoint : Endpoints]

TypeOK == PeerTypes /\ ConnTypes /\ RegistryTypes /\ ThreadTypes

(* Every entry of the registry names a plugin that has a connection: what   *)
(* a plugin registered goes with its connection, whatever the swap of the   *)
(* last entry into the gap does to the order (disconnect_client).           *)
EntriesAreConnected ==
  \A k \in DOMAIN registry : \E i \in Procs : Open(i) /\ name[i] = registry[k].plugin

(* With one process of a plugin at a time, what a connected process has     *)
(* registered stays registered: the disconnect of its predecessor, which    *)
(* removes everything under the plugin's name, comes before its own hello,  *)
(* because an epoll_wait that has one of the two events has both.           *)
Listing(i, n) == [plugin |-> name[i], endpoint |-> taken[i][n], of |-> <<i, n>>]

StaysRegistered ==
  \A i \in Procs : Open(i) /\ ~Sweeping(i) =>
    \A n \in DOMAIN taken[i] : \E k \in DOMAIN registry : registry[k] = Listing(i, n)

(* ... and each registration is listed once, and nothing else under a       *)
(* connected process's name: what a predecessor registered is gone by the   *)
(* hello, so that restarts leave nothing behind that fills the registry.    *)
(* (A process that registers an endpoint twice has two entries for it:      *)
(* neither sdk/api.c:59-79 nor ipc_handlers.c:244-260 looks for the first.) *)
ListedOnce ==
  \A k \in DOMAIN registry :
    /\ \A j \in DOMAIN registry : registry[j].of = registry[k].of => j = k
    /\ \A i \in Procs : name[i] = registry[k].plugin => registry[k].of[1] = i

(* The HTTP thread sends a request to a process that itself registered the  *)
(* endpoint, never to a successor that has not yet done so.                 *)
TargetRegistered == http.at = "send" =>
  \E n \in DOMAIN taken[http.conn] : taken[http.conn][n] = http.endpoint

(* A target is not destroyed while the HTTP thread holds it                 *)
(* (ARCHITECTURE_REVIEW.md:37: the destroy pattern "prevents use-after-free *)
(* by NULLing caller's pointer"; here another thread has a copy).           *)
TargetIsAlive == http.at = "send" => Open(http.conn)
=============================================================================
