------------------------------- MODULE Channel -------------------------------
(***************************************************************************)
(* The connection of one plugin, both of its ends: ipc_conn of core/ipc.c  *)
(* with the events and commands that drive it (server.c, ipc_handlers.c),  *)
(* and the SDK in the plugin (sdk/ipc.c, lifecycle.c, requests).           *)
(*                                                                         *)
(* A byte stream is a sequence of texts and newlines.  The text of the     *)
(* SDK's i-th line is i, and so are the pieces of the text of the reply to *)
(* it; requests of HTTP clients are numbered above.  The two threads of    *)
(* the core take turns to send.                                            *)
(***************************************************************************)
EXTENDS Naturals, Sequences

CONSTANTS MaxLines,   (* bound: lines the SDK sends                        *)
          MaxPushes,  (* bound: requests forwarded to the plugin           *)
          Lengths,    (* of the answers to query_range, in pieces          *)
          Room,       (* pieces that fit into a socket                     *)
          Space,      (* SDK_IPC_BUFFER_SIZE                               *)
          Short       (* the buffer of a request that expects little       *)

ASSUME ChannelAssumption == /\ MaxLines \in Nat \ {0} /\ MaxPushes \in Nat
                            /\ Lengths \subseteq Nat \ {0}
                            /\ Room \in Nat \ {0} /\ Space \in Nat
                            /\ Short \in 1 .. Space

VARIABLES
  link,      (* "open"; "left" by the plugin; "closed" by the core         *)
  up, down,  (* in the sockets, to the core and to the plugin              *)
  read_buf, out_buf, out_pos, armed,  (* ipc_conn; EPOLLOUT is asked for   *)
  ipc_buf,   (* plugin_ctx: what lies between ipc_rpos and ipc_wpos        *)
  mode,      (* of the SDK: "setup" (before sdk_eventloop_run) or "loop"   *)
  doing,     (* "idle", "newline" (in sdk_ipc_send), "ask", "poll" (in     *)
             (* sdk_ipc_recv) or "gone"                                    *)
  owes,      (* it is in the handler of an endpoint                        *)
  lines,     (* history: the commands of the lines it has sent             *)
  written, handled,  (* history: the stream to the core, and its lines     *)
  queued, taken,     (* history: the stream to the plugin, and its lines   *)
  answer     (* history: the last line a request was answered with         *)

inbound == <<up, read_buf, written, handled>>
outbound == <<down, out_buf, out_pos, queued>>
sdk == <<mode, doing, owes, lines>>
received == <<ipc_buf, taken, answer>>
vars == <<link, inbound, outbound, armed, sdk, received>>

Newline == 0
Texts == 1 .. MaxLines + MaxPushes
Pieces == Texts \cup {Newline}

Tells == {"register_endpoint", "report"}
Asks == {"config", "query_range", "device_setpoint", "state_load", "unparsable"}
Commands == Tells \cup Asks \cup {"hello", "http_response"}

Init == /\ link = "open" /\ up = <<>> /\ down = <<>>
        /\ read_buf = <<>> /\ out_buf = <<>> /\ out_pos = 0 /\ armed = FALSE
        /\ ipc_buf = <<>> /\ mode = "setup" /\ doing = "idle" /\ owes = FALSE
        /\ lines = <<>> /\ written = <<>> /\ handled = <<>>
        /\ queued = <<>> /\ taken = <<>>
        /\ answer = [to |-> Newline, line |-> <<>>]

HasLine(s) == \E n \in DOMAIN s : s[n] = Newline
EndsLine(s, n) == s[n] = Newline /\ \A m \in 1 .. n - 1 : s[m] # Newline
After(s, n) == SubSeq(s, n + 1, Len(s))

-----------------------------------------------------------------------------
(* The SDK.  sdk_ipc_send: the text, then the newline.  The first line is   *)
(* the hello of sdk_ipc_connect.  A write to a closed connection fails      *)
(* (SIGPIPE is blocked) and nothing comes of it.                            *)
Current == Len(lines)
Write(piece) == up' = Append(up, piece) /\ written' = Append(written, piece)

SendText(c) == /\ doing = "idle" /\ link = "open" /\ Len(lines) < MaxLines
               /\ (lines = <<>>) <=> (c = "hello")
               /\ lines' = Append(lines, c)
               /\ Write(Len(lines) + 1)
               /\ doing' = "newline"
               /\ UNCHANGED <<link, read_buf, handled, outbound, armed, mode, received>>

Send(c) == SendText(c) /\ c \in Tells \cup Asks \cup {"hello"} /\ UNCHANGED owes

(* The answer to an http_request ends the handler.                          *)
Respond ==
  /\ owes /\ owes' = FALSE
  /\ \/ SendText("http_response")
     \/ /\ doing = "idle" /\ link # "open"
        /\ UNCHANGED <<link, inbound, outbound, armed, mode, doing, lines, received>>

SendNewline == /\ doing = "newline"
               /\ IF link = "open" THEN Write(Newline) ELSE UNCHANGED <<up, written>>
               /\ doing' = IF lines[Current] \in Asks THEN "ask" ELSE "idle"
               /\ UNCHANGED <<link, read_buf, handled, outbound, armed, mode, owes,
                              lines, received>>

(* sdk_ipc_recv: a line that is in the buffer, whatever it is; else what    *)
(* the socket has, or the end of the connection.  How much one read takes   *)
(* depends on where in ipc_buf the lines before it ended.  What the         *)
(* caller's buffer has no room for stays, less one piece; a line that fills *)
(* ipc_buf is thrown away as far as it came.                                *)
Reading == doing \in {"ask", "poll"}
Limit == IF doing = "ask" /\ lines[Current] # "query_range" THEN Short ELSE Space

Got(line, n) ==
  /\ taken' = taken \o SubSeq(ipc_buf, 1, n)
  /\ ipc_buf' = After(ipc_buf, n)
  /\ IF doing = "ask"
     THEN answer' = [to |-> Current, line |-> line] /\ UNCHANGED owes
     ELSE owes' = (line # <<>> /\ line[1] > MaxLines) /\ UNCHANGED answer

TakeLine ==
  /\ Reading
  /\ \E n \in DOMAIN ipc_buf :
       /\ EndsLine(ipc_buf, n)
       /\ IF n <= Limit THEN Got(SubSeq(ipc_buf, 1, n - 1), n)
          ELSE Got(SubSeq(ipc_buf, 1, Limit - 1), Limit)
  /\ doing' = "idle"
  /\ UNCHANGED <<link, inbound, outbound, armed, mode, lines>>

Failed == doing' = IF doing = "ask" THEN "idle" ELSE "gone"

TooLong == /\ Reading /\ ~HasLine(ipc_buf) /\ Len(ipc_buf) = Space
           /\ Failed
           /\ taken' = taken \o ipc_buf /\ ipc_buf' = <<>>
           /\ UNCHANGED <<link, inbound, outbound, armed, mode, owes, lines, answer>>

ReadSocket == /\ Reading /\ ~HasLine(ipc_buf) /\ Len(ipc_buf) < Space
              /\ \E n \in DOMAIN down :
                   /\ Len(ipc_buf) + n <= Space
                   /\ ipc_buf' = ipc_buf \o SubSeq(down, 1, n)
                   /\ down' = After(down, n)
              /\ UNCHANGED <<link, inbound, out_buf, out_pos, queued, armed, sdk,
                             taken, answer>>

(* A request fails; the event loop stops.                                   *)
EndOfFile == /\ Reading /\ ~HasLine(ipc_buf) /\ Len(ipc_buf) < Space
             /\ down = <<>> /\ link = "closed"
             /\ Failed
             /\ UNCHANGED <<link, inbound, outbound, armed, mode, owes, lines, received>>

(* sdk_run: after the setup and the backfill, the event loop.  poll looks   *)
(* at the socket only.                                                      *)
EnterLoop == /\ mode = "setup" /\ doing = "idle" /\ lines # <<>>
             /\ mode' = "loop"
             /\ UNCHANGED <<link, inbound, outbound, armed, doing, owes, lines, received>>

Poll == /\ mode = "loop" /\ doing = "idle" /\ ~owes
        /\ down # <<>> \/ link = "closed"
        /\ doing' = "poll"
        /\ UNCHANGED <<link, inbound, outbound, armed, mode, owes, lines, received>>

(* The plugin ends, or is killed.                                           *)
Leave == /\ doing # "gone" /\ doing' = "gone"
         /\ link' = IF link = "open" THEN "left" ELSE link
         /\ UNCHANGED <<inbound, outbound, armed, mode, owes, lines, received>>

-----------------------------------------------------------------------------
(* ipc_conn_send appends a newline to the text; most handlers have put one  *)
(* there already, and query_range sends one of its own.                     *)
Message(text) == Append(text, Newline)
Result(i, n) == Message([k \in 1 .. n |-> i]) \o Message(<<Newline>>)

(* device_setpoint has a reply of one line, unless the plugin's id is none  *)
(* of the plugin manager's, which is left open: then it has none.           *)
SetpointReplies(i) == {Message(<<i, Newline>>), <<>>}


(* What a command puts into out_buf.  "config" stands for the other         *)
(* commands with a reply of one line; no handler knows state_save and       *)
(* state_load.                                                              *)
Replies(c, i) ==
  CASE c = "config" -> {Message(<<i, Newline>>)}
    [] c = "query_range" -> {Result(i, n) : n \in Lengths}
                              \cup {Message(<<i, Newline>>)}
    [] c = "device_setpoint" -> SetpointReplies(i)
    [] OTHER -> {<<>>}

(* write: all of it, if there is room, or a part.                           *)
Accepted(out) ==
  LET most == {n \in 0 .. Len(out) - out_pos : n <= Room - Len(down)}
  IN IF most = {0} THEN most ELSE most \ {0}
Give(out, n) == down' = down \o SubSeq(out, out_pos + 1, out_pos + n)

(* Mutants of ipc_conn_flush: the buffer is cleared when a part is sent;    *)
(* out_pos is not reset.                                                    *)
FlushAndClear(out) == \E n \in Accepted(out) : Give(out, n) /\ out_buf' = <<>> /\ out_pos' = 0

FlushNoReset(out) ==
  \E n \in Accepted(out) :
    /\ Give(out, n) /\ out_pos' = out_pos + n
    /\ out_buf' = IF out_pos' = Len(out) THEN <<>> ELSE out

(* ipc_conn_flush                                                           *)
Flush(out) ==
  \E n \in Accepted(out) :
    /\ Give(out, n)
    /\ IF out_pos + n = Len(out) THEN out_buf' = <<>> /\ out_pos' = 0
       ELSE out_buf' = out /\ out_pos' = out_pos + n

HasPending(out, pos) == Len(out) > pos

(* process_incoming_json, handle_ipc_command: nothing for an empty line,    *)
(* and nothing for one that does not parse (the SDK prints a key into a     *)
(* line of limited length, quotes and all, and a number that may be NaN).   *)
Handle(piece) == IF piece = Newline \/ lines[piece] = "unparsable" THEN {<<>>}
                 ELSE Replies(lines[piece], piece)

-----------------------------------------------------------------------------
(* The main thread, handle_client_event, EPOLLOUT                           *)
Writable == /\ link = "open" /\ armed /\ Len(down) < Room
            /\ Flush(out_buf)
            /\ armed' = HasPending(out_buf', out_pos')
            /\ UNCHANGED <<link, inbound, queued, sdk, received>>

(* Mutants: what was read after the line is dropped; EPOLLOUT is not asked  *)
(* for.                                                                     *)
ConsumeAll(s, n) == <<>>
ArmNever == armed' = armed

(* ipc_conn_recv keeps what comes after the line ...                        *)
Consume(s, n) == After(s, n)

(* ... and handle_client_event looks at the output after the command.       *)
Arm == armed' = (armed \/ HasPending(out_buf', out_pos'))

(* EPOLLIN: ipc_conn_recv gives one line, from the buffer if it has one;    *)
(* read stops at 4096 bytes.  What else is in the buffer stays there.       *)
Readable ==
  /\ link = "open" /\ up # <<>>
  /\ \E k \in 0 .. Len(up) :
       LET s == read_buf \o SubSeq(up, 1, k) IN
       /\ HasLine(read_buf) => k = 0
       /\ \E n \in DOMAIN s :
            /\ EndsLine(s, n)
            /\ read_buf' = Consume(s, n)
            /\ handled' = handled \o SubSeq(s, 1, n)
            /\ \E reply \in Handle(s[1]) :
                 /\ queued' = queued \o reply
                 /\ IF reply = <<>> THEN UNCHANGED <<down, out_buf, out_pos>>
                    ELSE Flush(out_buf \o reply)
       /\ up' = After(up, k)
  /\ Arm
  /\ UNCHANGED <<link, written, sdk, received>>

(* disconnect_client: EPOLLHUP comes before anything else; a read that ends *)
(* inside a line is an error too.                                           *)
Disconnect == /\ \/ link = "left"
                 \/ link = "open" /\ up # <<>> /\ ~HasLine(read_buf \o up)
              /\ link' = "closed"
              /\ up' = <<>> /\ read_buf' = <<>>
              /\ out_buf' = <<>> /\ out_pos' = 0 /\ armed' = FALSE
              /\ UNCHANGED <<written, handled, down, queued, sdk, received>>

-----------------------------------------------------------------------------
(* The HTTP thread, http_async_handler, for an endpoint the plugin has      *)
(* registered: it does not ask for EPOLLOUT.                                *)
Pushes == {p \in Texts : p > MaxLines}
IsIn(p, s) == \E n \in DOMAIN s : s[n] = p
Registered == \E n \in DOMAIN handled :
                handled[n] # Newline /\ lines[handled[n]] = "register_endpoint"

Forward(p) == /\ link = "open" /\ Registered /\ ~IsIn(p, queued)
              /\ queued' = queued \o Message(<<p>>)
              /\ Flush(out_buf \o Message(<<p>>))
              /\ UNCHANGED <<link, inbound, armed, sdk, received>>

-----------------------------------------------------------------------------
Receive == TakeLine \/ TooLong \/ ReadSocket \/ EndOfFile
Plugin == \/ \E c \in Commands : Send(c)
          \/ Respond \/ SendNewline \/ Receive \/ EnterLoop \/ Poll \/ Leave
Core == Writable \/ Readable \/ Disconnect
Next == Plugin \/ Core \/ \E p \in Pushes : Forward(p)

(* The main loop handles every event there is; a system call of the plugin  *)
(* returns when it can.  Nothing makes a plugin send.                       *)
Fairness == /\ WF_vars(Writable) /\ WF_vars(Readable) /\ WF_vars(Disconnect)
            /\ WF_vars(SendNewline) /\ WF_vars(Receive)

Spec == Init /\ [][Next]_vars /\ Fairness

-----------------------------------------------------------------------------
TypeOK ==
  /\ link \in {"open", "left", "closed"} /\ armed \in BOOLEAN
  /\ up \in Seq(Pieces) /\ read_buf \in Seq(Pieces)
  /\ out_buf \in Seq(Pieces) /\ out_pos \in 0 .. Len(out_buf)
  /\ down \in Seq(Pieces) /\ Len(down) <= Room
  /\ ipc_buf \in Seq(Pieces) /\ Len(ipc_buf) <= Space
  /\ mode \in {"setup", "loop"} /\ owes \in BOOLEAN
  /\ doing \in {"idle", "newline", "ask", "poll", "gone"}
  /\ lines \in Seq(Commands) /\ Len(lines) <= MaxLines
  /\ written \in Seq(Pieces) /\ handled \in Seq(Pieces)
  /\ queued \in Seq(Pieces) /\ taken \in Seq(Pieces)
  /\ answer.to \in 0 .. MaxLines

Pending == After(out_buf, out_pos)

(* The core handles the plugin's lines in the order they were sent, each    *)
(* whole and once, wherever reads cut the stream and however long a line    *)
(* stays in read_buf (core/ipc.c, ipc_conn_recv).                           *)
ToCore == INSTANCE Pipe WITH
  Text <- Texts, Limits <- {}, sent <- written, got <- handled
CarriesUp == ToCore!PSpec

(* The plugin takes what the core queued line by line, in order and once,   *)
(* through partial writes and the two buffers, and cuts only lines that are *)
(* too long (ipc_conn_flush, sdk_ipc_recv).                                 *)
ToPlugin == INSTANCE Pipe WITH
  Text <- Texts, Limits <- {Short, Space}, sent <- queued, got <- taken
CarriesDown == ToPlugin!PSpec

(* A request that waits with nothing left to happen waits for one of three  *)
(* reasons: its line is in read_buf, where a line before it left it; no     *)
(* handler knows it, or the core could not parse it; or the handler of      *)
(* device_setpoint returned without a reply.  It never waits for a reply    *)
(* that was queued (handle_client_event, 517-533), nor does a command of    *)
(* another kind go without one.                                             *)
NothingMoves == /\ doing = "ask" /\ ~HasLine(ipc_buf) /\ Len(ipc_buf) < Space
                /\ down = <<>>
                /\ link = "open" /\ up = <<>> /\ ~(armed /\ Pending # <<>>)
MayBeIgnored == {"device_setpoint", "state_load", "unparsable"}
Ignored == lines[Current] \in MayBeIgnored /\ ~IsIn(Current, queued)
WaitsForAReason == NothingMoves => IsIn(Current, read_buf) \/ Ignored

(* A request whose reply was queued comes back, and so does one of a kind   *)
(* that is always replied to, if it was sent when the core had handled      *)
(* every line before it: with a line, or because the connection ended.      *)
Alone == doing = "newline" /\ read_buf = <<>> /\ up = <<Current>>
RepliedTo == doing = "ask" /\ IsIn(Current, queued)

(* sdk/config.c, 19, "Expect response": what sdk_get_config reads next is   *)
(* the reply to what it asked.                                              *)
AnswerIsOwn ==
  answer.to # Newline /\ lines[answer.to] = "config"
    => answer.line = <<answer.to>>
=============================================================================
