---------------------------- MODULE ChannelProofs ----------------------------
(***************************************************************************)
(* Theorems about Channel, for any number of lines and requests and any    *)
(* sizes of sockets and buffers.                                           *)
(***************************************************************************)
EXTENDS Channel, TLAPS, SequenceTheorems

-----------------------------------------------------------------------------
(* Sequences taken apart and put together.                                  *)
LEMMA Between ==
  ASSUME NEW s \in Seq(Pieces), NEW m \in 0 .. Len(s), NEW n \in m .. Len(s)
  PROVE  /\ SubSeq(s, m + 1, n) \in Seq(Pieces) /\ After(s, n) \in Seq(Pieces)
         /\ Len(SubSeq(s, m + 1, n)) = n - m /\ Len(After(s, n)) = Len(s) - n
         /\ After(s, m) = SubSeq(s, m + 1, n) \o After(s, n)
<1>1. /\ m + 1 \in 1 .. Len(s) + 1 /\ n \in (m + 1) - 1 .. Len(s)
      /\ Len(s) \in n .. Len(s) /\ Len(s) \in Nat
  OBVIOUS
<1>2. SubSeq(s, m + 1, n) \o SubSeq(s, n + 1, Len(s)) = SubSeq(s, m + 1, Len(s))
  BY <1>1, ConcatAdjacentSubSeq
<1>3. /\ SubSeq(s, m + 1, n) \in Seq(Pieces) /\ Len(SubSeq(s, m + 1, n)) = n - m
  <2>1. \A i \in m + 1 .. n : s[i] \in Pieces  OBVIOUS
  <2> QED  BY <1>1, <2>1, SubSeqProperties
<1>4. After(s, n) \in Seq(Pieces) /\ Len(After(s, n)) = Len(s) - n
  BY <1>1 DEF After
<1> QED  BY <1>2, <1>3, <1>4 DEF After

LEMMA Split ==
  ASSUME NEW s \in Seq(Pieces), NEW n \in 0 .. Len(s)
  PROVE  /\ SubSeq(s, 1, n) \in Seq(Pieces) /\ After(s, n) \in Seq(Pieces)
         /\ Len(SubSeq(s, 1, n)) = n /\ Len(After(s, n)) = Len(s) - n
         /\ s = SubSeq(s, 1, n) \o After(s, n)
<1>1. After(s, 0) = s
  BY SubSeqFull DEF After
<1>2. /\ 0 \in 0 .. Len(s) /\ n \in 0 .. Len(s) /\ 0 + 1 = 1
  OBVIOUS
<1> QED  BY <1>1, <1>2, Between

LEMMA EmptyIs ==
  ASSUME NEW s \in Seq(Pieces)
  PROVE  s = <<>> <=> Len(s) = 0
OBVIOUS

LEMMA LenOfBoth ==
  ASSUME NEW s \in Seq(Pieces), NEW t \in Seq(Pieces)
  PROVE  /\ s \o t \in Seq(Pieces) /\ Len(s \o t) = Len(s) + Len(t)
         /\ \A k \in 1 .. Len(t) : (s \o t)[Len(s) + k] = t[k]
OBVIOUS

LEMMA Regroup ==
  ASSUME NEW s1 \in Seq(Pieces), NEW s2 \in Seq(Pieces), NEW s3 \in Seq(Pieces)
  PROVE  (s1 \o s2) \o s3 = s1 \o (s2 \o s3)
OBVIOUS

Assoc(s, t, u) == (s \o t) \o u = s \o (t \o u)

LEMMA RegroupAs ==
  ASSUME NEW s \in Seq(Pieces), NEW t \in Seq(Pieces), NEW u \in Seq(Pieces)
  PROVE  Assoc(s, t, u)
BY Regroup DEF Assoc

(* The front of a front, when what follows is read on.                      *)
LEMMA SplitTail ==
  ASSUME NEW s \in Seq(Pieces), NEW t \in Seq(Pieces), NEW n \in 0 .. Len(s)
  PROVE  s \o t = SubSeq(s, 1, n) \o (After(s, n) \o t)
<1> DEFINE front == SubSeq(s, 1, n)
           back == After(s, n)
<1>1. front \in Seq(Pieces) /\ back \in Seq(Pieces) /\ s = front \o back
  BY Split
<1> HIDE DEF front, back
<1>2. s \o t = front \o (back \o t)
  BY <1>1, Regroup
<1> QED  BY <1>2 DEF front, back

LEMMA AppendInside ==
  ASSUME NEW s \in Seq(Pieces), NEW u \in Seq(Pieces), NEW e \in Pieces
  PROVE  /\ Append(s \o u, e) = s \o Append(u, e)
         /\ Append(u, e) \in Seq(Pieces)
<1>1. Append(s \o u, e) = (s \o u) \o <<e>>
  BY AppendIsConcat
<1>2. Append(u, e) = u \o <<e>> /\ <<e>> \in Seq(Pieces)
  BY AppendIsConcat
<1>3. Append(u, e) \in Seq(Pieces)
  BY <1>2
<1>4. Assoc(s, u, <<e>>)
  BY <1>2, RegroupAs
<1>5. Append(s \o u, e) = s \o Append(u, e)
  BY <1>1, <1>2, <1>4 DEF Assoc
<1> QED  BY <1>3, <1>5

LEMMA HasLineOfBoth ==
  ASSUME NEW s \in Seq(Pieces), NEW t \in Seq(Pieces)
  PROVE  HasLine(s \o t) <=> HasLine(s) \/ HasLine(t)
<1>1. ASSUME HasLine(s) PROVE HasLine(s \o t)
  BY <1>1 DEF HasLine
<1>2. ASSUME HasLine(t) PROVE HasLine(s \o t)
  <2>1. PICK n \in DOMAIN t : t[n] = Newline  BY <1>2 DEF HasLine
  <2>2. Len(s) + n \in DOMAIN (s \o t) /\ (s \o t)[Len(s) + n] = t[n]  OBVIOUS
  <2> QED  BY <2>1, <2>2 DEF HasLine
<1>3. ASSUME HasLine(s \o t) PROVE HasLine(s) \/ HasLine(t)
  <2>1. PICK n \in DOMAIN (s \o t) : (s \o t)[n] = Newline  BY <1>3 DEF HasLine
  <2>2. CASE n <= Len(s)  BY <2>1, <2>2 DEF HasLine
  <2>3. CASE n > Len(s)
    <3>1. n - Len(s) \in DOMAIN t /\ (s \o t)[n] = t[n - Len(s)]  BY <2>3
    <3> QED  BY <2>1, <3>1 DEF HasLine
  <2> QED  BY <2>2, <2>3
<1> QED  BY <1>1, <1>2, <1>3

LEMMA IsInBoth ==
  ASSUME NEW s \in Seq(Pieces), NEW t \in Seq(Pieces), NEW e
  PROVE  IsIn(e, s \o t) <=> IsIn(e, s) \/ IsIn(e, t)
<1>1. ASSUME IsIn(e, s) PROVE IsIn(e, s \o t)
  BY <1>1 DEF IsIn
<1>2. ASSUME IsIn(e, t) PROVE IsIn(e, s \o t)
  <2>1. PICK n \in DOMAIN t : t[n] = e  BY <1>2 DEF IsIn
  <2>2. Len(s) + n \in DOMAIN (s \o t) /\ (s \o t)[Len(s) + n] = t[n]  OBVIOUS
  <2> QED  BY <2>1, <2>2 DEF IsIn
<1>3. ASSUME IsIn(e, s \o t) PROVE IsIn(e, s) \/ IsIn(e, t)
  <2>1. PICK n \in DOMAIN (s \o t) : (s \o t)[n] = e  BY <1>3 DEF IsIn
  <2>2. CASE n <= Len(s)  BY <2>1, <2>2 DEF IsIn
  <2>3. CASE n > Len(s)
    <3>1. n - Len(s) \in DOMAIN t /\ (s \o t)[n] = t[n - Len(s)]  BY <2>3
    <3> QED  BY <2>1, <3>1 DEF IsIn
  <2> QED  BY <2>2, <2>3
<1> QED  BY <1>1, <1>2, <1>3
-----------------------------------------------------------------------------
(* The streams.  To the core: what was written is what was handled, with    *)
(* what lies in between behind it; once closed, that is gone.               *)
Rest == read_buf \o up
UpFlow == IF link = "closed" THEN up = <<>> /\ read_buf = <<>>
                             ELSE written = handled \o Rest

(* To the plugin, likewise; what lay in out_buf when the connection was     *)
(* closed is lost.                                                          *)
Coming == ipc_buf \o down
DownFlow == \E lost \in Seq(Pieces) : /\ queued = taken \o (Coming \o lost)
                                      /\ link # "closed" => lost = Pending

(* What the SDK writes is texts and newlines in turn, ...                   *)
Numbered ==
  /\ doing \in {"newline", "ask"} => lines # <<>>
  /\ doing = "ask" => lines[Current] \in Asks
  /\ link = "open" =>
       Len(written) = IF doing = "newline" THEN 2 * Len(lines) - 1 ELSE 2 * Len(lines)
  /\ \A i \in 1 .. Len(lines) :
       /\ 2 * i - 1 <= Len(written) => written[2 * i - 1] = i
       /\ 2 * i <= Len(written) => written[2 * i] = Newline

(* ... and a line is handled whole.                                         *)
HandledWhole == \E h \in 0 .. Len(lines) : Len(handled) = 2 * h

(* A reply is queued when its line is handled, never before.                *)
RepliesFollow == \A i \in 1 .. MaxLines : IsIn(i, queued) => 2 * i <= Len(handled)

(* A request that waits was not handled, or was ignored, or its answer is   *)
(* on its way, and what of it is in out_buf will be sent.                   *)
WillCome ==
  doing = "ask" /\ link = "open" =>
    \/ IsIn(Current, Rest)
    \/ Ignored
    \/ HasLine(Coming)
    \/ armed /\ HasLine(Pending)

LEMMA PiecesAre == Newline \in Pieces /\ Pieces \subseteq Nat /\ 1 .. MaxLines \subseteq Pieces
BY ChannelAssumption DEF Pieces, Texts, Newline

-----------------------------------------------------------------------------
(* ipc_conn_flush: what is written leaves out_buf at its front.             *)
LEMMA FlushIs ==
  ASSUME NEW out \in Seq(Pieces), out_pos \in 0 .. Len(out),
         down \in Seq(Pieces), Len(down) <= Room, Flush(out)
  PROVE  /\ out_buf' \in Seq(Pieces) /\ out_pos' \in 0 .. Len(out_buf')
         /\ down' \in Seq(Pieces) /\ Len(down') <= Room
         /\ \E sent \in Seq(Pieces) :
              down' = down \o sent /\ After(out, out_pos) = sent \o Pending'
         /\ Pending' \in Seq(Pieces)
         /\ HasPending(out_buf', out_pos') <=> Pending' # <<>>
<1>1. PICK n \in Accepted(out) :
        /\ Give(out, n)
        /\ IF out_pos + n = Len(out) THEN out_buf' = <<>> /\ out_pos' = 0
           ELSE out_buf' = out /\ out_pos' = out_pos + n
  BY DEF Flush
<1>2. n \in 0 .. Len(out) - out_pos /\ n <= Room - Len(down)
  BY <1>1, ChannelAssumption DEF Accepted
<1> DEFINE to == out_pos + n
           sent == SubSeq(out, out_pos + 1, to)
           left == After(out, to)
<1>3. /\ to \in out_pos .. Len(out) /\ Len(out) \in Nat /\ out_pos \in Nat /\ n \in Nat
      /\ to = out_pos + n
  BY <1>2
<1>4. /\ sent \in Seq(Pieces) /\ left \in Seq(Pieces)
      /\ Len(sent) = n /\ Len(left) = Len(out) - to
      /\ After(out, out_pos) = sent \o left
  <2> HIDE DEF to
  <2>1. Len(sent) = to - out_pos
    BY <1>3, Between
  <2>2. sent \in Seq(Pieces)
    BY <1>3, Between
  <2>3. left \in Seq(Pieces) /\ Len(left) = Len(out) - to
    BY <1>3, Between
  <2>4. After(out, out_pos) = sent \o left
    BY <1>3, Between
  <2> QED  BY <1>3, <2>1, <2>2, <2>3, <2>4
<1>5. down' = down \o sent
  BY <1>1 DEF Give
<1> HIDE DEF to, sent, left
<1>6. down' \in Seq(Pieces) /\ Len(down') <= Room
  BY <1>2, <1>3, <1>4, <1>5, ChannelAssumption
<1>7. left = Pending'
  <2>1. CASE to = Len(out)
    <3>1. out_buf' = <<>> /\ out_pos' = 0 /\ Pending' = <<>>
      BY <1>1, <1>3, <2>1 DEF Pending, After
    <3> QED  BY <1>4, <2>1, <3>1
  <2>2. CASE to # Len(out)
    BY <1>1, <1>3, <2>2 DEF Pending, left
  <2> QED  BY <2>1, <2>2
<1>8. out_buf' \in Seq(Pieces) /\ out_pos' \in 0 .. Len(out_buf')
  <2>1. CASE to = Len(out)  BY <1>1, <1>3, <2>1
  <2>2. CASE to # Len(out)  BY <1>1, <1>3, <2>2
  <2> QED  BY <2>1, <2>2
<1>9. HasPending(out_buf', out_pos') <=> left # <<>>
  <2>1. left # <<>> <=> to # Len(out)
    <3>1. left = <<>> <=> Len(left) = 0
      BY <1>4, EmptyIs
    <3>2. Len(left) = 0 <=> to = Len(out)
      BY <1>3, <1>4
    <3> QED  BY <3>1, <3>2
  <2>2. CASE to = Len(out)
    BY <1>1, <1>3, <2>1, <2>2 DEF HasPending
  <2>3. CASE to # Len(out)
    BY <1>1, <1>3, <2>1, <2>3 DEF HasPending
  <2> QED  BY <2>2, <2>3
<1> QED  BY <1>4, <1>5, <1>6, <1>7, <1>8, <1>9

LEMMA AfterFront ==
  ASSUME NEW s \in Seq(Pieces), NEW t \in Seq(Pieces)
  PROVE  After(s \o t, Len(s)) = t
<1> DEFINE u == After(s \o t, Len(s))
<1>1. /\ u \in Seq(Pieces) /\ Len(u) = Len(t) /\ Len(t) \in Nat
      /\ \A i \in 1 .. Len(t) : u[i] = t[i]
  BY DEF After
<1> HIDE DEF u
<1>2. u = t  BY <1>1, SeqEqual
<1> QED  BY <1>2 DEF u

LEMMA AfterWithMore ==
  ASSUME NEW s \in Seq(Pieces), NEW t \in Seq(Pieces), NEW n \in 0 .. Len(s)
  PROVE  After(s \o t, n) = After(s, n) \o t
<1> DEFINE front == SubSeq(s, 1, n)
           back == After(s, n)
<1>1. /\ front \in Seq(Pieces) /\ back \in Seq(Pieces) /\ Len(front) = n /\ s = front \o back
      /\ s \o t = front \o (back \o t)
  BY Split, SplitTail
<1> HIDE DEF front, back
<1>2. back \o t \in Seq(Pieces)
  BY <1>1
<1>3. After(front \o (back \o t), Len(front)) = back \o t
  BY <1>1, <1>2, AfterFront
<1> QED  BY <1>1, <1>3 DEF back

(* What is appended to out_buf and what lay there goes to the plugin in     *)
(* this order, and no newline is lost.                                      *)
Moves(reply) ==
  /\ out_buf' \in Seq(Pieces) /\ out_pos' \in 0 .. Len(out_buf')
  /\ down' \in Seq(Pieces) /\ Len(down') <= Room
  /\ HasPending(out_buf', out_pos') <=> Pending' # <<>>
  /\ Pending' \in Seq(Pieces)
  /\ queued = taken \o (Coming \o Pending)
       => queued' = taken' \o (Coming' \o Pending')
  /\ HasLine(Coming) => HasLine(Coming')
  /\ HasLine(Pending) \/ HasLine(reply) => HasLine(Coming') \/ HasLine(Pending')

LEMMA OutFlows ==
  ASSUME TypeOK, NEW reply \in Seq(Pieces), Flush(out_buf \o reply),
         UNCHANGED <<ipc_buf, taken>>, queued' = queued \o reply
  PROVE  Moves(reply)
<1>1. /\ out_buf \in Seq(Pieces) /\ out_pos \in 0 .. Len(out_buf)
      /\ down \in Seq(Pieces) /\ Len(down) <= Room
      /\ ipc_buf \in Seq(Pieces) /\ taken \in Seq(Pieces)
  BY DEF TypeOK
<1> DEFINE out == out_buf \o reply
<1>2. out \in Seq(Pieces) /\ out_pos \in 0 .. Len(out)
  BY <1>1
<1>3. After(out, out_pos) = Pending \o reply /\ Pending \in Seq(Pieces)
  BY <1>1, AfterWithMore, Split DEF Pending
<1> HIDE DEF out
<1>4. /\ out_buf' \in Seq(Pieces) /\ out_pos' \in 0 .. Len(out_buf')
      /\ down' \in Seq(Pieces) /\ Len(down') <= Room
      /\ HasPending(out_buf', out_pos') <=> Pending' # <<>>
      /\ Pending' \in Seq(Pieces)
  BY <1>1, <1>2, FlushIs DEF out
<1>5. PICK sent \in Seq(Pieces) :
        down' = down \o sent /\ Pending \o reply = sent \o Pending'
  <2>1. Flush(out)
    BY DEF out
  <2>2. \E sent \in Seq(Pieces) :
          down' = down \o sent /\ After(out, out_pos) = sent \o Pending'
    BY <1>1, <1>2, <2>1, FlushIs
  <2> QED  BY <1>3, <2>2 DEF out
<1> DEFINE was == Pending
           still == Pending'
<1>6. was \in Seq(Pieces) /\ still \in Seq(Pieces) /\ was \o reply = sent \o still
  BY <1>3, <1>4, <1>5
<1>7. Coming = ipc_buf \o down /\ Coming' = Coming \o sent
  <2>1. Assoc(ipc_buf, down, sent)
    BY <1>1, RegroupAs
  <2> QED  BY <1>5, <2>1 DEF Coming, Assoc
<1> DEFINE onway == Coming
<1>8. onway \in Seq(Pieces) /\ Coming' = onway \o sent
  BY <1>1, <1>7
<1>9. ASSUME queued = taken \o (onway \o was)
      PROVE  queued' = taken' \o (Coming' \o still)
  <2> HIDE DEF was, still, onway
  <2>1. (taken \o (onway \o was)) \o reply = taken \o ((onway \o sent) \o still)
    <3> DEFINE before == onway \o was
               after == (onway \o sent) \o still
    <3>1. /\ before \in Seq(Pieces) /\ taken \in Seq(Pieces)
          /\ before \o reply = after
      <4>1. before \o reply = onway \o (was \o reply)
        BY <1>6, <1>8, Regroup
      <4>2. onway \o (sent \o still) = after
        BY <1>6, <1>8, Regroup
      <4> QED  BY <1>1, <1>6, <1>8, <4>1, <4>2
    <3> HIDE DEF before, after
    <3>2. (taken \o before) \o reply = taken \o (before \o reply)
      BY <3>1, Regroup
    <3>3. (taken \o before) \o reply = taken \o after
      BY <3>1, <3>2
    <3> QED  BY <3>3 DEF before, after
  <2>2. queued' = queued \o reply /\ taken' = taken
    OBVIOUS
  <2> QED  BY <1>8, <1>9, <2>1, <2>2
<1>10. HasLine(onway) => HasLine(Coming')
  <2> HIDE DEF onway
  <2> QED  BY <1>8, HasLineOfBoth
<1>11. HasLine(was) \/ HasLine(reply) => HasLine(Coming') \/ HasLine(still)
  <2> HIDE DEF was, still, onway
  <2>1. HasLine(was) \/ HasLine(reply) => HasLine(sent \o still)
    BY <1>6, HasLineOfBoth
  <2>2. HasLine(sent \o still) => HasLine(sent) \/ HasLine(still)
    BY <1>6, HasLineOfBoth
  <2>3. HasLine(sent) => HasLine(Coming')
    BY <1>8, HasLineOfBoth
  <2> QED  BY <2>1, <2>2, <2>3
<1> QED  BY <1>4, <1>9, <1>10, <1>11 DEF Moves

LEMMA PendingIs ==
  ASSUME TypeOK
  PROVE  Pending \in Seq(Pieces) /\ (HasPending(out_buf, out_pos) <=> Pending # <<>>)
<1>1. out_buf \in Seq(Pieces) /\ out_pos \in 0 .. Len(out_buf)
  BY DEF TypeOK
<1>2. Pending \in Seq(Pieces) /\ Len(Pending) = Len(out_buf) - out_pos
  BY <1>1, Split DEF Pending
<1>3. Pending = <<>> <=> Len(Pending) = 0
  BY <1>2, EmptyIs
<1> QED  BY <1>1, <1>2, <1>3 DEF HasPending

LEMMA NothingIsAdded ==
  ASSUME NEW s \in Seq(Pieces)
  PROVE  s \o <<>> = s /\ <<>> \in Seq(Pieces)
OBVIOUS

(* A command that replies nothing leaves out_buf alone.                     *)
Replied(reply) == \/ reply = <<>> /\ UNCHANGED <<down, out_buf, out_pos>>
                  \/ Flush(out_buf \o reply)

LEMMA ReplyMoves ==
  ASSUME TypeOK, NEW reply \in Seq(Pieces), Replied(reply),
         UNCHANGED <<ipc_buf, taken>>, queued' = queued \o reply
  PROVE  Moves(reply)
<1>1. CASE Flush(out_buf \o reply)
  BY <1>1, OutFlows
<1>2. CASE reply = <<>> /\ UNCHANGED <<down, out_buf, out_pos>>
  <2>1. Pending' = Pending /\ Coming' = Coming
    BY <1>2 DEF Pending, Coming
  <2>2. queued' = queued /\ ~HasLine(reply)
    BY <1>2, NothingIsAdded DEF TypeOK, HasLine
  <2>3. HasPending(out_buf', out_pos') <=> Pending' # <<>>
    BY <1>2, <2>1, PendingIs
  <2>4. Pending \in Seq(Pieces)
    BY PendingIs
  <2> QED  BY <1>2, <2>1, <2>2, <2>3, <2>4 DEF TypeOK, Moves
<1> QED  BY <1>1, <1>2 DEF Replied

-----------------------------------------------------------------------------
(* The replies of the commands are lines.                                   *)
LEMMA MessageIs ==
  ASSUME NEW text \in Seq(Pieces)
  PROVE  /\ Message(text) \in Seq(Pieces) /\ HasLine(Message(text))
         /\ \A p : IsIn(p, Message(text)) => IsIn(p, text) \/ p = Newline
<1>1. Message(text) \in Seq(Pieces)
  BY PiecesAre DEF Message
<1>2. /\ Len(text) + 1 \in DOMAIN Message(text)
      /\ Message(text)[Len(text) + 1] = Newline
  BY PiecesAre DEF Message
<1>3. ASSUME NEW p, IsIn(p, Message(text))
      PROVE  IsIn(p, text) \/ p = Newline
  BY <1>3 DEF IsIn, Message
<1> QED  BY <1>1, <1>2, <1>3 DEF HasLine

LEMMA RepliesAre ==
  ASSUME NEW i \in Pieces, NEW c, NEW reply \in Replies(c, i)
  PROVE  /\ reply \in Seq(Pieces) /\ (reply = <<>> \/ HasLine(reply))
         /\ c \in {"config", "query_range"} => HasLine(reply)
         /\ \A p : IsIn(p, reply) => p \in {i, Newline}
<1> DEFINE Good(r) == /\ r \in Seq(Pieces) /\ HasLine(r)
                      /\ \A p : IsIn(p, r) => p \in {i, Newline}
<1>1. Good(Message(<<i, Newline>>))
  <2>1. <<i, Newline>> \in Seq(Pieces) /\ \A p : IsIn(p, <<i, Newline>>) => p \in {i, Newline}
    BY PiecesAre DEF IsIn
  <2> QED  BY <2>1, MessageIs
<1>2. ASSUME NEW n \in Lengths
      PROVE  Good(Result(i, n))
  <2> DEFINE row == [k \in 1 .. n |-> i]
  <2>1. row \in Seq(Pieces) /\ \A p : IsIn(p, row) => p = i
    BY ChannelAssumption DEF IsIn
  <2> HIDE DEF row
  <2>2. <<Newline>> \in Seq(Pieces) /\ \A p : IsIn(p, <<Newline>>) => p = Newline
    BY PiecesAre DEF IsIn
  <2>3. /\ Message(row) \in Seq(Pieces) /\ HasLine(Message(row))
        /\ \A p : IsIn(p, Message(row)) => p \in {i, Newline}
    BY <2>1, MessageIs
  <2>4. /\ Message(<<Newline>>) \in Seq(Pieces)
        /\ \A p : IsIn(p, Message(<<Newline>>)) => p = Newline
    BY <2>2, MessageIs
  <2> DEFINE line == Message(row)
             blank == Message(<<Newline>>)
  <2>5. Result(i, n) = line \o blank
    BY DEF Result, row
  <2>6. /\ line \in Seq(Pieces) /\ HasLine(line) /\ blank \in Seq(Pieces)
        /\ \A p : IsIn(p, line) \/ IsIn(p, blank) => p \in {i, Newline}
    BY <2>3, <2>4
  <2> HIDE DEF line, blank
  <2>7. line \o blank \in Seq(Pieces) /\ HasLine(line \o blank)
    BY <2>6, HasLineOfBoth
  <2>8. \A p : IsIn(p, line \o blank) => IsIn(p, line) \/ IsIn(p, blank)
    BY <2>6, IsInBoth
  <2> QED  BY <2>5, <2>6, <2>7, <2>8
<1>3. \A p : ~IsIn(p, <<>>)
  BY DEF IsIn
<1>4. <<>> \in Seq(Pieces)
  OBVIOUS
<1>5. CASE c = "config"
  <2>1. reply = Message(<<i, Newline>>)
    BY <1>5 DEF Replies
  <2> QED  BY <1>1, <2>1
<1>6. CASE c = "query_range"
  <2>1. \/ \E n \in Lengths : reply = Result(i, n)
        \/ reply = Message(<<i, Newline>>)
    BY <1>6 DEF Replies
  <2> QED  BY <1>1, <1>2, <2>1
<1>7. CASE c = "device_setpoint"
  <2>1. reply = <<>> \/ reply = Message(<<i, Newline>>)
    BY <1>7 DEF Replies, SetpointReplies
  <2> QED  BY <1>1, <1>3, <1>4, <1>7, <2>1
<1>8. CASE c \notin {"config", "query_range", "device_setpoint"}
  <2>1. reply = <<>>
    BY <1>8 DEF Replies
  <2> QED  BY <1>3, <1>4, <1>8, <2>1
<1> QED  BY <1>5, <1>6, <1>7, <1>8

LEMMA HandleIs ==
  ASSUME NEW piece \in Pieces, NEW reply \in Handle(piece)
  PROVE  /\ reply \in Seq(Pieces) /\ (reply = <<>> \/ HasLine(reply))
         /\ piece # Newline /\ lines[piece] \in {"config", "query_range"} => HasLine(reply)
         /\ \A p : IsIn(p, reply) => p \in {piece, Newline}
<1>1. CASE piece = Newline \/ lines[piece] = "unparsable"
  <2>1. reply = <<>>
    BY <1>1 DEF Handle
  <2>2. <<>> \in Seq(Pieces)
    OBVIOUS
  <2> QED  BY <1>1, <2>1, <2>2 DEF IsIn
<1>2. CASE ~(piece = Newline \/ lines[piece] = "unparsable")
  <2>1. reply \in Replies(lines[piece], piece)
    BY <1>2 DEF Handle
  <2> QED  BY <2>1, RepliesAre
<1> QED  BY <1>1, <1>2

(* ipc_conn_recv: what was read and what is left in the socket are the      *)
(* stream as it was.                                                        *)
ReadLine(s, n, reply) ==
  /\ Rest = s \o up' /\ up' \in Seq(Pieces)
  /\ EndsLine(s, n) /\ read_buf' = After(s, n)
  /\ handled' = handled \o SubSeq(s, 1, n)
  /\ reply \in Handle(s[1])
  /\ queued' = queued \o reply /\ Replied(reply)

LEMMA ReadableIs ==
  ASSUME TypeOK, Readable
  PROVE  \E s \in Seq(Pieces), reply \in Seq(Pieces) :
           \E n \in 1 .. Len(s) : ReadLine(s, n, reply)
<1>1. read_buf \in Seq(Pieces) /\ up \in Seq(Pieces)
  BY DEF TypeOK
<1>2. PICK k \in 0 .. Len(up) :
        LET s == read_buf \o SubSeq(up, 1, k)
        IN  /\ \E n \in DOMAIN s :
                 /\ EndsLine(s, n)
                 /\ read_buf' = After(s, n)
                 /\ handled' = handled \o SubSeq(s, 1, n)
                 /\ \E reply \in Handle(s[1]) :
                      /\ queued' = queued \o reply
                      /\ IF reply = <<>> THEN UNCHANGED <<down, out_buf, out_pos>>
                         ELSE Flush(out_buf \o reply)
            /\ up' = After(up, k)
  BY DEF Readable, Consume
<1> DEFINE front == SubSeq(up, 1, k)
           s == read_buf \o front
<1>3. front \in Seq(Pieces) /\ up' \in Seq(Pieces) /\ up = front \o up'
  BY <1>1, <1>2, Split
<1> HIDE DEF front
<1>4. s \in Seq(Pieces)
  BY <1>1, <1>3
<1>5. Rest = s \o up'
  BY <1>1, <1>3, Regroup DEF Rest
<1>6. PICK n \in DOMAIN s :
        /\ EndsLine(s, n)
        /\ read_buf' = After(s, n)
        /\ handled' = handled \o SubSeq(s, 1, n)
        /\ \E reply \in Handle(s[1]) :
             /\ queued' = queued \o reply
             /\ IF reply = <<>> THEN UNCHANGED <<down, out_buf, out_pos>>
                ELSE Flush(out_buf \o reply)
  BY <1>2 DEF front
<1>7. PICK reply \in Handle(s[1]) :
        /\ queued' = queued \o reply
        /\ IF reply = <<>> THEN UNCHANGED <<down, out_buf, out_pos>>
           ELSE Flush(out_buf \o reply)
  BY <1>6
<1>8. n \in 1 .. Len(s) /\ s[1] \in Pieces
  BY <1>4, <1>6
<1> HIDE DEF s
<1>9. reply \in Seq(Pieces)
  BY <1>7, <1>8, HandleIs
<1>10. Replied(reply)
  BY <1>7 DEF Replied
<1>11. ReadLine(s, n, reply)
  BY <1>3, <1>5, <1>6, <1>7, <1>10 DEF ReadLine
<1> QED  BY <1>4, <1>8, <1>9, <1>11

-----------------------------------------------------------------------------
(* Types.                                                                   *)
LEMMA SendTextType ==
  ASSUME TypeOK, NEW c \in Commands, SendText(c), owes' \in BOOLEAN
  PROVE  TypeOK'
<1>1. /\ up' = Append(up, Len(lines) + 1) /\ written' = Append(written, Len(lines) + 1)
      /\ lines' = Append(lines, c) /\ Len(lines) < MaxLines /\ doing' = "newline"
      /\ UNCHANGED <<link, read_buf, handled, outbound, armed, mode, received>>
  BY DEF SendText, Write
<1>2. Len(lines) + 1 \in Pieces
  BY <1>1, PiecesAre, ChannelAssumption DEF TypeOK
<1>3. up' \in Seq(Pieces) /\ written' \in Seq(Pieces)
  BY <1>1, <1>2 DEF TypeOK
<1>4. lines' \in Seq(Commands) /\ Len(lines') <= MaxLines
  BY <1>1, ChannelAssumption DEF TypeOK
<1> QED  BY <1>1, <1>3, <1>4 DEF TypeOK, outbound, received

LEMMA GotIs ==
  ASSUME TypeOK, NEW line, NEW n \in 0 .. Len(ipc_buf), Got(line, n)
  PROVE  /\ taken' \in Seq(Pieces)
         /\ ipc_buf' \in Seq(Pieces) /\ Len(ipc_buf') <= Space
         /\ owes' \in BOOLEAN /\ answer'.to \in 0 .. MaxLines
<1>1. ipc_buf \in Seq(Pieces) /\ Len(ipc_buf) <= Space /\ taken \in Seq(Pieces)
  BY DEF TypeOK
<1>2. taken' = taken \o SubSeq(ipc_buf, 1, n) /\ ipc_buf' = After(ipc_buf, n)
  BY DEF Got
<1>3. taken' \in Seq(Pieces) /\ ipc_buf' \in Seq(Pieces) /\ Len(ipc_buf') = Len(ipc_buf) - n
  <2> DEFINE front == SubSeq(ipc_buf, 1, n)
  <2>1. front \in Seq(Pieces)  BY <1>1, Split
  <2>2. After(ipc_buf, n) \in Seq(Pieces) /\ Len(After(ipc_buf, n)) = Len(ipc_buf) - n
    BY <1>1, Split
  <2> HIDE DEF front
  <2>3. taken \o front \in Seq(Pieces)  BY <1>1, <2>1
  <2> QED  BY <1>2, <2>2, <2>3 DEF front
<1>4. owes' \in BOOLEAN
  BY DEF Got, TypeOK
<1>5. answer'.to \in 0 .. MaxLines
  <2>1. CASE doing = "ask"
    <3>1. answer' = [to |-> Current, line |-> line]  BY <2>1 DEF Got
    <3>2. Current \in 0 .. MaxLines  BY ChannelAssumption DEF Current, TypeOK
    <3> QED  BY <3>1, <3>2
  <2>2. CASE doing # "ask"  BY <2>2 DEF Got, TypeOK
  <2> QED  BY <2>1, <2>2
<1> QED  BY <1>1, <1>3, <1>4, <1>5, ChannelAssumption

(* A line or a part of it that is taken is at the front of ipc_buf.         *)
LEMMA TakeLineIs ==
  ASSUME TypeOK, TakeLine
  PROVE  \E n \in 1 .. Len(ipc_buf) :
           /\ \E line : Got(line, n)
           /\ \A m \in 1 .. n - 1 : ipc_buf[m] # Newline
           /\ ipc_buf[n] = Newline \/ n \in {Short, Space}
<1>1. PICK n \in DOMAIN ipc_buf :
        /\ EndsLine(ipc_buf, n)
        /\ IF n <= Limit THEN Got(SubSeq(ipc_buf, 1, n - 1), n)
           ELSE Got(SubSeq(ipc_buf, 1, Limit - 1), Limit)
  BY DEF TakeLine
<1>2. /\ n \in 1 .. Len(ipc_buf) /\ ipc_buf[n] = Newline
      /\ \A m \in 1 .. n - 1 : ipc_buf[m] # Newline
  BY <1>1 DEF EndsLine, TypeOK
<1>3. Limit \in {Short, Space} /\ Limit \in Nat \ {0}
  BY ChannelAssumption DEF Limit
<1>4. CASE n <= Limit
  BY <1>1, <1>2, <1>4
<1>5. CASE ~(n <= Limit)
  <2>1. Got(SubSeq(ipc_buf, 1, Limit - 1), Limit)  BY <1>1, <1>5
  <2>2. Limit \in 1 .. Len(ipc_buf) /\ \A m \in 1 .. Limit - 1 : ipc_buf[m] # Newline
    BY <1>2, <1>3, <1>5
  <2> QED  BY <1>3, <2>1, <2>2
<1> QED  BY <1>4, <1>5

LEMMA ReceiveType ==
  ASSUME TypeOK, Receive
  PROVE  TypeOK'
<1>1. CASE TakeLine
  <2>1. PICK n \in 1 .. Len(ipc_buf) : \E line : Got(line, n)
    BY <1>1, TakeLineIs
  <2>2. n \in 0 .. Len(ipc_buf)
    OBVIOUS
  <2>3. /\ taken' \in Seq(Pieces) /\ ipc_buf' \in Seq(Pieces) /\ Len(ipc_buf') <= Space
        /\ owes' \in BOOLEAN /\ answer'.to \in 0 .. MaxLines
    BY <2>1, <2>2, GotIs
  <2> QED  BY <1>1, <2>3 DEF TakeLine, TypeOK, inbound, outbound
<1>2. CASE TooLong
  <2>1. taken' \in Seq(Pieces) /\ ipc_buf' \in Seq(Pieces) /\ Len(ipc_buf') <= Space
    BY <1>2, ChannelAssumption DEF TooLong, TypeOK
  <2>2. doing' \in {"idle", "gone"}
    BY <1>2 DEF TooLong, Failed
  <2> QED  BY <1>2, <2>1, <2>2 DEF TooLong, TypeOK, inbound, outbound
<1>3. CASE ReadSocket
  <2>1. PICK n \in DOMAIN down :
          /\ Len(ipc_buf) + n <= Space
          /\ ipc_buf' = ipc_buf \o SubSeq(down, 1, n)
          /\ down' = After(down, n)
    BY <1>3 DEF ReadSocket
  <2> DEFINE front == SubSeq(down, 1, n)
  <2>2. down \in Seq(Pieces) /\ ipc_buf \in Seq(Pieces) /\ n \in 1 .. Len(down)
    BY <2>1 DEF TypeOK
  <2>3. /\ front \in Seq(Pieces) /\ Len(front) = n
        /\ down' \in Seq(Pieces) /\ Len(down') = Len(down) - n
    <3>1. n \in 0 .. Len(down)  BY <2>2
    <3> QED  BY <2>1, <2>2, <3>1, Split
  <2>4. Len(down) <= Room
    BY DEF TypeOK
  <2> HIDE DEF front
  <2>5. ipc_buf' = ipc_buf \o front  BY <2>1 DEF front
  <2>6. ipc_buf' \in Seq(Pieces) /\ Len(ipc_buf') <= Space
    BY <2>1, <2>2, <2>3, <2>5
  <2>7. Len(down') <= Room
    BY <2>2, <2>3, <2>4, ChannelAssumption
  <2> QED  BY <1>3, <2>3, <2>6, <2>7 DEF ReadSocket, TypeOK, inbound, sdk
<1>4. CASE EndOfFile
  <2>1. doing' \in {"idle", "gone"}
    BY <1>4 DEF EndOfFile, Failed
  <2> QED  BY <1>4, <2>1 DEF EndOfFile, TypeOK, inbound, outbound, received
<1> QED  BY <1>1, <1>2, <1>3, <1>4 DEF Receive

LEMMA PushIs ==
  ASSUME NEW p \in Pushes
  PROVE  /\ Message(<<p>>) \in Seq(Pieces)
         /\ \A i \in 1 .. MaxLines : ~IsIn(i, Message(<<p>>))
<1>1. <<p>> \in Seq(Pieces)
  BY DEF Pushes, Pieces
<1>2. ASSUME NEW i \in 1 .. MaxLines
      PROVE  i # p /\ i # Newline
  BY ChannelAssumption DEF Pushes, Texts, Newline
<1>3. \A i : IsIn(i, <<p>>) => i = p
  BY DEF IsIn
<1> QED  BY <1>1, <1>2, <1>3, MessageIs

LEMMA TypeStep ==
  ASSUME TypeOK, [Next]_vars
  PROVE  TypeOK'
<1>1. ASSUME NEW c \in Commands, Send(c) PROVE TypeOK'
  <2>1. SendText(c) /\ owes' \in BOOLEAN  BY <1>1 DEF Send, TypeOK
  <2> QED  BY <2>1, SendTextType
<1>2. CASE Respond
  <2>1. CASE SendText("http_response")
    <3>1. owes' \in BOOLEAN /\ "http_response" \in Commands
      BY <1>2 DEF Respond, Commands
    <3> QED  BY <2>1, <3>1, SendTextType
  <2>2. CASE UNCHANGED <<link, inbound, outbound, armed, mode, doing, lines, received>>
    BY <1>2, <2>2 DEF Respond, TypeOK, inbound, outbound, received
  <2> QED  BY <1>2, <2>1, <2>2 DEF Respond
<1>3. CASE SendNewline
  <2>1. up' \in Seq(Pieces) /\ written' \in Seq(Pieces)
    <3>1. up \in Seq(Pieces) /\ written \in Seq(Pieces) /\ Newline \in Pieces
      BY PiecesAre DEF TypeOK
    <3>2. \/ up' = Append(up, Newline) /\ written' = Append(written, Newline)
          \/ UNCHANGED <<up, written>>
      BY <1>3 DEF SendNewline, Write
    <3>3. Append(up, Newline) \in Seq(Pieces) /\ Append(written, Newline) \in Seq(Pieces)
      BY <3>1
    <3>4. CASE up' = Append(up, Newline) /\ written' = Append(written, Newline)
      BY <3>3, <3>4
    <3>5. CASE UNCHANGED <<up, written>>
      BY <3>1, <3>5
    <3> QED  BY <3>2, <3>4, <3>5
  <2>2. doing' \in {"ask", "idle"}
    BY <1>3 DEF SendNewline
  <2> QED  BY <1>3, <2>1, <2>2 DEF SendNewline, TypeOK, outbound, received
<1>4. CASE Receive
  BY <1>4, ReceiveType
<1>5. CASE EnterLoop
  BY <1>5 DEF EnterLoop, TypeOK, inbound, outbound, received
<1>6. CASE Poll
  BY <1>6 DEF Poll, TypeOK, inbound, outbound, received
<1>7. CASE Leave
  BY <1>7 DEF Leave, TypeOK, inbound, outbound, received
<1>8. CASE Writable
  <2>1. Flush(out_buf \o <<>>) /\ queued' = queued \o <<>> /\ <<>> \in Seq(Pieces)
    BY <1>8, NothingIsAdded DEF Writable, TypeOK
  <2>2. UNCHANGED <<ipc_buf, taken>>
    BY <1>8 DEF Writable, received
  <2>3. Moves(<<>>)
    BY <2>1, <2>2, OutFlows
  <2>4. armed' \in BOOLEAN
    BY <1>8 DEF Writable, HasPending
  <2> QED  BY <1>8, <2>3, <2>4 DEF Writable, Moves, TypeOK, inbound, sdk, received
<1>9. CASE Readable
  <2>1. PICK s \in Seq(Pieces), reply \in Seq(Pieces) :
          \E n \in 1 .. Len(s) : ReadLine(s, n, reply)
    BY <1>9, ReadableIs
  <2>2. PICK n \in 1 .. Len(s) : ReadLine(s, n, reply)
    BY <2>1
  <2>3. SubSeq(s, 1, n) \in Seq(Pieces) /\ read_buf' \in Seq(Pieces)
    <3>1. n \in 0 .. Len(s)  OBVIOUS
    <3> QED  BY <2>2, <3>1, Split DEF ReadLine
  <2>4. handled' \in Seq(Pieces)
    <3> DEFINE front == SubSeq(s, 1, n)
    <3>1. front \in Seq(Pieces) /\ handled \in Seq(Pieces) /\ handled' = handled \o front
      BY <2>2, <2>3 DEF ReadLine, TypeOK
    <3> HIDE DEF front
    <3> QED  BY <3>1
  <2>5. UNCHANGED <<ipc_buf, taken, answer>> /\ queued' = queued \o reply /\ Replied(reply)
    BY <1>9, <2>2 DEF Readable, ReadLine, received
  <2>6. Moves(reply)
    BY <2>5, ReplyMoves
  <2>7. queued' \in Seq(Pieces)
    BY <2>5 DEF TypeOK
  <2>8. armed' \in BOOLEAN
    BY <1>9 DEF Readable, Arm, HasPending, TypeOK
  <2>9. up' \in Seq(Pieces) /\ UNCHANGED <<link, written, sdk>>
    BY <1>9, <2>2 DEF Readable, ReadLine
  <2> QED  BY <2>3, <2>4, <2>5, <2>6, <2>7, <2>8, <2>9 DEF Moves, TypeOK, sdk
<1>10. CASE Disconnect
  <2>1. /\ link' = "closed" /\ up' = <<>> /\ read_buf' = <<>>
        /\ out_buf' = <<>> /\ out_pos' = 0 /\ armed' = FALSE
        /\ UNCHANGED <<written, handled, down, queued, sdk, received>>
    BY <1>10 DEF Disconnect
  <2>2. /\ up' \in Seq(Pieces) /\ read_buf' \in Seq(Pieces) /\ out_buf' \in Seq(Pieces)
        /\ out_pos' \in 0 .. Len(out_buf')
    BY <2>1
  <2> QED  BY <2>1, <2>2 DEF TypeOK, sdk, received
<1>11. ASSUME NEW p \in Pushes, Forward(p) PROVE TypeOK'
  <2> DEFINE message == Message(<<p>>)
  <2>1. message \in Seq(Pieces)
    BY PushIs
  <2>2. /\ queued' = queued \o message /\ Flush(out_buf \o message)
        /\ UNCHANGED <<link, inbound, armed, sdk, received>>
    BY <1>11 DEF Forward
  <2> HIDE DEF message
  <2>3. UNCHANGED <<ipc_buf, taken, answer>>
    BY <2>2 DEF received
  <2>4. Moves(message)
    BY <2>1, <2>2, <2>3, OutFlows
  <2>5. queued' \in Seq(Pieces)
    BY <2>1, <2>2 DEF TypeOK
  <2> QED  BY <2>2, <2>3, <2>4, <2>5 DEF Moves, TypeOK, inbound, sdk
<1>12. CASE UNCHANGED vars
  BY <1>12 DEF vars, TypeOK, inbound, outbound, sdk, received
<1> QED
  BY <1>1, <1>2, <1>3, <1>4, <1>5, <1>6, <1>7, <1>8, <1>9, <1>10, <1>11, <1>12
  DEF Next, Plugin, Core

LEMMA InitType == Init => TypeOK
<1> SUFFICES ASSUME Init PROVE TypeOK
  OBVIOUS
<1>1. answer.to \in 0 .. MaxLines
  <2>1. answer.to = 0  BY DEF Init, Newline
  <2> QED  BY <2>1, ChannelAssumption
<1>2. /\ up \in Seq(Pieces) /\ read_buf \in Seq(Pieces) /\ out_buf \in Seq(Pieces)
      /\ down \in Seq(Pieces) /\ ipc_buf \in Seq(Pieces) /\ written \in Seq(Pieces)
      /\ handled \in Seq(Pieces) /\ queued \in Seq(Pieces) /\ taken \in Seq(Pieces)
      /\ lines \in Seq(Commands)
  BY DEF Init
<1>3. /\ out_pos \in 0 .. Len(out_buf) /\ Len(down) <= Room /\ Len(ipc_buf) <= Space
      /\ Len(lines) <= MaxLines
  BY ChannelAssumption DEF Init
<1> QED  BY <1>1, <1>2, <1>3 DEF Init, TypeOK

(* The buffers and sockets stay within their sizes and hold nothing but     *)
(* texts and newlines, whatever is written and however it is cut (core/ipc.c, *)
(* ipc_conn; sdk/ipc.c, ipc_buf).                                           *)
THEOREM TypeCorrect == Spec => []TypeOK
<1>1. Init => TypeOK
  BY InitType
<1>2. TypeOK /\ [Next]_vars => TypeOK'
  BY TypeStep
<1> QED  BY <1>1, <1>2, PTL DEF Spec

-----------------------------------------------------------------------------
(* The way to the core.                                                     *)
LEMMA Front ==
  ASSUME NEW s \in Seq(Pieces), NEW t \in Seq(Pieces), NEW n \in 0 .. Len(s)
  PROVE  SubSeq(s \o t, 1, n) = SubSeq(s, 1, n)
<1> DEFINE one == SubSeq(s \o t, 1, n)
           two == SubSeq(s, 1, n)
<1>1. /\ one \in Seq(Pieces) /\ two \in Seq(Pieces) /\ Len(one) = n /\ Len(two) = n
      /\ \A i \in 1 .. n : one[i] = two[i]
  <2>1. s \o t \in Seq(Pieces) /\ n \in 0 .. Len(s \o t)
    OBVIOUS
  <2>2. two \in Seq(Pieces) /\ Len(two) = n
    BY Split
  <2>3. one \in Seq(Pieces) /\ Len(one) = n
    <3> DEFINE st == s \o t
    <3>1. st \in Seq(Pieces) /\ n \in 0 .. Len(st)  BY <2>1
    <3> HIDE DEF st
    <3>2. SubSeq(st, 1, n) \in Seq(Pieces) /\ Len(SubSeq(st, 1, n)) = n
      BY <3>1, Split
    <3> QED  BY <3>2 DEF st
  <2> QED  BY <2>2, <2>3
<1> HIDE DEF one, two
<1>2. one = two  BY <1>1, SeqEqual
<1> QED  BY <1>2 DEF one, two

LEMMA SendTextUp ==
  ASSUME TypeOK, UpFlow, Numbered, HandledWhole, NEW c \in Commands, SendText(c)
  PROVE  UpFlow' /\ Numbered' /\ HandledWhole'
<1> DEFINE text == Len(lines) + 1
<1>1. /\ up' = Append(up, text) /\ written' = Append(written, text)
      /\ lines' = Append(lines, c) /\ Len(lines) < MaxLines /\ doing' = "newline"
      /\ doing = "idle" /\ link = "open"
      /\ UNCHANGED <<link, read_buf, handled>>
  BY DEF SendText, Write
<1>2. /\ text \in Pieces /\ text \in Nat /\ lines' \in Seq(Commands) /\ Len(lines') = text
      /\ written \in Seq(Pieces) /\ handled \in Seq(Pieces) /\ read_buf \in Seq(Pieces)
      /\ up \in Seq(Pieces) /\ Len(lines) \in Nat
  <2>1. /\ lines \in Seq(Commands) /\ Len(lines) \in Nat
        /\ written \in Seq(Pieces) /\ handled \in Seq(Pieces) /\ read_buf \in Seq(Pieces)
        /\ up \in Seq(Pieces)
    BY DEF TypeOK
  <2>2. text \in Pieces
    BY <1>1, <2>1, PiecesAre, ChannelAssumption
  <2>3. lines' \in Seq(Commands) /\ Len(lines') = text
    BY <1>1, <2>1
  <2> QED  BY <2>1, <2>2, <2>3
<1>3. UpFlow'
  <2>1. written = handled \o Rest
    BY <1>1 DEF UpFlow
  <2> HIDE DEF text
  <2>2. Rest' = Append(Rest, text)
    BY <1>1, <1>2, AppendInside DEF Rest
  <2>3. Rest \in Seq(Pieces)
    BY <1>2 DEF Rest
  <2>4. Append(handled \o Rest, text) = handled \o Append(Rest, text)
    BY <1>2, <2>3, AppendInside
  <2> QED  BY <1>1, <2>1, <2>2, <2>4 DEF UpFlow
<1>4. Numbered'
  <2>1. Len(written) = 2 * Len(lines)
    BY <1>1 DEF Numbered
  <2>2. /\ Len(written') = 2 * Len(lines') - 1
        /\ \A k \in 1 .. Len(written) : written'[k] = written[k]
        /\ written'[Len(written) + 1] = text
    <3>1. written' = Append(written, text) /\ written \in Seq(Pieces) /\ text \in Pieces
      BY <1>1, <1>2
    <3>2. Len(written') = Len(written) + 1
      BY <3>1
    <3>3. /\ \A k \in 1 .. Len(written) : written'[k] = written[k]
          /\ written'[Len(written) + 1] = text
      BY <3>1
    <3> QED  BY <1>2, <2>1, <3>2, <3>3
  <2>3. lines' # <<>>
    BY <1>2
  <2>4. ASSUME NEW i \in 1 .. Len(lines')
        PROVE  /\ 2 * i - 1 <= Len(written') => written'[2 * i - 1] = i
               /\ 2 * i <= Len(written') => written'[2 * i] = Newline
    <3>1. i \in 1 .. Len(lines) \/ i = text
      BY <1>2
    <3>2. CASE i \in 1 .. Len(lines)
      <4>1. 2 * i \in 1 .. Len(written) /\ 2 * i - 1 \in 1 .. Len(written)
        BY <1>2, <2>1, <3>2
      <4>2. /\ 2 * i - 1 <= Len(written) => written[2 * i - 1] = i
            /\ 2 * i <= Len(written) => written[2 * i] = Newline
        BY <3>2 DEF Numbered
      <4>3. 2 * i - 1 <= Len(written) /\ 2 * i <= Len(written)
        BY <4>1
      <4>4. written'[2 * i - 1] = written[2 * i - 1] /\ written'[2 * i] = written[2 * i]
        BY <2>2, <4>1
      <4> QED  BY <4>2, <4>3, <4>4
    <3>3. CASE i = text
      BY <1>2, <2>1, <2>2, <3>3
    <3> QED  BY <3>1, <3>2, <3>3
  <2> QED  BY <1>1, <2>2, <2>3, <2>4 DEF Numbered
<1>5. HandledWhole'
  BY <1>1, <1>2 DEF HandledWhole
<1> QED  BY <1>3, <1>4, <1>5

LEMMA SendNewlineUp ==
  ASSUME TypeOK, UpFlow, Numbered, HandledWhole, SendNewline
  PROVE  UpFlow' /\ Numbered' /\ HandledWhole'
<1>1. /\ doing = "newline" /\ doing' \in {"ask", "idle"}
      /\ doing' = "ask" => lines[Current] \in Asks
      /\ UNCHANGED <<link, read_buf, handled, lines>>
  BY DEF SendNewline
<1>2. /\ written \in Seq(Pieces) /\ handled \in Seq(Pieces) /\ read_buf \in Seq(Pieces)
      /\ up \in Seq(Pieces) /\ lines \in Seq(Commands) /\ Newline \in Pieces
  BY PiecesAre DEF TypeOK
<1>3. HandledWhole'
  BY <1>1 DEF HandledWhole
<1>4. CASE link # "open"
  <2>1. UNCHANGED <<up, written>>
    BY <1>4 DEF SendNewline
  <2> QED  BY <1>1, <1>3, <1>4, <2>1 DEF UpFlow, Rest, Numbered, Current
<1>5. CASE link = "open"
  <2>1. up' = Append(up, Newline) /\ written' = Append(written, Newline)
    BY <1>5 DEF SendNewline, Write
  <2>2. UpFlow'
    <3>1. written = handled \o Rest
      BY <1>5 DEF UpFlow
    <3>2. Rest' = Append(Rest, Newline)
      BY <1>1, <1>2, <2>1, AppendInside DEF Rest
    <3>3. Rest \in Seq(Pieces)
      BY <1>2 DEF Rest
    <3>4. Append(handled \o Rest, Newline) = handled \o Append(Rest, Newline)
      BY <1>2, <3>3, AppendInside
    <3> QED  BY <1>1, <1>5, <2>1, <3>1, <3>2, <3>4 DEF UpFlow
  <2>3. Len(written) = 2 * Len(lines) - 1 /\ lines # <<>>
    BY <1>1, <1>5 DEF Numbered
  <2>4. /\ Len(written') = 2 * Len(lines)
        /\ \A k \in 1 .. Len(written) : written'[k] = written[k]
        /\ written'[Len(written) + 1] = Newline
    BY <1>2, <2>1, <2>3
  <2>5. ASSUME NEW i \in 1 .. Len(lines)
        PROVE  /\ 2 * i - 1 <= Len(written') => written'[2 * i - 1] = i
               /\ 2 * i <= Len(written') => written'[2 * i] = Newline
    <3>1. /\ 2 * i - 1 \in 1 .. Len(written)
          /\ 2 * i \in 1 .. Len(written) \/ 2 * i = Len(written) + 1
      <4>1. Len(lines) \in Nat /\ Len(written) \in Nat
        BY <1>2
      <4> QED  BY <2>3, <4>1
    <3>2. 2 * i - 1 <= Len(written) => written[2 * i - 1] = i
      BY DEF Numbered
    <3>3. 2 * i <= Len(written) => written[2 * i] = Newline
      BY DEF Numbered
    <3>4. written'[2 * i - 1] = i
      BY <2>4, <3>1, <3>2
    <3>5. written'[2 * i] = Newline
      BY <2>4, <3>1, <3>3
    <3> QED  BY <3>4, <3>5
  <2> QED  BY <1>1, <1>3, <2>2, <2>3, <2>4, <2>5 DEF Numbered, Current
<1> QED  BY <1>4, <1>5

(* ipc_conn_recv gives a whole line: a text and its newline.                *)
LEMMA LineIs ==
  ASSUME TypeOK, UpFlow, Numbered, HandledWhole, link = "open",
         NEW s \in Seq(Pieces), NEW t \in Seq(Pieces), Rest = s \o t,
         NEW n \in 1 .. Len(s), EndsLine(s, n)
  PROVE  n = 2 /\ s[1] \in 1 .. Len(lines) /\ Len(handled) = 2 * (s[1] - 1)
<1>1. PICK h \in 0 .. Len(lines) : Len(handled) = 2 * h
  BY DEF HandledWhole
<1>2. written = handled \o (s \o t)
  BY DEF UpFlow
<1>3. /\ handled \in Seq(Pieces) /\ lines \in Seq(Commands) /\ Len(lines) \in Nat
      /\ Len(s) \in Nat
  <2>1. handled \in Seq(Pieces) /\ lines \in Seq(Commands)
    BY DEF TypeOK
  <2> QED  BY <2>1
<1>4. /\ Len(written) >= 2 * h + Len(s)
      /\ \A k \in 1 .. Len(s) : written[2 * h + k] = s[k]
  <2> DEFINE st == s \o t
  <2>1. /\ st \in Seq(Pieces) /\ Len(st) >= Len(s) /\ Len(st) \in Nat
        /\ \A k \in 1 .. Len(s) : k \in 1 .. Len(st) /\ st[k] = s[k]
    OBVIOUS
  <2>2. written = handled \o st
    BY <1>2
  <2> HIDE DEF st
  <2>3. /\ Len(written) = Len(handled) + Len(st)
        /\ \A k \in 1 .. Len(st) : written[Len(handled) + k] = st[k]
    BY <1>3, <2>1, <2>2
  <2>4. Len(written) >= 2 * h + Len(s)
    BY <1>1, <1>3, <2>1, <2>3
  <2> QED  BY <1>1, <2>1, <2>3, <2>4
<1>5. Len(written) <= 2 * Len(lines)
  BY <1>3 DEF Numbered
<1>6. h + 1 \in 1 .. Len(lines)
  BY <1>1, <1>3, <1>4, <1>5
<1>7. s[1] = h + 1
  <2>1. 2 * (h + 1) - 1 <= Len(written) /\ 2 * (h + 1) - 1 = 2 * h + 1
    BY <1>1, <1>3, <1>4
  <2>2. written[2 * (h + 1) - 1] = h + 1
    BY <1>6, <2>1 DEF Numbered
  <2> QED  BY <1>4, <2>1, <2>2
<1>8. n # 1
  BY <1>1, <1>7 DEF EndsLine, Newline
<1>9. n >= 2 /\ s[2] = Newline
  <2>1. n >= 2 /\ 2 * (h + 1) <= Len(written) /\ 2 * (h + 1) = 2 * h + 2 /\ 2 \in 1 .. Len(s)
    BY <1>1, <1>3, <1>4, <1>8
  <2>2. written[2 * (h + 1)] = Newline
    BY <1>6, <2>1 DEF Numbered
  <2> QED  BY <1>4, <2>1, <2>2
<1>10. n = 2
  BY <1>9 DEF EndsLine
<1> QED  BY <1>1, <1>6, <1>7, <1>10

LEMMA ReadableUp ==
  ASSUME TypeOK, UpFlow, Numbered, HandledWhole, Readable
  PROVE  UpFlow' /\ Numbered' /\ HandledWhole'
<1>1. PICK s \in Seq(Pieces), reply \in Seq(Pieces) :
        \E n \in 1 .. Len(s) : ReadLine(s, n, reply)
  BY ReadableIs
<1>2. PICK n \in 1 .. Len(s) : ReadLine(s, n, reply)
  BY <1>1
<1> DEFINE front == SubSeq(s, 1, n)
           back == After(s, n)
<1>3. /\ Rest = s \o up' /\ up' \in Seq(Pieces) /\ EndsLine(s, n)
      /\ read_buf' = back /\ handled' = handled \o front
  BY <1>2 DEF ReadLine
<1>4. link = "open" /\ UNCHANGED <<link, written, lines, doing>>
  BY DEF Readable, sdk
<1>5. n \in 0 .. Len(s)
  OBVIOUS
<1>6. /\ s \o up' = front \o (back \o up')
      /\ front \in Seq(Pieces) /\ back \in Seq(Pieces) /\ Len(front) = n
  BY <1>3, <1>5, Split, SplitTail
<1> HIDE DEF front, back
<1>7. UpFlow'
  <2> DEFINE tail == back \o up'
  <2>1. tail \in Seq(Pieces) /\ handled \in Seq(Pieces)
    BY <1>3, <1>6 DEF TypeOK
  <2>2. written = handled \o (front \o tail)
    BY <1>3, <1>4, <1>6 DEF UpFlow
  <2>3. Rest' = tail
    BY <1>3 DEF Rest
  <2> HIDE DEF tail
  <2>4. (handled \o front) \o tail = handled \o (front \o tail)
    <3>1. front \in Seq(Pieces)
      BY <1>6
    <3>2. Assoc(handled, front, tail)
      BY <2>1, <3>1, RegroupAs
    <3> QED  BY <3>2 DEF Assoc
  <2> QED  BY <1>3, <1>4, <2>2, <2>3, <2>4 DEF UpFlow
<1>8. Numbered'
  BY <1>4 DEF Numbered, Current
<1>9. HandledWhole'
  <2>1. n = 2 /\ s[1] \in 1 .. Len(lines) /\ Len(handled) = 2 * (s[1] - 1)
    BY <1>3, <1>4, LineIs
  <2>2. Len(handled') = 2 * s[1]
    <3>1. handled \in Seq(Pieces) /\ front \in Seq(Pieces) /\ Len(front) = n
      BY <1>6 DEF TypeOK
    <3>2. Len(handled \o front) = Len(handled) + n
      BY <3>1, LenOfBoth
    <3>3. s[1] \in Nat  BY <2>1
    <3> QED  BY <1>3, <2>1, <3>2, <3>3
  <2>3. s[1] \in 0 .. Len(lines')
    <3>1. lines' = lines /\ Len(lines) \in Nat
      BY <1>4 DEF TypeOK
    <3> QED  BY <2>1, <3>1
  <2>4. \E h \in 0 .. Len(lines') : Len(handled') = 2 * h
    BY <2>2, <2>3
  <2> QED  BY <2>4 DEF HandledWhole
<1> QED  BY <1>7, <1>8, <1>9

LEMMA UpStep ==
  ASSUME TypeOK, UpFlow, Numbered, HandledWhole, [Next]_vars
  PROVE  UpFlow' /\ Numbered' /\ HandledWhole'
<1>1. ASSUME NEW c \in Commands, Send(c) PROVE UpFlow' /\ Numbered' /\ HandledWhole'
  BY <1>1, SendTextUp DEF Send
<1>2. CASE Respond
  <2>1. CASE SendText("http_response")
    BY <2>1, SendTextUp DEF Commands
  <2>2. CASE UNCHANGED <<link, inbound, outbound, armed, mode, doing, lines, received>>
    BY <2>2 DEF inbound, UpFlow, Rest, Numbered, HandledWhole, Current
  <2> QED  BY <1>2, <2>1, <2>2 DEF Respond
<1>3. CASE SendNewline
  BY <1>3, SendNewlineUp
<1>4. CASE Receive
  <2>1. /\ UNCHANGED <<link, inbound, lines>>
        /\ doing' = doing \/ (doing # "newline" /\ doing' \in {"idle", "gone"})
    BY <1>4 DEF Receive, TakeLine, TooLong, ReadSocket, EndOfFile, Failed, Reading, sdk
  <2> QED  BY <2>1 DEF inbound, UpFlow, Rest, Numbered, HandledWhole, Current
<1>5. CASE EnterLoop \/ Poll
  <2>1. /\ UNCHANGED <<link, inbound, lines>> /\ doing = "idle" /\ doing' \in {"idle", "poll"}
    BY <1>5 DEF EnterLoop, Poll
  <2> QED  BY <2>1 DEF inbound, UpFlow, Rest, Numbered, HandledWhole, Current
<1>6. CASE Leave
  <2>1. /\ UNCHANGED <<inbound, lines>> /\ doing' = "gone"
        /\ link' # "open" /\ (link' = "closed" <=> link = "closed")
    BY <1>6 DEF Leave, TypeOK
  <2> QED  BY <2>1 DEF inbound, UpFlow, Rest, Numbered, HandledWhole
<1>7. CASE Readable
  BY <1>7, ReadableUp
<1>8. CASE Disconnect
  <2>1. /\ link' = "closed" /\ up' = <<>> /\ read_buf' = <<>>
        /\ UNCHANGED <<written, handled, lines, doing>>
    BY <1>8 DEF Disconnect, sdk
  <2> QED  BY <2>1 DEF UpFlow, Numbered, HandledWhole, Current
<1>9. CASE Writable \/ (\E p \in Pushes : Forward(p)) \/ UNCHANGED vars
  <2>1. UNCHANGED <<link, inbound, lines, doing>>
    BY <1>9 DEF Writable, Forward, vars, sdk
  <2> QED  BY <2>1 DEF inbound, UpFlow, Rest, Numbered, HandledWhole, Current
<1> QED
  BY <1>1, <1>2, <1>3, <1>4, <1>5, <1>6, <1>7, <1>8, <1>9 DEF Next, Plugin, Core

-----------------------------------------------------------------------------
(* The way to the plugin.                                                   *)
TakenOff(t, b, d, l, n) ==
  t \o ((b \o d) \o l) = (t \o SubSeq(b, 1, n)) \o ((After(b, n) \o d) \o l)

LEMMA TakenIs ==
  ASSUME NEW t \in Seq(Pieces), NEW b \in Seq(Pieces), NEW d \in Seq(Pieces),
         NEW l \in Seq(Pieces), NEW n \in 0 .. Len(b)
  PROVE  TakenOff(t, b, d, l, n)
<1> DEFINE whole == b \o d
           front == SubSeq(whole, 1, n)
           back == After(whole, n)
           rest == back \o l
<1>1. front = SubSeq(b, 1, n) /\ back = After(b, n) \o d
  BY Front, AfterWithMore
<1>2. whole \in Seq(Pieces) /\ n \in 0 .. Len(whole)
  OBVIOUS
<1> HIDE DEF whole
<1>3. front \in Seq(Pieces) /\ back \in Seq(Pieces) /\ whole \o l = front \o rest
  BY <1>2, Split, SplitTail
<1> HIDE DEF front, back
<1>4. rest \in Seq(Pieces) /\ front \in Seq(Pieces)
  BY <1>3
<1> HIDE DEF rest
<1>5. (t \o front) \o rest = t \o (front \o rest)
  <2>1. Assoc(t, front, rest)
    BY <1>4, RegroupAs
  <2> QED  BY <2>1 DEF Assoc
<1>6. t \o (whole \o l) = (t \o front) \o rest
  BY <1>3, <1>5
<1>7. rest = (After(b, n) \o d) \o l
  BY <1>1 DEF rest
<1> QED  BY <1>1, <1>6, <1>7 DEF TakenOff, whole

LEMMA DownStep ==
  ASSUME TypeOK, DownFlow, [Next]_vars
  PROVE  DownFlow'
<1> DEFINE Same == /\ UNCHANGED <<queued, taken, Coming, Pending>>
                   /\ link' # "closed" => link # "closed"
<1>1. ASSUME Same PROVE DownFlow'
  BY <1>1 DEF DownFlow
<1>2. ASSUME link = "open", link' = "open", NEW reply \in Seq(Pieces), Moves(reply)
      PROVE  DownFlow'
  <2>1. queued = taken \o (Coming \o Pending)
    BY <1>2 DEF DownFlow
  <2>2. queued' = taken' \o (Coming' \o Pending') /\ Pending' \in Seq(Pieces)
    BY <1>2, <2>1 DEF Moves
  <2> QED  BY <2>2 DEF DownFlow
<1>3. ASSUME NEW n \in 0 .. Len(ipc_buf),
             taken' = taken \o SubSeq(ipc_buf, 1, n), ipc_buf' = After(ipc_buf, n),
             UNCHANGED <<queued, down, Pending, link>>
      PROVE  DownFlow'
  <2>1. PICK lost \in Seq(Pieces) : /\ queued = taken \o (Coming \o lost)
                                    /\ link # "closed" => lost = Pending
    BY DEF DownFlow
  <2>2. TakenOff(taken, ipc_buf, down, lost, n)
    BY TakenIs DEF TypeOK
  <2>3. queued' = taken' \o (Coming' \o lost)
    BY <1>3, <2>1, <2>2 DEF TakenOff, Coming
  <2>4. link' # "closed" => lost = Pending'
    BY <1>3, <2>1
  <2> QED  BY <2>3, <2>4 DEF DownFlow
<1>4. CASE (\E c \in Commands : Send(c)) \/ Respond \/ SendNewline \/ EnterLoop \/ Poll
             \/ EndOfFile
  BY <1>1, <1>4
  DEF Send, Respond, SendText, SendNewline, EnterLoop, Poll, EndOfFile, outbound, received,
      Coming, Pending
<1>5. CASE Leave
  BY <1>1, <1>5 DEF Leave, TypeOK, outbound, received, Coming, Pending
<1>6. CASE TakeLine
  <2>1. PICK n \in 1 .. Len(ipc_buf) : \E line : Got(line, n)
    BY <1>6, TakeLineIs
  <2>2. /\ n \in 0 .. Len(ipc_buf)
        /\ taken' = taken \o SubSeq(ipc_buf, 1, n) /\ ipc_buf' = After(ipc_buf, n)
    BY <2>1 DEF Got
  <2>3. UNCHANGED <<queued, down, Pending, link>>
    BY <1>6 DEF TakeLine, outbound, Pending
  <2> QED  BY <1>3, <2>2, <2>3
<1>7. CASE TooLong
  <2> DEFINE n == Len(ipc_buf)
  <2>1. n \in 0 .. Len(ipc_buf) /\ SubSeq(ipc_buf, 1, n) = ipc_buf
    BY SubSeqFull DEF TypeOK
  <2>2. After(ipc_buf, n) = <<>>
    <3>1. After(ipc_buf, n) \in Seq(Pieces) /\ Len(After(ipc_buf, n)) = Len(ipc_buf) - n
      BY <2>1, Split DEF TypeOK
    <3>2. Len(ipc_buf) - n = 0
      BY <2>1 DEF TypeOK
    <3> QED  BY <3>1, <3>2, EmptyIs
  <2>3. /\ taken' = taken \o SubSeq(ipc_buf, 1, n) /\ ipc_buf' = After(ipc_buf, n)
        /\ UNCHANGED <<queued, down, Pending, link>>
    BY <1>7, <2>1, <2>2 DEF TooLong, outbound, Pending
  <2> HIDE DEF n
  <2> QED  BY <1>3, <2>1, <2>3
<1>8. CASE ReadSocket
  <2>1. PICK n \in DOMAIN down : /\ ipc_buf' = ipc_buf \o SubSeq(down, 1, n)
                                 /\ down' = After(down, n)
    BY <1>8 DEF ReadSocket
  <2> DEFINE front == SubSeq(down, 1, n)
  <2>2. /\ ipc_buf \in Seq(Pieces) /\ down \in Seq(Pieces) /\ n \in 0 .. Len(down)
    <3>1. ipc_buf \in Seq(Pieces) /\ down \in Seq(Pieces)
      BY DEF TypeOK
    <3> QED  BY <2>1, <3>1
  <2>3. front \in Seq(Pieces) /\ down' \in Seq(Pieces) /\ down = front \o down'
    BY <2>1, <2>2, Split
  <2>4. ipc_buf' = ipc_buf \o front
    BY <2>1
  <2> HIDE DEF front
  <2>5. Coming' = Coming
    BY <2>2, <2>3, <2>4, Regroup DEF Coming
  <2>6. UNCHANGED <<link, queued, taken, Pending>>
    BY <1>8 DEF ReadSocket, Pending
  <2> QED  BY <1>1, <2>5, <2>6
<1>9. CASE Writable
  <2>1. /\ Flush(out_buf \o <<>>) /\ queued' = queued \o <<>> /\ <<>> \in Seq(Pieces)
        /\ UNCHANGED <<ipc_buf, taken>> /\ link = "open" /\ link' = "open"
    BY <1>9, NothingIsAdded DEF Writable, received, TypeOK
  <2>2. Moves(<<>>)
    BY <2>1, OutFlows
  <2> QED  BY <1>2, <2>1, <2>2
<1>10. CASE Readable
  <2>1. PICK s \in Seq(Pieces), reply \in Seq(Pieces) :
          \E n \in 1 .. Len(s) : ReadLine(s, n, reply)
    BY <1>10, ReadableIs
  <2>2. /\ UNCHANGED <<ipc_buf, taken>> /\ queued' = queued \o reply /\ Replied(reply)
        /\ link = "open" /\ link' = "open"
    BY <1>10, <2>1 DEF Readable, ReadLine, received
  <2>3. Moves(reply)
    BY <2>2, ReplyMoves
  <2> QED  BY <1>2, <2>2, <2>3
<1>11. CASE Disconnect
  <2>1. link' = "closed" /\ UNCHANGED <<queued, taken, Coming>>
    BY <1>11 DEF Disconnect, received, Coming
  <2> QED  BY <2>1 DEF DownFlow
<1>12. ASSUME NEW p \in Pushes, Forward(p) PROVE DownFlow'
  <2> DEFINE message == Message(<<p>>)
  <2>1. /\ message \in Seq(Pieces)
        /\ queued' = queued \o message /\ Flush(out_buf \o message)
        /\ UNCHANGED <<ipc_buf, taken>> /\ link = "open" /\ link' = "open"
    BY <1>12, PushIs DEF Forward, received
  <2> HIDE DEF message
  <2>2. Moves(message)
    BY <2>1, OutFlows
  <2> QED  BY <1>2, <2>1, <2>2
<1>13. CASE UNCHANGED vars
  BY <1>1, <1>13 DEF vars, outbound, received, Coming, Pending
<1> QED
  BY <1>4, <1>5, <1>6, <1>7, <1>8, <1>9, <1>10, <1>11, <1>12, <1>13
  DEF Next, Plugin, Core, Receive

-----------------------------------------------------------------------------
(* What is queued, and what a request waits for.                            *)
LEMMA RepliesFollowStep ==
  ASSUME TypeOK, UpFlow, Numbered, HandledWhole, RepliesFollow, [Next]_vars
  PROVE  RepliesFollow'
<1>0. queued \in Seq(Pieces) /\ handled \in Seq(Pieces)
  BY DEF TypeOK
<1>1. CASE Readable
  <2>1. PICK s \in Seq(Pieces), reply \in Seq(Pieces) :
          \E n \in 1 .. Len(s) : ReadLine(s, n, reply)
    BY <1>1, ReadableIs
  <2>2. PICK n \in 1 .. Len(s) : ReadLine(s, n, reply)
    BY <2>1
  <2>3. /\ Rest = s \o up' /\ up' \in Seq(Pieces) /\ EndsLine(s, n) /\ link = "open"
        /\ handled' = handled \o SubSeq(s, 1, n)
        /\ reply \in Handle(s[1]) /\ queued' = queued \o reply
    BY <1>1, <2>2 DEF ReadLine, Readable
  <2>4. /\ n = 2 /\ s[1] \in 1 .. Len(lines) /\ Len(handled) = 2 * (s[1] - 1)
        /\ s[1] \in Pieces
    <3>1. s[1] \in Pieces
      OBVIOUS
    <3> QED  BY <2>3, <3>1, LineIs
  <2>5. Len(handled') = 2 * s[1]
    <3>1. SubSeq(s, 1, n) \in Seq(Pieces) /\ Len(SubSeq(s, 1, n)) = n
      <4>1. n \in 0 .. Len(s)  OBVIOUS
      <4> QED  BY <4>1, Split
    <3>2. Len(handled') = Len(handled) + n
      BY <1>0, <2>3, <3>1, LenOfBoth
    <3> QED  BY <2>4, <3>2
  <2>6. ASSUME NEW i \in 1 .. MaxLines, IsIn(i, queued')
        PROVE  2 * i <= Len(handled')
    <3>1. IsIn(i, queued) \/ IsIn(i, reply)
      BY <1>0, <2>3, <2>6, IsInBoth
    <3>2. CASE IsIn(i, queued)
      BY <2>4, <2>5, <3>2 DEF RepliesFollow
    <3>3. CASE IsIn(i, reply)
      <4>1. i = s[1]
        BY <2>3, <2>4, <3>3, HandleIs DEF Newline
      <4> QED  BY <2>4, <2>5, <4>1
    <3> QED  BY <3>1, <3>2, <3>3
  <2> QED  BY <2>6 DEF RepliesFollow, IsIn
<1>2. ASSUME NEW p \in Pushes, Forward(p) PROVE RepliesFollow'
  <2>1. /\ queued' = queued \o Message(<<p>>) /\ handled' = handled
        /\ Message(<<p>>) \in Seq(Pieces)
    BY <1>2, PushIs DEF Forward, inbound
  <2>2. \A i \in 1 .. MaxLines : ~IsIn(i, Message(<<p>>))
    BY <1>2, PushIs
  <2>3. \A i \in 1 .. MaxLines : IsIn(i, queued \o Message(<<p>>)) => IsIn(i, queued)
    BY <1>0, <2>1, <2>2, IsInBoth
  <2> QED  BY <2>1, <2>3 DEF RepliesFollow, IsIn
<1>3. CASE UNCHANGED <<queued, handled>>
  BY <1>3 DEF RepliesFollow, IsIn
<1> QED
  BY <1>1, <1>2, <1>3
  DEF Next, Plugin, Core, Receive, Send, Respond, SendText, SendNewline, EnterLoop, Poll, Leave,
      TakeLine, TooLong, ReadSocket, EndOfFile, Writable, Disconnect, vars, inbound, outbound

LEMMA WillComeReadable ==
  ASSUME TypeOK, UpFlow, Numbered, HandledWhole, RepliesFollow, WillCome, Readable
  PROVE  WillCome'
<1> SUFFICES ASSUME doing' = "ask"
             PROVE  \/ IsIn(Current, Rest)' \/ Ignored'
                    \/ HasLine(Coming') \/ (armed' /\ HasLine(Pending'))
  BY DEF WillCome
<1>1. /\ link = "open" /\ doing = "ask" /\ UNCHANGED <<lines, Current, ipc_buf, taken>>
      /\ armed' = (armed \/ HasPending(out_buf', out_pos'))
  BY DEF Readable, Arm, sdk, received, Current
<1>2. PICK s \in Seq(Pieces), reply \in Seq(Pieces) :
        \E n \in 1 .. Len(s) : ReadLine(s, n, reply)
  BY ReadableIs
<1>3. PICK n \in 1 .. Len(s) : ReadLine(s, n, reply)
  BY <1>2
<1> DEFINE front == SubSeq(s, 1, n)
           back == After(s, n)
<1>4. /\ Rest = s \o up' /\ up' \in Seq(Pieces) /\ EndsLine(s, n)
      /\ read_buf' = back /\ reply \in Handle(s[1])
      /\ queued' = queued \o reply /\ Replied(reply)
  BY <1>3 DEF ReadLine
<1>5. Moves(reply)
  BY <1>1, <1>4, ReplyMoves
<1>6. HasLine(Pending') => armed'
  <2>1. HasLine(Pending') => Pending' # <<>>
    BY DEF HasLine
  <2> QED  BY <1>1, <1>5, <2>1 DEF Moves
<1>7. /\ n = 2 /\ s[1] \in 1 .. Len(lines) /\ Len(handled) = 2 * (s[1] - 1)
      /\ s[1] \in Pieces
  <2>1. s[1] \in Pieces
    OBVIOUS
  <2> QED  BY <1>1, <1>4, <2>1, LineIs
<1>8. /\ front \in Seq(Pieces) /\ back \in Seq(Pieces) /\ Len(front) = n
      /\ Rest = front \o (back \o up')
      /\ \A i \in 1 .. n : front[i] = s[i]
  <2>1. n \in 0 .. Len(s)  OBVIOUS
  <2>2. front \in Seq(Pieces) /\ back \in Seq(Pieces) /\ Len(front) = n
    BY <2>1, Split
  <2>3. s \o up' = front \o (back \o up')
    BY <1>4, <2>1, SplitTail
  <2>4. \A i \in 1 .. n : front[i] = s[i]
    OBVIOUS
  <2> HIDE DEF front, back
  <2> QED  BY <1>4, <2>2, <2>3, <2>4
<1>9. Rest' = back \o up'
  BY <1>4 DEF Rest
<1> HIDE DEF front, back
<1>10. Rest' \in Seq(Pieces) /\ (IsIn(Current, Rest) <=> IsIn(Current, front) \/ IsIn(Current, Rest'))
  <2>1. Rest' \in Seq(Pieces) /\ Rest = front \o Rest'
    BY <1>4, <1>8, <1>9
  <2>2. IsIn(Current, front \o Rest') <=> IsIn(Current, front) \/ IsIn(Current, Rest')
    BY <1>8, <2>1, IsInBoth
  <2> QED  BY <2>1, <2>2
<1>11. /\ Current # Newline /\ lines[Current] \in Asks /\ Current \in 1 .. MaxLines
       /\ queued \in Seq(Pieces)
  BY <1>1 DEF Numbered, Current, Newline, TypeOK
<1>12. CASE IsIn(Current, Rest) /\ IsIn(Current, Rest')
  BY <1>1, <1>12 DEF IsIn
<1>13. CASE IsIn(Current, front)
  <2>1. PICK i \in 1 .. 2 : s[i] = Current
    BY <1>7, <1>8, <1>13 DEF IsIn
  <2>2. s[1] = Current
    <3>1. s[2] = Newline
      BY <1>4, <1>7 DEF EndsLine
    <3> QED  BY <1>11, <2>1, <3>1
  <2>3. HasLine(reply) \/ (reply = <<>> /\ lines[Current] \in MayBeIgnored)
    BY <1>4, <1>7, <1>11, <2>2, HandleIs DEF Asks, MayBeIgnored
  <2>4. CASE HasLine(reply)
    BY <1>5, <1>6, <2>4 DEF Moves
  <2>5. CASE reply = <<>> /\ lines[Current] \in MayBeIgnored
    <3>1. ~(2 * Current <= Len(handled))
      BY <1>7, <1>11, <2>2
    <3>2. ~IsIn(Current, queued) /\ queued' = queued
      BY <1>4, <1>11, <2>5, <3>1, NothingIsAdded DEF RepliesFollow
    <3> QED  BY <1>1, <2>5, <3>2 DEF Ignored, IsIn
  <2> QED  BY <2>3, <2>4, <2>5
<1>14. CASE Ignored /\ ~IsIn(Current, front)
  <2>1. s[1] # Current
    <3>1. 1 \in DOMAIN front /\ front[1] = s[1]
      BY <1>7, <1>8
    <3> QED  BY <1>14, <3>1 DEF IsIn
  <2>2. ~IsIn(Current, reply)
    BY <1>4, <1>7, <1>11, <2>1, HandleIs
  <2>3. ~IsIn(Current, queued \o reply)
    BY <1>11, <1>14, <2>2, IsInBoth DEF Ignored
  <2> QED  BY <1>1, <1>4, <1>14, <2>3 DEF Ignored, IsIn
<1>15. CASE HasLine(Coming) \/ (armed /\ HasLine(Pending))
  BY <1>5, <1>6, <1>15 DEF Moves
<1> QED  BY <1>1, <1>10, <1>12, <1>13, <1>14, <1>15 DEF WillCome

LEMMA WillComeStep ==
  ASSUME TypeOK, UpFlow, Numbered, HandledWhole, RepliesFollow, WillCome, [Next]_vars
  PROVE  WillCome'
<1>1. CASE (\E c \in Commands : Send(c)) \/ Respond \/ EnterLoop \/ Poll \/ Leave
             \/ TakeLine \/ TooLong \/ EndOfFile
  <2>1. doing' # "ask"
    BY <1>1 DEF Send, Respond, SendText, EnterLoop, Poll, Leave, TakeLine, TooLong, EndOfFile,
                Failed
  <2> QED  BY <2>1 DEF WillCome
<1>2. CASE SendNewline
  <2> SUFFICES ASSUME doing' = "ask", link = "open" PROVE IsIn(Current, Rest)'
    BY <1>2 DEF WillCome, SendNewline
  <2>1. /\ doing = "newline" /\ up' = Append(up, Newline) /\ UNCHANGED <<read_buf, lines>>
    BY <1>2 DEF SendNewline, Write
  <2>2. /\ handled \in Seq(Pieces) /\ read_buf \in Seq(Pieces) /\ up \in Seq(Pieces)
        /\ lines \in Seq(Commands) /\ lines # <<>> /\ Newline \in Pieces
    BY <2>1, PiecesAre DEF Numbered, TypeOK
  <2>3. Rest \in Seq(Pieces) /\ Rest' = Append(Rest, Newline)
    <3>1. Append(read_buf \o up, Newline) = read_buf \o Append(up, Newline)
      BY <2>2, AppendInside
    <3>2. read_buf \o up \in Seq(Pieces)
      BY <2>2
    <3> QED  BY <2>1, <3>1, <3>2 DEF Rest
  <2>4. PICK h \in 0 .. Len(lines) : Len(handled) = 2 * h
    BY DEF HandledWhole
  <2>5. Len(written) = 2 * Len(lines) - 1 /\ written = handled \o Rest
    BY <2>1 DEF Numbered, UpFlow
  <2>6. Len(written) = Len(handled) + Len(Rest)
    BY <2>2, <2>3, <2>5, LenOfBoth
  <2>7. Len(lines) \in Nat \ {0} /\ Len(Rest) \in Nat
    BY <2>2, <2>3
  <2>8. Len(Rest) # 0
    BY <2>4, <2>5, <2>6, <2>7
  <2>9. written[Len(written)] = Rest[Len(Rest)]
    <3>1. /\ Len(handled) \in Nat /\ Len(Rest) \in 1 .. Len(Rest)
          /\ Len(written) = Len(handled) + Len(Rest)
      BY <2>2, <2>6, <2>7, <2>8
    <3>2. \A k \in 1 .. Len(Rest) : (handled \o Rest)[Len(handled) + k] = Rest[k]
      BY <2>2, <2>3
    <3> QED  BY <2>5, <3>1, <3>2
  <2>10. written[2 * Len(lines) - 1] = Len(lines)
    BY <2>5, <2>7 DEF Numbered
  <2>11. Rest[Len(Rest)] = Current
    BY <2>5, <2>9, <2>10 DEF Current
  <2>12. Len(Rest) \in DOMAIN Rest' /\ Rest'[Len(Rest)] = Current
    BY <2>2, <2>3, <2>7, <2>8, <2>11
  <2>13. Current' = Current
    BY <2>1 DEF Current
  <2> QED  BY <2>12, <2>13 DEF IsIn
<1>3. CASE Readable
  BY <1>3, WillComeReadable
<1>4. CASE Disconnect
  BY <1>4 DEF Disconnect, WillCome
<1>5. CASE ReadSocket
  <2>1. PICK n \in DOMAIN down : /\ ipc_buf' = ipc_buf \o SubSeq(down, 1, n)
                                 /\ down' = After(down, n)
    BY <1>5 DEF ReadSocket
  <2> DEFINE front == SubSeq(down, 1, n)
  <2>2. /\ ipc_buf \in Seq(Pieces) /\ down \in Seq(Pieces) /\ n \in 0 .. Len(down)
    <3>1. ipc_buf \in Seq(Pieces) /\ down \in Seq(Pieces)
      BY DEF TypeOK
    <3> QED  BY <2>1, <3>1
  <2>3. front \in Seq(Pieces) /\ down' \in Seq(Pieces) /\ down = front \o down'
    BY <2>1, <2>2, Split
  <2>4. ipc_buf' = ipc_buf \o front
    BY <2>1
  <2> HIDE DEF front
  <2>5. Coming' = Coming
    BY <2>2, <2>3, <2>4, Regroup DEF Coming
  <2>6. UNCHANGED <<link, armed, doing, Rest, Current, Pending, Ignored>>
    BY <1>5 DEF ReadSocket, inbound, sdk, Rest, Current, Pending, Ignored, IsIn
  <2> QED  BY <2>5, <2>6 DEF WillCome
<1>6. CASE Writable
  <2>1. /\ Flush(out_buf \o <<>>) /\ queued' = queued \o <<>> /\ <<>> \in Seq(Pieces)
        /\ UNCHANGED <<ipc_buf, taken, link, doing, lines, Rest, Current>>
        /\ armed' = HasPending(out_buf', out_pos')
    BY <1>6, NothingIsAdded DEF Writable, inbound, sdk, received, TypeOK, Rest, Current
  <2>2. Moves(<<>>)
    BY <2>1, OutFlows
  <2>3. HasLine(Pending') => armed'
    <3>1. HasLine(Pending') => Pending' # <<>>  BY DEF HasLine
    <3> QED  BY <2>1, <2>2, <3>1 DEF Moves
  <2>4. Ignored' = Ignored
    BY <1>6 DEF Writable, sdk, Ignored, Current, IsIn
  <2> QED  BY <2>1, <2>2, <2>3, <2>4 DEF Moves, WillCome
<1>7. ASSUME NEW p \in Pushes, Forward(p) PROVE WillCome'
  <2> DEFINE message == Message(<<p>>)
  <2>1. /\ message \in Seq(Pieces)
        /\ queued' = queued \o message /\ Flush(out_buf \o message)
        /\ UNCHANGED <<ipc_buf, taken, link, doing, lines, Rest, Current, armed>>
    BY <1>7, PushIs DEF Forward, inbound, sdk, received, Rest, Current
  <2> HIDE DEF message
  <2>2. Moves(message)
    BY <2>1, OutFlows
  <2>3. doing = "ask" /\ Ignored => Ignored'
    <3>1. SUFFICES ASSUME doing = "ask", ~IsIn(Current, queued)
                   PROVE  ~IsIn(Current, queued \o message)
      BY <2>1 DEF Ignored, IsIn
    <3>2. Current \in 1 .. MaxLines /\ queued \in Seq(Pieces)
      BY <3>1 DEF Numbered, Current, TypeOK
    <3>3. ~IsIn(Current, message)
      BY <1>7, <3>2, PushIs DEF message
    <3> QED  BY <2>1, <3>1, <3>2, <3>3, IsInBoth
  <2> QED  BY <2>1, <2>2, <2>3 DEF Moves, WillCome
<1>8. CASE UNCHANGED vars
  BY <1>8 DEF vars, inbound, outbound, sdk, received, WillCome, Rest, Coming, Pending, Current,
              Ignored, IsIn
<1> QED
  BY <1>1, <1>2, <1>3, <1>4, <1>5, <1>6, <1>7, <1>8 DEF Next, Plugin, Core, Receive

-----------------------------------------------------------------------------
ChannelInv == /\ TypeOK /\ UpFlow /\ Numbered /\ HandledWhole /\ DownFlow
              /\ RepliesFollow /\ WillCome

LEMMA ChannelInvHolds == Spec => []ChannelInv
<1>1. Init => ChannelInv
  <2> SUFFICES ASSUME Init PROVE ChannelInv
    OBVIOUS
  <2>1. TypeOK
    BY InitType
  <2>2. UpFlow /\ HandledWhole
    BY DEF Init, UpFlow, Rest, HandledWhole
  <2>3. Numbered
    BY DEF Init, Numbered
  <2>4. DownFlow
    <3>1. ~HasPending(out_buf, out_pos)
      BY DEF Init, HasPending
    <3>2. Pending = <<>> /\ <<>> \in Seq(Pieces)
      BY <2>1, <3>1, PendingIs
    <3>3. queued = taken \o (Coming \o <<>>)
      BY DEF Init, Coming
    <3> QED  BY <3>2, <3>3 DEF DownFlow
  <2>5. RepliesFollow /\ WillCome
    BY DEF Init, RepliesFollow, WillCome, IsIn
  <2> QED  BY <2>1, <2>2, <2>3, <2>4, <2>5 DEF ChannelInv
<1>2. ChannelInv /\ [Next]_vars => ChannelInv'
  BY TypeStep, UpStep, DownStep, RepliesFollowStep, WillComeStep DEF ChannelInv
<1> QED  BY <1>1, <1>2, PTL DEF Spec

LEMMA Grown ==
  ASSUME NEW s \in Seq(Pieces), NEW u \in Seq(Pieces)
  PROVE  /\ s \o u \in Seq(Pieces) /\ Len(s \o u) >= Len(s)
         /\ SubSeq(s \o u, 1, Len(s)) = s
<1>1. SubSeq(s \o u, 1, Len(s)) = SubSeq(s, 1, Len(s))
  BY Front
<1>2. SubSeq(s, 1, Len(s)) = s
  BY SubSeqFull
<1> QED  BY <1>1, <1>2

(* What is taken from the front of what is still to come.                   *)
FrontOfAll(sent, got, s, n) ==
  /\ Len(got) + n \in Len(got) + 1 .. Len(sent)
  /\ got \o SubSeq(s, 1, n) = SubSeq(sent, 1, Len(got) + n)
  /\ \A k \in 1 .. Len(s) : sent[Len(got) + k] = s[k]

LEMMA FrontIs ==
  ASSUME NEW got \in Seq(Pieces), NEW s \in Seq(Pieces), NEW more \in Seq(Pieces),
         NEW n \in 1 .. Len(s)
  PROVE  FrontOfAll(got \o (s \o more), got, s, n)
<1> DEFINE all == s \o more
           sent == got \o all
           front == SubSeq(s, 1, n)
           back == After(s, n)
<1>1. /\ all \in Seq(Pieces) /\ Len(all) = Len(s) + Len(more)
      /\ \A k \in 1 .. Len(s) : all[k] = s[k]
  OBVIOUS
<1>2. n \in 0 .. Len(s) /\ Len(s) \in Nat /\ Len(more) \in Nat /\ Len(got) \in Nat
  OBVIOUS
<1>3. /\ front \in Seq(Pieces) /\ Len(front) = n /\ back \in Seq(Pieces)
      /\ all = front \o (back \o more)
  BY <1>2, Split, SplitTail
<1> HIDE DEF all, front, back
<1>4. /\ Len(sent) = Len(got) + Len(all)
      /\ \A k \in 1 .. Len(all) : sent[Len(got) + k] = all[k]
  <2>1. all \in Seq(Pieces)
    BY <1>1
  <2> QED  BY <2>1, LenOfBoth
<1>5. \A k \in 1 .. Len(s) : sent[Len(got) + k] = s[k]
  BY <1>1, <1>2, <1>4
<1>6. Len(got) + n \in Len(got) + 1 .. Len(sent)
  BY <1>1, <1>2, <1>4
<1> DEFINE tail == back \o more
           head == got \o front
<1>7. tail \in Seq(Pieces) /\ front \in Seq(Pieces)
  BY <1>3
<1>8. all = front \o tail
  BY <1>3
<1>9. head \in Seq(Pieces) /\ Len(head) = Len(got) + n
  BY <1>3, LenOfBoth
<1> HIDE DEF tail
<1>10. head \o tail = got \o (front \o tail)
  <2>1. Assoc(got, front, tail)
    BY <1>7, RegroupAs
  <2> QED  BY <2>1 DEF Assoc, head
<1>11. sent = head \o tail
  BY <1>8, <1>10
<1> HIDE DEF head, sent
<1>12. SubSeq(head \o tail, 1, Len(head)) = head
  BY <1>7, <1>9, Grown
<1>13. SubSeq(sent, 1, Len(got) + n) = head
  BY <1>9, <1>11, <1>12
<1> QED  BY <1>5, <1>6, <1>13 DEF FrontOfAll, sent, head, front, all

(* The core handles what the SDK writes line by line, in order, every line  *)
(* whole and once, however long a line waits in read_buf and wherever a     *)
(* read cuts the stream (ipc_conn_recv, handle_client_event).               *)
THEOREM UpCarried == Spec => CarriesUp
<1>1. Init => ToCore!PInit
  BY DEF Init, ToCore!PInit
<1>2. ASSUME ChannelInv, [Next]_vars
      PROVE  [ToCore!Put \/ ToCore!Take]_<<written, handled>>
  <2>1. written \in Seq(Pieces) /\ handled \in Seq(Pieces)
    BY <1>2 DEF ChannelInv, TypeOK
  <2>2. ASSUME NEW e \in Pieces, written' = Append(written, e), UNCHANGED handled
        PROVE  ToCore!Put
    <3>1. written' = written \o <<e>> /\ <<e>> \in Seq(Pieces)
      BY <2>1, <2>2, AppendIsConcat
    <3>2. /\ written' \in Seq(Pieces) /\ Len(written') >= Len(written)
          /\ SubSeq(written', 1, Len(written)) = written
      BY <2>1, <3>1, Grown
    <3> QED  BY <2>2, <3>2 DEF ToCore!Put, Pieces
  <2>3. ASSUME NEW c \in Commands, SendText(c) PROVE ToCore!Put
    <3>1. Len(lines) < MaxLines /\ written' = Append(written, Len(lines) + 1) /\ UNCHANGED handled
      BY <2>3 DEF SendText, Write
    <3>2. Len(lines) + 1 \in Pieces
      BY <1>2, <3>1, PiecesAre, ChannelAssumption DEF ChannelInv, TypeOK
    <3> QED  BY <2>2, <3>1, <3>2
  <2>4. CASE (\E c \in Commands : Send(c)) \/ Respond
    <3>1. \/ \E c \in Commands : SendText(c)
          \/ UNCHANGED inbound
      BY <2>4 DEF Send, Respond, Commands
    <3> QED  BY <2>3, <3>1 DEF inbound
  <2>5. CASE SendNewline
    <3>1. UNCHANGED handled /\ (written' = Append(written, Newline) \/ UNCHANGED written)
      BY <2>5 DEF SendNewline, Write
    <3> QED  BY <2>2, <3>1, PiecesAre
  <2>6. CASE Readable
    <3>1. PICK s \in Seq(Pieces), reply \in Seq(Pieces) :
            \E n \in 1 .. Len(s) : ReadLine(s, n, reply)
      BY <1>2, <2>6, ReadableIs DEF ChannelInv
    <3>2. PICK n \in 1 .. Len(s) : ReadLine(s, n, reply)
      BY <3>1
    <3>3. /\ Rest = s \o up' /\ up' \in Seq(Pieces) /\ EndsLine(s, n)
          /\ handled' = handled \o SubSeq(s, 1, n) /\ UNCHANGED written
      BY <2>6, <3>2 DEF ReadLine, Readable
    <3>4. written = handled \o (s \o up')
      BY <1>2, <2>6, <3>3 DEF ChannelInv, UpFlow, Readable
    <3>5. FrontOfAll(written, handled, s, n)
      <4>1. FrontOfAll(handled \o (s \o up'), handled, s, n)
        BY <2>1, <3>3, FrontIs
      <4> QED  BY <3>4, <4>1
    <3>6. /\ Len(handled) + n \in Len(handled) + 1 .. Len(written)
          /\ handled' = SubSeq(written, 1, Len(handled) + n)
          /\ written[Len(handled) + n] = Newline
      BY <3>3, <3>5 DEF FrontOfAll, EndsLine
    <3>7. ToCore!NoNewline(Len(handled) + 1, (Len(handled) + n) - 1)
      <4> SUFFICES ASSUME NEW k \in Len(handled) + 1 .. (Len(handled) + n) - 1
                   PROVE  written[k] # Newline
        BY DEF ToCore!NoNewline
      <4>1. /\ k - Len(handled) \in 1 .. n - 1 /\ k - Len(handled) \in 1 .. Len(s)
            /\ Len(handled) + (k - Len(handled)) = k
        BY <2>1
      <4>2. s[k - Len(handled)] # Newline
        BY <3>3, <4>1 DEF EndsLine
      <4>3. written[Len(handled) + (k - Len(handled))] = s[k - Len(handled)]
        BY <3>5, <4>1 DEF FrontOfAll
      <4> QED  BY <4>1, <4>2, <4>3
    <3>8. ToCore!Take
      BY <3>3, <3>6, <3>7 DEF ToCore!Take
    <3> QED  BY <3>8
  <2>7. CASE Receive \/ EnterLoop \/ Poll \/ Leave \/ Writable \/ Disconnect
               \/ (\E p \in Pushes : Forward(p)) \/ UNCHANGED vars
    BY <2>7
    DEF Receive, TakeLine, TooLong, ReadSocket, EndOfFile, EnterLoop, Poll, Leave, Writable,
        Disconnect, Forward, vars, inbound
  <2> QED  BY <1>2, <2>4, <2>5, <2>6, <2>7 DEF Next, Plugin, Core
<1>3. Spec => []ChannelInv
  BY ChannelInvHolds
<1> QED  BY <1>1, <1>2, <1>3, PTL DEF Spec, CarriesUp, ToCore!PSpec, ToCore!pvars

(* The plugin takes what the core queued line by line, in order and once:   *)
(* partial writes, EPOLLOUT, pushes of the HTTP thread between replies and  *)
(* the two buffers change nothing, and only a line longer than the room for *)
(* it is cut (ipc_conn_flush, sdk_ipc_recv).                                *)
THEOREM DownCarried == Spec => CarriesDown
<1>1. Init => ToPlugin!PInit
  BY DEF Init, ToPlugin!PInit
<1>2. ASSUME ChannelInv, [Next]_vars
      PROVE  [ToPlugin!Put \/ ToPlugin!Take]_<<queued, taken>>
  <2>1. /\ queued \in Seq(Pieces) /\ taken \in Seq(Pieces)
        /\ ipc_buf \in Seq(Pieces) /\ down \in Seq(Pieces)
    BY <1>2 DEF ChannelInv, TypeOK
  <2>2. ASSUME NEW reply \in Seq(Pieces), queued' = queued \o reply, UNCHANGED taken
        PROVE  ToPlugin!Put
    <3>1. /\ queued' \in Seq(Pieces) /\ Len(queued') >= Len(queued)
          /\ SubSeq(queued', 1, Len(queued)) = queued
      BY <2>1, <2>2, Grown
    <3> QED  BY <2>2, <3>1 DEF ToPlugin!Put, Pieces
  <2>3. ASSUME NEW n \in 1 .. Len(ipc_buf),
               \A m \in 1 .. n - 1 : ipc_buf[m] # Newline,
               ipc_buf[n] = Newline \/ n \in {Short, Space},
               taken' = taken \o SubSeq(ipc_buf, 1, n), UNCHANGED queued
        PROVE  ToPlugin!Take
    <3>1. PICK lost \in Seq(Pieces) : queued = taken \o (Coming \o lost)
      BY <1>2 DEF ChannelInv, DownFlow
    <3> DEFINE more == down \o lost
    <3>2. more \in Seq(Pieces) /\ Coming \o lost = ipc_buf \o more
      <4>1. ipc_buf \in Seq(Pieces) /\ down \in Seq(Pieces)
        BY <2>1
      <4>2. (ipc_buf \o down) \o lost = ipc_buf \o (down \o lost)
        BY <4>1, Regroup
      <4>3. more \in Seq(Pieces)
        BY <4>1
      <4> QED  BY <4>2, <4>3 DEF Coming
    <3> HIDE DEF more
    <3>3. FrontOfAll(queued, taken, ipc_buf, n)
      <4>1. FrontOfAll(taken \o (ipc_buf \o more), taken, ipc_buf, n)
        BY <2>1, <3>2, FrontIs
      <4> QED  BY <3>1, <3>2, <4>1
    <3>4. /\ Len(taken) + n \in Len(taken) + 1 .. Len(queued)
          /\ taken' = SubSeq(queued, 1, Len(taken) + n)
          /\ queued[Len(taken) + n] = ipc_buf[n]
          /\ (Len(taken) + n) - Len(taken) = n
      BY <2>1, <2>3, <3>3 DEF FrontOfAll
    <3>5. ToPlugin!NoNewline(Len(taken) + 1, (Len(taken) + n) - 1)
      <4> SUFFICES ASSUME NEW k \in Len(taken) + 1 .. (Len(taken) + n) - 1
                   PROVE  queued[k] # Newline
        BY DEF ToPlugin!NoNewline
      <4>1. /\ k - Len(taken) \in 1 .. n - 1 /\ k - Len(taken) \in 1 .. Len(ipc_buf)
            /\ Len(taken) + (k - Len(taken)) = k
        BY <2>1
      <4>2. ipc_buf[k - Len(taken)] # Newline
        BY <2>3, <4>1
      <4>3. queued[Len(taken) + (k - Len(taken))] = ipc_buf[k - Len(taken)]
        BY <3>3, <4>1 DEF FrontOfAll
      <4> QED  BY <4>1, <4>2, <4>3
    <3> QED  BY <2>3, <3>4, <3>5 DEF ToPlugin!Take
  <2>4. CASE TakeLine
    <3>1. PICK n \in 1 .. Len(ipc_buf) :
            /\ \E line : Got(line, n)
            /\ \A m \in 1 .. n - 1 : ipc_buf[m] # Newline
            /\ ipc_buf[n] = Newline \/ n \in {Short, Space}
      BY <1>2, <2>4, TakeLineIs DEF ChannelInv
    <3>2. taken' = taken \o SubSeq(ipc_buf, 1, n) /\ UNCHANGED queued
      BY <2>4, <3>1 DEF Got, TakeLine, outbound
    <3> QED  BY <2>3, <3>1, <3>2
  <2>5. CASE TooLong
    <3>1. /\ Len(ipc_buf) = Space /\ taken' = taken \o ipc_buf /\ UNCHANGED queued
          /\ ~HasLine(ipc_buf)
      BY <2>5 DEF TooLong, outbound
    <3>2. Space \in 1 .. Len(ipc_buf) /\ SubSeq(ipc_buf, 1, Space) = ipc_buf
      BY <2>1, <3>1, ChannelAssumption, SubSeqFull
    <3>3. \A m \in 1 .. Space - 1 : ipc_buf[m] # Newline
      <4>1. DOMAIN ipc_buf = 1 .. Len(ipc_buf)
        BY <2>1
      <4>2. \A m \in 1 .. Space - 1 : m \in DOMAIN ipc_buf
        BY <3>1, <4>1, ChannelAssumption
      <4> QED  BY <3>1, <4>2 DEF HasLine
    <3> QED  BY <2>3, <3>1, <3>2, <3>3
  <2>6. CASE Readable
    <3>1. PICK s \in Seq(Pieces), reply \in Seq(Pieces) :
            \E n \in 1 .. Len(s) : ReadLine(s, n, reply)
      BY <1>2, <2>6, ReadableIs DEF ChannelInv
    <3>2. queued' = queued \o reply /\ UNCHANGED taken
      BY <2>6, <3>1 DEF ReadLine, Readable, received
    <3> QED  BY <2>2, <3>2
  <2>7. ASSUME NEW p \in Pushes, Forward(p) PROVE ToPlugin!Put
    <3>1. queued' = queued \o Message(<<p>>) /\ UNCHANGED taken
      BY <2>7 DEF Forward, received
    <3> QED  BY <2>2, <3>1, PushIs
  <2>8. CASE (\E c \in Commands : Send(c)) \/ Respond \/ SendNewline \/ ReadSocket
               \/ EndOfFile \/ EnterLoop \/ Poll \/ Leave \/ Writable \/ Disconnect
               \/ UNCHANGED vars
    BY <2>8
    DEF Send, Respond, SendText, SendNewline, ReadSocket, EndOfFile, EnterLoop, Poll, Leave,
        Writable, Disconnect, vars, outbound, received
  <2> QED  BY <1>2, <2>4, <2>5, <2>6, <2>7, <2>8 DEF Next, Plugin, Core, Receive
<1>3. Spec => []ChannelInv
  BY ChannelInvHolds
<1> QED  BY <1>1, <1>2, <1>3, PTL DEF Spec, CarriesDown, ToPlugin!PSpec, ToPlugin!pvars

(* A request that waits while nothing can move waits because its line was   *)
(* left in read_buf or because nothing was queued for it, which happens to  *)
(* a line that does not parse (server.c:465), a command without a handler,  *)
(* and device_setpoint (ipc_handlers.c:394-402); what lies in out_buf       *)
(* always has EPOLLOUT to send it (handle_client_event, 517-533).           *)
THEOREM WaitsOnlyForAReason == Spec => []WaitsForAReason
<1>1. ChannelInv => WaitsForAReason
  <2> SUFFICES ASSUME ChannelInv, NothingMoves
               PROVE  IsIn(Current, read_buf) \/ Ignored
    BY DEF WaitsForAReason
  <2>1. Rest = read_buf
    BY NothingIsAdded DEF NothingMoves, Rest, ChannelInv, TypeOK
  <2>2. Coming = ipc_buf
    BY NothingIsAdded DEF NothingMoves, Coming, ChannelInv, TypeOK
  <2>3. ~HasLine(Coming)
    BY <2>2 DEF NothingMoves
  <2>4. ~(armed /\ HasLine(Pending))
    BY DEF NothingMoves, HasLine
  <2> QED  BY <2>1, <2>3, <2>4 DEF ChannelInv, WillCome, NothingMoves
<1>2. Spec => []ChannelInv
  BY ChannelInvHolds
<1> QED  BY <1>1, <1>2, PTL

-----------------------------------------------------------------------------
(* What follows from the refinements: a Pipe takes what was written, from   *)
(* its beginning on.                                                        *)
Begins(t, s) == Len(s) <= Len(t) /\ \A k \in 1 .. Len(s) : s[k] = t[k]

LEMMA PipeUp ==
  ASSUME TypeOK, Begins(written, handled), [ToCore!Put \/ ToCore!Take]_<<written, handled>>
  PROVE  Begins(written, handled)'
<1>0. written \in Seq(Pieces) /\ handled \in Seq(Pieces)
  BY DEF TypeOK
<1>1. CASE ToCore!Put
  <2>1. /\ written' \in Seq(Texts \cup {Newline}) /\ Len(written') >= Len(written)
        /\ SubSeq(written', 1, Len(written)) = written /\ UNCHANGED handled
    BY <1>1 DEF ToCore!Put
  <2>2. \A k \in 1 .. Len(written) : written'[k] = written[k]
    BY <1>0, <2>1
  <2> QED  BY <1>0, <2>1, <2>2 DEF Begins
<1>2. CASE ToCore!Take
  <2>1. PICK n \in Len(handled) + 1 .. Len(written) : handled' = SubSeq(written, 1, n)
    BY <1>2 DEF ToCore!Take
  <2>2. UNCHANGED written
    BY <1>2 DEF ToCore!Take
  <2>3. n \in 1 .. Len(written)
    BY <1>0, <2>1
  <2>4. Len(handled') = n /\ \A k \in 1 .. n : handled'[k] = written[k]
    BY <1>0, <2>1, <2>3
  <2> QED  BY <1>0, <2>2, <2>3, <2>4 DEF Begins
<1>3. CASE UNCHANGED <<written, handled>>
  BY <1>3 DEF Begins
<1> QED  BY <1>1, <1>2, <1>3

LEMMA PipeDown ==
  ASSUME TypeOK, Begins(queued, taken), [ToPlugin!Put \/ ToPlugin!Take]_<<queued, taken>>
  PROVE  Begins(queued, taken)'
<1>0. queued \in Seq(Pieces) /\ taken \in Seq(Pieces)
  BY DEF TypeOK
<1>1. CASE ToPlugin!Put
  <2>1. /\ queued' \in Seq(Texts \cup {Newline}) /\ Len(queued') >= Len(queued)
        /\ SubSeq(queued', 1, Len(queued)) = queued /\ UNCHANGED taken
    BY <1>1 DEF ToPlugin!Put
  <2>2. \A k \in 1 .. Len(queued) : queued'[k] = queued[k]
    BY <1>0, <2>1
  <2> QED  BY <1>0, <2>1, <2>2 DEF Begins
<1>2. CASE ToPlugin!Take
  <2>1. PICK n \in Len(taken) + 1 .. Len(queued) : taken' = SubSeq(queued, 1, n)
    BY <1>2 DEF ToPlugin!Take
  <2>2. UNCHANGED queued
    BY <1>2 DEF ToPlugin!Take
  <2>3. n \in 1 .. Len(queued)
    BY <1>0, <2>1
  <2>4. Len(taken') = n /\ \A k \in 1 .. n : taken'[k] = queued[k]
    BY <1>0, <2>1, <2>3
  <2> QED  BY <1>0, <2>2, <2>3, <2>4 DEF Begins
<1>3. CASE UNCHANGED <<queued, taken>>
  BY <1>3 DEF Begins
<1> QED  BY <1>1, <1>2, <1>3

LEMMA HandledFirst == Spec => []Begins(written, handled)
<1>1. Init => Begins(written, handled)
  BY DEF Init, Begins
<1>2. TypeOK /\ Begins(written, handled) /\ [ToCore!Put \/ ToCore!Take]_<<written, handled>>
        => Begins(written, handled)'
  BY PipeUp
<1> QED
  BY <1>1, <1>2, UpCarried, TypeCorrect, PTL
  DEF Spec, CarriesUp, ToCore!PSpec, ToCore!pvars

(* What the plugin has taken is the beginning of what the core queued for   *)
(* it, answers and requests alike: nothing is skipped, repeated or out of   *)
(* order, even when the connection breaks (sdk_ipc_recv).                   *)
THEOREM TakenInOrder == Spec => []Begins(queued, taken)
<1>1. Init => Begins(queued, taken)
  BY DEF Init, Begins
<1>2. TypeOK /\ Begins(queued, taken) /\ [ToPlugin!Put \/ ToPlugin!Take]_<<queued, taken>>
        => Begins(queued, taken)'
  BY PipeDown
<1> QED
  BY <1>1, <1>2, DownCarried, TypeCorrect, PTL
  DEF Spec, CarriesDown, ToPlugin!PSpec, ToPlugin!pvars

(* No command is carried out twice, and none before an earlier one: the     *)
(* n-th line the core handles is the n-th the plugin sent, so a report goes *)
(* into the database once for each time it is sent (handle_client_event).   *)
THEOREM CommandsOnce ==
  Spec => [](\E h \in 0 .. Len(lines) :
               /\ Len(handled) = 2 * h
               /\ \A k \in 1 .. h : handled[2 * k - 1] = k /\ handled[2 * k] = Newline)
<1>1. ChannelInv /\ Begins(written, handled)
        => \E h \in 0 .. Len(lines) :
             /\ Len(handled) = 2 * h
             /\ \A k \in 1 .. h : handled[2 * k - 1] = k /\ handled[2 * k] = Newline
  <2> SUFFICES ASSUME ChannelInv, Begins(written, handled)
               PROVE  \E h \in 0 .. Len(lines) :
                        /\ Len(handled) = 2 * h
                        /\ \A k \in 1 .. h : /\ handled[2 * k - 1] = k
                                             /\ handled[2 * k] = Newline
    OBVIOUS
  <2>1. Len(lines) \in Nat /\ Len(written) \in Nat
    BY DEF ChannelInv, TypeOK
  <2>2. PICK h \in 0 .. Len(lines) : Len(handled) = 2 * h
    BY DEF ChannelInv, HandledWhole
  <2>3. ASSUME NEW k \in 1 .. h
        PROVE  handled[2 * k - 1] = k /\ handled[2 * k] = Newline
    <3>1. /\ k \in 1 .. Len(lines)
          /\ 2 * k - 1 \in 1 .. Len(handled) /\ 2 * k \in 1 .. Len(handled)
      BY <2>1, <2>2
    <3>2. Len(handled) <= Len(written)
      BY DEF Begins
    <3>3. handled[2 * k - 1] = written[2 * k - 1] /\ handled[2 * k] = written[2 * k]
      BY <3>1 DEF Begins
    <3>4. 2 * k - 1 <= Len(written) /\ 2 * k <= Len(written)
      BY <2>1, <2>2, <3>1, <3>2
    <3>5. written[2 * k - 1] = k /\ written[2 * k] = Newline
      BY <3>1, <3>4 DEF ChannelInv, Numbered
    <3> QED  BY <3>3, <3>5
  <2> QED  BY <2>2, <2>3
<1> QED  BY <1>1, ChannelInvHolds, HandledFirst, PTL
=============================================================================
