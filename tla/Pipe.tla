--------------------------------- MODULE Pipe ---------------------------------
(***************************************************************************)
(* One direction of the connection between the core and a plugin, as its   *)
(* two ends see it ("Simple protocol: Newline delimited JSON",             *)
(* sdk/ipc.c, 21): a byte stream that is taken line by line, in order,     *)
(* every line whole and once; only a line of which the receiver has no     *)
(* room for more is cut, and what comes next is the rest of it.  What is   *)
(* on its way may be lost only if nothing that comes after it arrives.     *)
(***************************************************************************)
EXTENDS Naturals, Sequences

CONSTANTS Text, Newline,
          Limits   (* where a line may be cut                              *)

VARIABLES sent,   (* all that was written: texts and newlines              *)
          got     (* the lines taken at the other end, with their newlines *)

pvars == <<sent, got>>

PInit == sent = <<>> /\ got = <<>>

Put == /\ sent' \in Seq(Text \cup {Newline})
       /\ Len(sent') >= Len(sent) /\ SubSeq(sent', 1, Len(sent)) = sent
       /\ UNCHANGED got

NoNewline(m, n) == \A k \in m .. n : sent[k] # Newline

Take == /\ \E n \in Len(got) + 1 .. Len(sent) :
             /\ NoNewline(Len(got) + 1, n - 1)
             /\ sent[n] = Newline \/ n - Len(got) \in Limits
             /\ got' = SubSeq(sent, 1, n)
        /\ UNCHANGED sent

PSpec == PInit /\ [][Put \/ Take]_pvars
=============================================================================
