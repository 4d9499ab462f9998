------------------------------- MODULE TcpPipe -------------------------------
(***************************************************************************)
(* What a TCP forwarding task promises to the two programs it connects: a  *)
(* pair of byte pipes.  Each pipe delivers a growing prefix of what its    *)
(* source wrote, reports the end of the stream only after the whole of it, *)
(* and never takes anything back.  A reset may break the pair, after which *)
(* bytes may be lost but still nothing wrong is delivered.                 *)
(***************************************************************************)
EXTENDS Naturals, Sequences

CONSTANT Ends               \* the two programs
CONSTANT Peer(_)            \* the program at the other end

VARIABLES
    sent,       \* sent[e]: how many bytes e has written
    ended,      \* ended[e]: e has ended its stream
    delivered,  \* delivered[e]: the bytes handed to e
    eof,        \* eof[e]: e has been told of the end of the other's stream
    broken      \* a connection failed

pipeVars == <<sent, ended, delivered, eof, broken>>

Bytes(m, n) == [i \in 1..(n - m) |-> m + i]

PipeInit ==
    /\ sent = [e \in Ends |-> 0]
    /\ ended = [e \in Ends |-> FALSE]
    /\ delivered = [e \in Ends |-> <<>>]
    /\ eof = [e \in Ends |-> FALSE]
    /\ broken = FALSE

PipeWrite(e) ==
    /\ ~ended[e]
    /\ sent' = [sent EXCEPT ![e] = @ + 1]
    /\ UNCHANGED <<ended, delivered, eof, broken>>

PipeEnd(e) ==
    /\ ~ended[e]
    /\ ended' = [ended EXCEPT ![e] = TRUE]
    /\ UNCHANGED <<sent, delivered, eof, broken>>

(* Hand e the next bytes, up to position n of the other's stream, and the end
   of the stream with them when n is the last. *)
PipeForward(e, n) ==
    /\ ~eof[e] /\ n \in Len(delivered[e])..sent[Peer(e)]
    /\ delivered' = [delivered EXCEPT ![e] = @ \o Bytes(Len(@), n)]
    /\ \/ eof' = eof
       \/ /\ ended[Peer(e)] /\ n = sent[Peer(e)]
          /\ eof' = [eof EXCEPT ![e] = TRUE]
    /\ UNCHANGED <<sent, ended, broken>>

PipeBreak ==
    /\ broken' = TRUE
    /\ UNCHANGED <<sent, ended, delivered, eof>>

PipeNext ==
    \/ \E e \in Ends : PipeWrite(e) \/ PipeEnd(e)
    \/ \E e \in Ends : \E n \in 0..sent[Peer(e)] : PipeForward(e, n)
    \/ PipeBreak

PipeSpec == PipeInit /\ [][PipeNext]_pipeVars
=============================================================================
