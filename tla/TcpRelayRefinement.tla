------------------------- MODULE TcpRelayRefinement -------------------------
(* The forwarding task of TcpRelay implements the byte pipes of TcpPipe: the
   remote endpoints write and end, send() on a peer hands bytes over,
   shutdown(SD_SEND) is the end of the stream. *)
EXTENDS TcpRelay

Pipe == INSTANCE TcpPipe WITH
    Ends <- Peers, Peer <- Other,
    sent <- wrote, ended <- fin, delivered <- out, eof <- finOut,
    broken <- Condemned

(* Every step of the task is a step of the two pipes: OnReceive, OnSend and
   OnConnect only ever append the next bytes of the stream, and shut a side
   down after the last one. *)
ImplementsPipe == Pipe!PipeSpec
=============================================================================
