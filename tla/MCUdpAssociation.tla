-------------------------- MODULE MCUdpAssociation --------------------------
(* Scopes for model checking UdpAssociation. *)
EXTENDS UdpAssociation

Scope(tasks, datagrams, replies, traffic) ==
    [tasks |-> tasks, datagrams |-> datagrams, replies |-> replies, traffic |-> traffic]

Socks5 == Tasks \ (Direct \cup Http)

\* One association under traffic; the tasks of three profiles over one circuit.
AloneAndShared == {Scope(Socks5, 3, 2, 4), Scope(Tasks, 1, 0, 1)}
Alone == {Scope(Socks5, 2, 0, 2)}
=============================================================================
