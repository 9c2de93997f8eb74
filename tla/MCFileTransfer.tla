--------------------------- MODULE MCFileTransfer ---------------------------
(* Small instances of FileTransfer for TLC. *)
EXTENDS FileTransfer

\* One host: packets are dropped, as by DROP_PATTERN, and nothing else goes wrong.
Loopback == {}

\* A real network, and a sendto that may fail.
Internet == {"delay", "reorder", "error"}

\* One host on which datagrams overtake each other.
Unordered == {"reorder"}
=============================================================================
