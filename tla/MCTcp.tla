-------------------------------- MODULE MCTcp --------------------------------
(* TcpConn for TLC. *)
EXTENDS TcpConn

\* Three bytes for a guest whose buffer holds two, three bytes from a guest for
\* a receive buffer of two, and one byte each way.
MCLoads == {<<0, 3, 2>>, <<3, 0, 1>>, <<1, 1, 1>>}
=============================================================================
