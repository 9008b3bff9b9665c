--------------------------- MODULE MCStreamHandle ---------------------------
(***************************************************************************)
(* Small instances of StreamHandle for TLC.                                 *)
(***************************************************************************)
EXTENDS StreamHandle

CONSTANTS c1, c2, k1, k2

OneConsumer == {c1}
TwoConsumers == {c1, c2}
OneCloser == {k1}
TwoClosers == {k1, k2}
=============================================================================
