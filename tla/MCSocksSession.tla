--------------------------- MODULE MCSocksSession ---------------------------
(* Small instances of SocksSession for TLC. *)
EXTENDS SocksSession

CONSTANTS a4, b4, a6

MCAddr == {a4, b4, a6}
MCV4 == {a4, b4}

(* An error, an IPv6 address before two IPv4 ones, and one that is IPv6    *)
(* alone.                                                                  *)
MCAnswers == {<<>>, <<a6, a4, b4>>, <<a6>>}

\* Everything to the first address, everything to the second.
MCRules == {{1, 2} \X {a4}, {1, 2} \X {b4}}

MCSent == [d \in Side |-> IF d = "client" THEN 2 ELSE 3]

\* A destination that sends, a client that only receives.
DownloadAnswers == {<<a4>>}
DownloadSent == [d \in Side |-> IF d = "client" THEN 0 ELSE 2]
=============================================================================
