---------------------------- MODULE MCWebServer ----------------------------
(* Three browsers: one asks for the panel, one for a console, and one, with *)
(* a request longer than max_length, for a program of which cgi_server does *)
(* not know.                                                                *)
EXTENDS WebServer

CONSTANTS p, k, o

MCConn == {p, k, o}
MCKind == [c \in MCConn |-> CASE c = p -> "panel" [] c = k -> "console" [] OTHER -> "other"]
MCLong == {o}
=============================================================================
