--------------------------- MODULE MCCommandLine ---------------------------
(***************************************************************************)
(* TLC instance of CommandLine: a client that sends its options first and  *)
(* whole, then data with one and two byte commands, as interactive clients *)
(* do; two lines in one packet; a packet that is a lone IAC.               *)
(***************************************************************************)
EXTENDS CommandLine

A == 97
B == 98
NOP == 241

MCCommands == {<<A>>, <<B, A>>}

MCSegments ==
  { <<A, Enter>>, <<B>>, <<A, Enter, B, A, Enter>>, <<IAC>>,
    <<IAC, IAC, A>>, <<B, IAC, NOP, A, IAC, IAC>>,
    <<IAC, DO, ECHO>>, <<IAC, DO, SGA, IAC, DO, ECHO, A, Enter>>,
    <<IAC, DONT, ECHO, IAC, DO, SGA, B>> }

\* An option behind data.
MCLateOptions == {<<A>>, <<A, IAC, DO, ECHO>>, <<IAC, DO, SGA, B>>}
=============================================================================
