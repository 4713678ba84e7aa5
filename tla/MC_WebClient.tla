---------------------------- MODULE MC_WebClient ----------------------------
EXTENDS WebClient

\* The player moves a piece from its stack first; after the opponent's answer it may
\* also lift a piece from square "a", and square "a" is no destination any more.
MCLegal ==
  << {<<"stack", "a">>, <<"stack", "b">>}, {}, {<<"stack", "b">>, <<"a", "b">>}, {} >>
=============================================================================
