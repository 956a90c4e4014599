--------------------------- MODULE MCHomeRefresh ---------------------------
(* Model-checking instances of HomeRefresh.  MayStart bounds the work a    *)
(* user starts; each bound is named here and chosen in a configuration.    *)
EXTENDS HomeRefresh

FewMasters == 2        \* enough for a switch to leave something stale, a picker shrink
LongSession == 3       \* a fetch overtaken by a command overtaken by a fetch
=============================================================================
