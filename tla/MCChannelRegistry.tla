------------------------- MODULE MCChannelRegistry -------------------------
(* A UI thread, a script engine and a replay loader over three names, one of *)
(* them configured, and two sample types. Each name is wanted by two of the  *)
(* threads, with the same type and with another one.                         *)
EXTENDS ChannelRegistry

CONSTANTS ui, engine, loader, a, b, cfg, int, txt

MCNames == {a, b, cfg}
MCTypes == {int, txt}
MCStatic == << [name |-> cfg, ty |-> int] >>
MCDroppers == {ui}
MCScripts == {engine}
MCLoaders == {loader}

Ch(n, y) == [name |-> n, ty |-> y]
MCWanted == [t \in Threads |->
  CASE t = ui     -> {Ch(a, int), Ch(b, int), Ch(cfg, int)}
    [] t = engine -> {Ch(a, int), Ch(a, txt), Ch(b, txt)}
    [] t = loader -> {Ch(a, int), Ch(cfg, int)}]
=============================================================================
