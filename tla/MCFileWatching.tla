--------------------------- MODULE MCFileWatching ---------------------------
(* Two instance directories, d and e, which may be invalid ones, and a world *)
(* of one of them; or two worlds.                                            *)
EXTENDS FileWatching

CONSTANTS d, e, w1, w2, invalid, dir, world

MCPath == {d, e, w1}
MCTarget == {invalid, dir, world}
MCCalls == {<<d, invalid>>, <<d, dir>>, <<e, invalid>>}
MCSubdirs == {world}
MCWorld == {w1}
MCLink == {d, w1}
MCOneLink == {w1}
MCWorlds == {w1, w2}
Nothing == {}
=============================================================================
