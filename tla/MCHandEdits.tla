----------------------------- MODULE MCHandEdits -----------------------------
(* One representative of every operation of reapply_hand_edits.main, on    *)
(* the smallest set of files that shows patches of two files of different  *)
(* origin (process.patch, nowide.patch), one of them kept by the cache,    *)
(* and a file edited twice (process.inc).                                  *)
EXTENDS HandEdits

MCSnapshots == {"process.inc", "nowide.inc", "flyweight.inc"}
MCDrafts == {"process.cppm", "nowide.cppm", "json.cppm"}
MCVendored == {"buffer_fill.hpp", "simple_event_log.h"}

Op(kind, files, tolerant, anchored) ==
    [kind |-> kind, files |-> files, tolerant |-> tolerant, anchored |-> anchored]

MCProgram ==
    << Op("patch", {"buffer_fill.hpp"}, TRUE, TRUE),
       Op("patch", {"json.cppm"}, TRUE, FALSE),
       Op("patch", {"process.inc", "process.cppm"}, FALSE, TRUE),
       Op("patch", {"nowide.inc", "nowide.cppm"}, FALSE, TRUE),
       Op("ensure", {"simple_event_log.h"}, FALSE, TRUE),
       Op("guard", {"process.inc"}, FALSE, TRUE),
       Op("restore", {"flyweight.inc"}, FALSE, TRUE) >>
==============================================================================
