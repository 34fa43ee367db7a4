---------------------------- MODULE ContentSources ----------------------------
(***************************************************************************)
(* Where content has come from (backend/src/mod_metadata.rs,               *)
(* ContentSources), and what is known of Curseforge's files: both are kept *)
(* in memory and written by a tick of the backend, when its handler comes  *)
(* to it.  The sources are spread over files by the first byte of the      *)
(* hash; they were once in a single one, which the launcher takes over as  *)
(* it starts.                                                              *)
(***************************************************************************)
EXTENDS Naturals

CONSTANTS
  Hash,      \* hashes of content
  Bucket,    \* Bucket[h]: the file that the source of h is written to
  Project,   \* projects of Modrinth
  NoSource,  \* no source
  MaxSets,   \* bound: sources and informations that are set
  MaxFaults  \* bound: ticks that fail to write, and ends of the launcher

Source == {"unknown", "curseforge"} \cup Project \cup {NoSource}
File == {Bucket[h] : h \in Hash}

\* NoSource is no source, a project is not one that is not known, and the
\* informations have a file of their own.
SourceAssumption ==
  /\ MaxSets \in Nat
  /\ NoSource \notin {"unknown", "curseforge"} \cup Project /\ "unknown" \notin Project
  /\ "info" \notin File

VARIABLES
  sources,   \* content_sources, and
  dirty,     \* its dirty bits, with one for the informations: curseforge_info_dirty
  written,   \* what the files say
  folder,    \* they are in the folder, which is there
  legacy,    \* the single file: what it says, or NoSource when it is gone
  takeover,  \* the files that a start has yet to write for it
  info,      \* how much is known of Curseforge's files
  info_file, \* how much of it is written
  sets, faults,
  lost       \* what was to be written and was not (history)

sources_vars ==
  <<sources, dirty, written, folder, legacy, takeover, info, info_file, sets, faults, lost>>

Empty == [h \in Hash |-> NoSource]

SourcesType ==
  /\ sources \in [Hash -> Source] /\ written \in [Hash -> Source]
  /\ dirty \subseteq File \cup {"info"} /\ lost \subseteq File \cup {"info"}
  /\ folder \in BOOLEAN
  /\ legacy \in [Hash -> {"unknown", NoSource}] \cup {NoSource}
  /\ takeover \subseteq File
  /\ info \in 0 .. MaxSets /\ info_file \in 0 .. MaxSets

\* from_legacy: the files that are to be written for it.
TakenOver(l) == {Bucket[h] : h \in {h \in Hash : l[h] # NoSource}}

\* A first start: with the single file, which is taken over, or without.
SourcesInit ==
  /\ legacy \in [Hash -> {"unknown", NoSource}] \cup {NoSource}
  /\ sources = IF legacy = NoSource THEN Empty ELSE legacy
  /\ folder = (legacy # NoSource)
  /\ takeover = IF legacy = NoSource THEN {} ELSE TakenOver(legacy)
  /\ written = Empty /\ dirty = {}
  /\ info = 0 /\ info_file = 0
  /\ sets = 0 /\ faults = 0 /\ lost = {}

Running == takeover = {}

-----------------------------------------------------------------------------
\* What is not taken for news: a project is more than that there is one.
\* (A bug: only what is there already.)
same(old, new) == old = new
skip(old, new) == old = new \/ (old \in Project /\ new = "unknown")

\* ContentSources::set.
Set(h, source) ==
  /\ Running /\ sets < MaxSets
  /\ sets' = sets + 1
  /\ IF skip(sources[h], source) THEN UNCHANGED <<sources, dirty>>
     ELSE sources' = [sources EXCEPT ![h] = source] /\ dirty' = dirty \cup {Bucket[h]}
  /\ UNCHANGED <<written, folder, legacy, takeover, info, info_file, faults, lost>>

SetInfo ==
  /\ Running /\ sets < MaxSets
  /\ sets' = sets + 1
  /\ info' = info + 1
  /\ dirty' = dirty \cup {"info"}
  /\ UNCHANGED <<sources, written, folder, legacy, takeover, info_file, faults, lost>>

\* What the files say when those of `files` have been written anew.
Written(files) == [h \in Hash |-> IF Bucket[h] \in files THEN sources[h] ELSE written[h]]

\* write_changes: what is dirty is clean before it is written, and stays clean
\* if it cannot be written.
Write ==
  /\ Running /\ dirty # {}
  /\ \E failed \in SUBSET dirty :
       /\ faults + (IF failed = {} THEN 0 ELSE 1) <= MaxFaults
       /\ faults' = IF failed = {} THEN faults ELSE faults + 1
       /\ written' = Written(dirty \ failed)
       /\ folder' = (folder \/ (dirty \ failed) \ {"info"} # {})
       /\ info_file' = IF "info" \in dirty \ failed THEN info ELSE info_file
       /\ lost' = (lost \ dirty) \cup failed
  /\ dirty' = {}
  /\ UNCHANGED <<sources, legacy, takeover, info, sets>>

-----------------------------------------------------------------------------
\* load, when it takes over the single file: it writes one file after the other,
\* or fails to, and removes the single one at the end.
TakeOver ==
  /\ takeover # {}
  /\ \E f \in takeover :
       /\ takeover' = takeover \ {f}
       /\ \/ written' = Written({f}) /\ UNCHANGED <<faults, lost>>
          \/ /\ faults < MaxFaults /\ faults' = faults + 1
             /\ lost' = lost \cup {f} /\ UNCHANGED written
  /\ legacy' = IF takeover' = {} THEN NoSource ELSE legacy
  /\ UNCHANGED <<sources, dirty, folder, info, info_file, sets>>

\* The launcher ends and starts again: the folder is read if it is there,
\* whatever has become of the single file.
Restart ==
  /\ faults < MaxFaults /\ faults' = faults + 1
  /\ sources' = IF folder \/ legacy = NoSource THEN written ELSE legacy
  /\ takeover' = IF folder \/ legacy = NoSource THEN {} ELSE TakenOver(legacy)
  /\ folder' = (folder \/ legacy # NoSource)
  /\ dirty' = {} /\ lost' = {}
  /\ info' = info_file
  /\ UNCHANGED <<written, legacy, info_file, sets>>

SourcesNext ==
  \/ \E h \in Hash, source \in Source \ {NoSource} : Set(h, source)
  \/ SetInfo \/ Write \/ TakeOver \/ Restart

SourcesSpec == SourcesInit /\ [][SourcesNext]_sources_vars

-----------------------------------------------------------------------------
\* What a tick has written, or has yet to write, is all there is.
FilesAreSources ==
  /\ \A h \in Hash : Bucket[h] \notin dirty \cup takeover \cup lost => written[h] = sources[h]
  /\ "info" \notin dirty \cup lost => info_file = info

\* A source is not forgotten once it is written, nor a project for less, whether
\* the launcher goes on, fails to write something else, or starts again.
NothingIsForgotten ==
  [][\A h \in Hash :
       Bucket[h] \notin dirty \cup takeover \cup lost /\ sources[h] # NoSource =>
         /\ sources'[h] # NoSource
         /\ sources[h] \in Project => sources'[h] # "unknown"]_sources_vars

\* Both.
SourcesAreKept == [](SourcesType /\ FilesAreSources) /\ NothingIsForgotten
=============================================================================
