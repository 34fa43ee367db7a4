---------------------------- MODULE ContentProofs ----------------------------
(***************************************************************************)
(* Proofs about ContentSources, for any hashes, files and projects, and    *)
(* however often sources are set, writes fail and the launcher ends; and   *)
(* about ContentSummaries, for any packs, children and threads.            *)
(***************************************************************************)
EXTENDS ContentSources, ContentSummaries, TLAPS

\* SourcesType without its bounds.
HasSources ==
  /\ sources \in [Hash -> Source] /\ written \in [Hash -> Source]
  /\ legacy \in [Hash -> {"unknown", NoSource}] \cup {NoSource}
  /\ takeover \subseteq File

\* While there is a single file there is a folder too, and a start reads that.
FolderIsThere == legacy # NoSource => folder

\* FilesAreSources is inductive with these.
SInv == HasSources /\ FolderIsThere /\ FilesAreSources

\* Writing files leaves a source for each hash: the one in memory where its file
\* is written, and otherwise the one before.
LEMMA WrittenFact ==
  ASSUME HasSources, NEW files
  PROVE  /\ Written(files) \in [Hash -> Source]
         /\ \A h \in Hash :
              Written(files)[h] = IF Bucket[h] \in files THEN sources[h] ELSE written[h]
BY DEF HasSources, Written

\* The invariant holds when the launcher starts for the first time.
LEMMA InitSInv ==
  ASSUME SourcesInit
  PROVE  SInv
<1>1. Empty \in [Hash -> Source] /\ \A h \in Hash : Empty[h] = NoSource
  BY DEF Empty, Source
<1>2. CASE legacy = NoSource
  BY <1>1, <1>2 DEF SourcesInit, SInv, HasSources, FolderIsThere, FilesAreSources
<1>3. CASE legacy # NoSource
  <2>1. sources = legacy /\ legacy \in [Hash -> {"unknown", NoSource}]
    BY <1>3 DEF SourcesInit
  <2>2. sources \in [Hash -> Source]
    BY <2>1 DEF Source
  <2>3. takeover = TakenOver(legacy) /\ TakenOver(legacy) \subseteq File
    BY <1>3 DEF SourcesInit, TakenOver, File
  <2>4. \A h \in Hash : Bucket[h] \notin takeover => sources[h] = NoSource
    BY <2>1, <2>3 DEF TakenOver
  <2> QED BY <1>1, <2>1, <2>2, <2>3, <2>4 DEF SourcesInit, SInv, HasSources, FolderIsThere, FilesAreSources
<1> QED BY <1>2, <1>3

\* What is set is dirty: the files need not have it.
LEMMA SetKeeps ==
  ASSUME SInv, NEW h \in Hash, NEW source \in Source, Set(h, source)
  PROVE  SInv'
<1>1. UNCHANGED <<written, folder, legacy, takeover, info, info_file, lost>>
  BY DEF Set
<1>2. CASE skip(sources[h], source)
  BY <1>1, <1>2 DEF Set, SInv, HasSources, FolderIsThere, FilesAreSources
<1>3. CASE ~skip(sources[h], source)
  <2>1. sources' = [sources EXCEPT ![h] = source] /\ dirty' = dirty \cup {Bucket[h]}
    BY <1>3 DEF Set
  <2>2. HasSources' /\ FolderIsThere'
    BY <1>1, <2>1 DEF SInv, HasSources, FolderIsThere
  <2>3. \A k \in Hash : Bucket[k] \notin dirty' => sources'[k] = sources[k] /\ Bucket[k] \notin dirty
    BY <2>1 DEF SInv, HasSources
  <2>4. "info" \notin dirty' => "info" \notin dirty
    BY <2>1
  <2> QED BY <1>1, <2>2, <2>3, <2>4 DEF SInv, FilesAreSources
<1> QED BY <1>2, <1>3

\* What a tick has written is what was set, and what it could not write is lost.
LEMMA WriteKeeps ==
  ASSUME SInv, Write
  PROVE  SInv'
<1>1. PICK failed \in SUBSET dirty :
        /\ written' = Written(dirty \ failed)
        /\ folder' = (folder \/ (dirty \ failed) \ {"info"} # {})
        /\ info_file' = IF "info" \in dirty \ failed THEN info ELSE info_file
        /\ lost' = (lost \ dirty) \cup failed
  BY DEF Write
<1>2. takeover = {} /\ dirty' = {} /\ UNCHANGED <<sources, legacy, takeover, info>>
  BY DEF Write, Running
<1>3. HasSources' /\ FolderIsThere'
  BY <1>1, <1>2, WrittenFact DEF SInv, HasSources, FolderIsThere
<1>4. ASSUME NEW h \in Hash, Bucket[h] \notin lost'
      PROVE  written'[h] = sources'[h]
  <2>1. written'[h] = IF Bucket[h] \in dirty \ failed THEN sources[h] ELSE written[h]
    BY <1>1, WrittenFact DEF SInv
  <2>2. CASE Bucket[h] \in dirty
    BY <1>1, <1>2, <1>4, <2>1, <2>2
  <2>3. CASE Bucket[h] \notin dirty
    BY <1>1, <1>2, <1>4, <2>1, <2>3 DEF SInv, FilesAreSources
  <2> QED BY <2>2, <2>3
<1>5. "info" \notin lost' => info_file' = info'
  BY <1>1, <1>2 DEF SInv, FilesAreSources
<1> QED BY <1>3, <1>4, <1>5 DEF SInv, FilesAreSources

\* A file that is taken over has what was in the single one, or is lost.
LEMMA TakeOverKeeps ==
  ASSUME SourceAssumption, SInv, TakeOver
  PROVE  SInv'
<1>1. PICK f \in takeover :
        /\ takeover' = takeover \ {f}
        /\ \/ written' = Written({f}) /\ UNCHANGED lost
           \/ lost' = lost \cup {f} /\ UNCHANGED written
  BY DEF TakeOver
<1>2. UNCHANGED <<sources, dirty, folder, info, info_file>> /\ legacy' \in {legacy, NoSource}
  BY DEF TakeOver
<1>3. HasSources' /\ FolderIsThere'
  BY <1>1, <1>2, WrittenFact DEF SInv, HasSources, FolderIsThere
<1>4. ASSUME NEW h \in Hash, Bucket[h] \notin dirty' \cup takeover' \cup lost'
      PROVE  written'[h] = sources'[h]
  <2>1. Written({f})[h] = IF Bucket[h] = f THEN sources[h] ELSE written[h]
    BY WrittenFact DEF SInv
  <2>2. CASE Bucket[h] = f
    BY <1>1, <1>2, <1>4, <2>1, <2>2
  <2>3. CASE Bucket[h] # f
    BY <1>1, <1>2, <1>4, <2>1, <2>3 DEF SInv, FilesAreSources
  <2> QED BY <2>2, <2>3
<1>5. "info" \notin dirty' \cup lost' => info_file' = info'
  BY <1>1, <1>2 DEF SInv, FilesAreSources
<1> QED BY <1>3, <1>4, <1>5 DEF SInv, FilesAreSources

\* A start finds a folder, or no single file: it goes by what is written.
LEMMA RestartReads ==
  ASSUME SInv, Restart
  PROVE  /\ sources' = written /\ takeover' = {} /\ info' = info_file
         /\ UNCHANGED <<written, legacy, info_file>>
         /\ folder' = (folder \/ legacy # NoSource)
BY DEF SInv, FolderIsThere, Restart

\* Every step keeps the invariant.
LEMMA StepSInv ==
  ASSUME SourceAssumption, SInv, [SourcesNext]_sources_vars
  PROVE  SInv'
<1>1. ASSUME NEW h \in Hash, NEW source \in Source \ {NoSource}, Set(h, source)
      PROVE  SInv'
  BY <1>1, SetKeeps
<1>2. CASE SetInfo
  BY <1>2 DEF SetInfo, SInv, HasSources, FolderIsThere, FilesAreSources
<1>3. CASE Write
  BY <1>3, WriteKeeps
<1>4. CASE TakeOver
  BY <1>4, TakeOverKeeps
<1>5. CASE Restart
  BY <1>5, RestartReads DEF SInv, HasSources, FolderIsThere, FilesAreSources
<1>6. CASE UNCHANGED sources_vars
  BY <1>6 DEF sources_vars, SInv, HasSources, FolderIsThere, FilesAreSources
<1> QED BY <1>1, <1>2, <1>3, <1>4, <1>5, <1>6 DEF SourcesNext

\* No step forgets a source that is written, nor a project for less.
LEMMA StepForgetsNothing ==
  ASSUME SourceAssumption, SInv, [SourcesNext]_sources_vars,
         NEW h \in Hash, Bucket[h] \notin dirty \cup takeover \cup lost, sources[h] # NoSource
  PROVE  sources'[h] # NoSource /\ (sources[h] \in Project => sources'[h] # "unknown")
<1>1. sources[h] \in Project => sources[h] # "unknown"
  BY DEF SourceAssumption
<1>2. CASE sources'[h] = sources[h]
  BY <1>1, <1>2
<1>3. ASSUME NEW k \in Hash, NEW source \in Source \ {NoSource}, Set(k, source), sources'[h] # sources[h]
      PROVE  sources'[h] # NoSource /\ (sources[h] \in Project => sources'[h] # "unknown")
  <2>1. ~skip(sources[k], source) /\ sources' = [sources EXCEPT ![k] = source]
    BY <1>3 DEF Set
  <2>2. h = k /\ sources'[h] = source
    BY <1>3, <2>1 DEF SInv, HasSources
  <2> QED BY <2>1, <2>2 DEF skip
<1>4. CASE Restart
  BY <1>1, <1>4, RestartReads DEF SInv, FilesAreSources
<1>5. SetInfo \/ Write \/ TakeOver \/ UNCHANGED sources_vars => UNCHANGED sources
  BY DEF SetInfo, Write, TakeOver, sources_vars
<1> QED BY <1>2, <1>3, <1>4, <1>5 DEF SourcesNext

\* What SourcesType says and HasSources does not: no more is known of Curseforge's
\* files, in memory or written, than has been set.
HasBounds ==
  /\ dirty \subseteq File \cup {"info"} /\ lost \subseteq File \cup {"info"}
  /\ folder \in BOOLEAN
  /\ sets \in 0 .. MaxSets /\ info \in 0 .. sets /\ info_file \in 0 .. sets

LEMMA StepKeepsBounds ==
  ASSUME SourceAssumption, SInv, HasBounds, [SourcesNext]_sources_vars
  PROVE  HasBounds'
<1> USE DEF SourceAssumption, HasBounds
<1>1. ASSUME NEW h \in Hash, NEW source \in Source \ {NoSource}, Set(h, source)
      PROVE  HasBounds'
  <2>1. Bucket[h] \in File  BY DEF File
  <2>2. dirty' \subseteq File \cup {"info"}  BY <1>1, <2>1 DEF Set
  <2>3. sets' = sets + 1 /\ sets' \in 0 .. MaxSets /\ UNCHANGED <<folder, info, info_file, lost>>
    BY <1>1 DEF Set
  <2> QED BY <2>2, <2>3
<1>2. CASE SetInfo
  BY <1>2 DEF SetInfo
<1>3. CASE Write
  <2>1. PICK failed \in SUBSET dirty :
          /\ folder' = (folder \/ (dirty \ failed) \ {"info"} # {})
          /\ info_file' = IF "info" \in dirty \ failed THEN info ELSE info_file
          /\ lost' = (lost \ dirty) \cup failed
    BY <1>3 DEF Write
  <2>2. dirty' = {} /\ UNCHANGED <<info, sets>>  BY <1>3 DEF Write
  <2>3. folder' \in BOOLEAN  BY <2>1
  <2>4. lost' \subseteq File \cup {"info"}  BY <2>1
  <2>5. info_file' \in 0 .. sets'  BY <2>1, <2>2
  <2> QED BY <2>2, <2>3, <2>4, <2>5
<1>4. CASE TakeOver
  <2>1. UNCHANGED <<dirty, folder, info, info_file, sets>>  BY <1>4 DEF TakeOver
  <2>2. lost' \subseteq File \cup {"info"}
    BY <1>4 DEF TakeOver, SInv, HasSources
  <2> QED BY <2>1, <2>2
<1>5. CASE Restart
  <2>1. dirty' = {} /\ lost' = {} /\ info' = info_file /\ UNCHANGED <<info_file, sets>>
    BY <1>5 DEF Restart
  <2>2. folder' \in BOOLEAN  BY <1>5 DEF Restart
  <2> QED BY <2>1, <2>2
<1>6. CASE UNCHANGED sources_vars
  BY <1>6 DEF sources_vars
<1> QED BY <1>1, <1>2, <1>3, <1>4, <1>5, <1>6 DEF SourcesNext

\* ContentSources::set and write_changes in mod_metadata.rs: what is not dirty is
\* in the files, and what is in the files is not forgotten, whatever fails and
\* whenever the launcher ends.
THEOREM SourcesStay ==
  ASSUME SourceAssumption
  PROVE  SourcesSpec => SourcesAreKept
<1>1. SourcesInit => SInv /\ HasBounds
  BY InitSInv DEF SourceAssumption, SourcesInit, HasBounds
<1>2. SInv /\ HasBounds /\ [SourcesNext]_sources_vars => SInv' /\ HasBounds'
  BY StepSInv, StepKeepsBounds
<1>3. SInv /\ HasBounds => SourcesType /\ FilesAreSources
  BY DEF SourceAssumption, SInv, HasSources, HasBounds, SourcesType
<1>4. SInv /\ [SourcesNext]_sources_vars =>
        [\A h \in Hash :
           Bucket[h] \notin dirty \cup takeover \cup lost /\ sources[h] # NoSource =>
             /\ sources'[h] # NoSource
             /\ sources[h] \in Project => sources'[h] # "unknown"]_sources_vars
  BY StepForgetsNothing
<1> QED BY <1>1, <1>2, <1>3, <1>4, PTL DEF SourcesSpec, SourcesAreKept, NothingIsForgotten

-----------------------------------------------------------------------------
(* The summaries. *)

\* What a reader of p has made up its mind about: c is to be had by its hash, or by
\* its id, when it comes.
ByHash(p, seen) == seen = "info" \/ (seen = "none" /\ p \notin Curseforge)
ById(p, seen) == seen = "none" /\ p \in Curseforge

\* c is not there yet, or those who are without it are about to be told.
ToCome(c) == by_hash[c] = "none" \/ Dropping(c)

\* A reader of a pack that has not raced with a child: where it is without one, the
\* child has yet to come, and the pack is noted when it is done with it.
ReaderIsCurrent(t, c) ==
  LET p == reader[t].pack
      at == reader[t].at[c]
      seen == reader[t].seen[c]
  IN  /\ at = "look" => seen = "none"
      /\ at \in {"ask", "open"} => ByHash(p, seen)
      /\ at = "drop" => seen \in {"unknown", "known"}
      /\ at \in {"open", "note", "done"} /\ ByHash(p, seen) => ToCome(c)
      /\ at \in {"note", "done"} /\ ById(p, seen) => c \notin infos
      /\ at = "done" /\ ByHash(p, seen) => p \in missing[c]
      /\ at = "done" /\ ById(p, seen) => p \in missing_info[c]

ReadersAreCurrent ==
  \A t \in Thread : reader[t].pack # NoPack /\ reader[t].pack \notin raced =>
    \A c \in Wants[reader[t].pack] : ReaderIsCurrent(t, c)

\* The same of the summaries that are kept.
PackIsCurrent(p, c) ==
  /\ ByHash(p, packs[p][c]) => ToCome(c) /\ p \in missing[c]
  /\ ById(p, packs[p][c]) => c \notin infos /\ p \in missing_info[c]

SummaryInv ==
  /\ SummariesType
  /\ \A p \in Modpack \ raced : packs[p] # NoPack => \A c \in Wants[p] : PackIsCurrent(p, c)
  /\ ReadersAreCurrent /\ UnknownIsTorn

-----------------------------------------------------------------------------
SummaryKind == {"none", "info", "unknown", "known"}
Readers == [pack : Modpack \cup {NoPack}, at : [Child -> {"look", "ask", "open", "drop", "note", "done"}],
            seen : [Child -> SummaryKind]]

\* A reader comes to `pc` with child c, having seen `summary` of it.
Moved(t, c, pc, summary) ==
  /\ reader' \in [Thread -> Readers]
  /\ \A u \in Thread : reader'[u].pack = reader[u].pack
  /\ \A u \in Thread : \A k \in Child : u # t \/ k # c =>
       reader'[u].at[k] = reader[u].at[k] /\ reader'[u].seen[k] = reader[u].seen[k]
  /\ reader'[t].at[c] = pc /\ reader'[t].seen[c] = summary

\* What a step changes of a reader.
LEMMA ReaderChanges ==
  ASSUME NEW r \in Readers, NEW at, NEW seen
  PROVE  /\ [r EXCEPT !.at = at] = [pack |-> r.pack, at |-> at, seen |-> r.seen]
         /\ [[pack |-> r.pack, at |-> at, seen |-> r.seen] EXCEPT !.seen = seen]
              = [pack |-> r.pack, at |-> at, seen |-> seen]
BY DEF Readers

LEMMA StepMoves ==
  ASSUME SummariesType, NEW t \in Thread, NEW c \in Child,
         NEW pc \in {"look", "ask", "open", "drop", "note", "done"}
  PROVE  /\ Step(t, c, pc) => Moved(t, c, pc, reader[t].seen[c])
         /\ \A summary \in SummaryKind : Sees(t, c, pc, summary) => Moved(t, c, pc, summary)
<1>1. reader \in [Thread -> Readers]  BY DEF SummariesType, Readers, SummaryKind
<1>2. \A u \in Thread : /\ reader[u].pack \in Modpack \cup {NoPack}
                        /\ reader[u].at \in [Child -> {"look", "ask", "open", "drop", "note", "done"}]
                        /\ reader[u].seen \in [Child -> SummaryKind]
  BY <1>1 DEF Readers
<1>3. ASSUME NEW summary \in SummaryKind,
             reader' = [reader EXCEPT ![t] = [pack |-> reader[t].pack, at |-> [reader[t].at EXCEPT ![c] = pc],
                                              seen |-> [reader[t].seen EXCEPT ![c] = summary]]]
      PROVE  Moved(t, c, pc, summary)
  <2> DEFINE new == [pack |-> reader[t].pack, at |-> [reader[t].at EXCEPT ![c] = pc],
                     seen |-> [reader[t].seen EXCEPT ![c] = summary]]
  <2>1. new \in Readers  BY <1>2 DEF Readers
  <2>2. /\ new.at[c] = pc /\ new.seen[c] = summary /\ new.pack = reader[t].pack
        /\ \A k \in Child \ {c} : new.at[k] = reader[t].at[k] /\ new.seen[k] = reader[t].seen[k]
    BY <1>2
  <2> HIDE DEF new
  <2>3. reader' \in [Thread -> Readers] /\ \A u \in Thread : reader'[u] = IF u = t THEN new ELSE reader[u]
    BY <1>1, <1>3, <2>1 DEF new
  <2> QED BY <2>2, <2>3 DEF Moved
<1>4. ASSUME Step(t, c, pc) PROVE Moved(t, c, pc, reader[t].seen[c])
  <2>1. reader' = [reader EXCEPT ![t] = [reader[t] EXCEPT !.at = [reader[t].at EXCEPT ![c] = pc]]]
    BY <1>4 DEF Step
  <2>2. [reader[t] EXCEPT !.at = [reader[t].at EXCEPT ![c] = pc]]
          = [pack |-> reader[t].pack, at |-> [reader[t].at EXCEPT ![c] = pc], seen |-> reader[t].seen]
    BY <1>1, ReaderChanges
  <2>3. [reader[t].seen EXCEPT ![c] = reader[t].seen[c]] = reader[t].seen  BY <1>2
  <2>4. reader[t].seen[c] \in SummaryKind  BY <1>2
  <2> QED BY <1>3, <2>1, <2>2, <2>3, <2>4
<1>5. ASSUME NEW summary \in SummaryKind, Sees(t, c, pc, summary) PROVE Moved(t, c, pc, summary)
  <2>1. reader' = [reader EXCEPT ![t] = [[reader[t] EXCEPT !.at = [reader[t].at EXCEPT ![c] = pc]]
                     EXCEPT !.seen = [reader[t].seen EXCEPT ![c] = summary]]]
    BY <1>1, <1>5 DEF Sees, Readers
  <2>2. [[reader[t] EXCEPT !.at = [reader[t].at EXCEPT ![c] = pc]]
                     EXCEPT !.seen = [reader[t].seen EXCEPT ![c] = summary]]
          = [pack |-> reader[t].pack, at |-> [reader[t].at EXCEPT ![c] = pc],
             seen |-> [reader[t].seen EXCEPT ![c] = summary]]
    <3> DEFINE at == [reader[t].at EXCEPT ![c] = pc]
               seen == [reader[t].seen EXCEPT ![c] = summary]
    <3>1. reader[t] \in Readers  BY <1>1
    <3> HIDE DEF at, seen
    <3> DEFINE new == [reader[t] EXCEPT !.at = at]
               new1 == [pack |-> reader[t].pack, at |-> at, seen |-> reader[t].seen]
    <3>2. new = new1  BY <3>1, ReaderChanges
    <3>3. [new1 EXCEPT !.seen = seen] = [pack |-> reader[t].pack, at |-> at, seen |-> seen]
      BY <3>1, ReaderChanges
    <3> HIDE DEF new, new1
    <3>4. [new EXCEPT !.seen = seen] = [new1 EXCEPT !.seen = seen]  BY <3>2
    <3> QED BY <3>3, <3>4 DEF new, at, seen
  <2> QED BY <1>3, <2>1, <2>2
<1> QED BY <1>4, <1>5

\* What is known of p and c is not taken back.
Stays(p, c) ==
  /\ ToCome(c) => ToCome(c)'
  /\ p \in missing[c] => p \in missing'[c]
  /\ c \notin infos => c \notin infos'
  /\ p \in missing_info[c] => p \in missing_info'[c]

\* All that has to be shown of a step: of a summary, and of a reader and a child,
\* that it stays, or that it is right after the step.
LEMMA Together ==
  ASSUME SummaryInv, SummariesType', raced \subseteq raced', UnknownIsTorn',
         \A p \in Modpack \ raced' : \A c \in Wants[p] : packs'[p] # NoPack =>
           (packs'[p] = packs[p] /\ Stays(p, c)) \/ PackIsCurrent(p, c)',
         \A t \in Thread : reader'[t].pack # NoPack /\ reader'[t].pack \notin raced' =>
           \A c \in Wants[reader'[t].pack] :
             \/ /\ reader'[t].pack = reader[t].pack /\ reader'[t].at[c] = reader[t].at[c]
                /\ reader'[t].seen[c] = reader[t].seen[c] /\ Stays(reader[t].pack, c)
             \/ ReaderIsCurrent(t, c)'
  PROVE  SummaryInv'
<1>1. ASSUME NEW p \in Modpack \ raced', packs'[p] # NoPack, NEW c \in Wants[p]
      PROVE  PackIsCurrent(p, c)'
  <2> SUFFICES ASSUME packs'[p] = packs[p], Stays(p, c) PROVE PackIsCurrent(p, c)'
    BY <1>1
  <2>1. PackIsCurrent(p, c)  BY <1>1 DEF SummaryInv
  <2> QED BY <2>1 DEF PackIsCurrent, Stays, ByHash, ById
<1>2. ASSUME NEW t \in Thread, reader'[t].pack # NoPack, reader'[t].pack \notin raced',
             NEW c \in Wants[reader'[t].pack]
      PROVE  ReaderIsCurrent(t, c)'
  <2> SUFFICES ASSUME reader'[t].pack = reader[t].pack, reader'[t].at[c] = reader[t].at[c],
                      reader'[t].seen[c] = reader[t].seen[c], Stays(reader[t].pack, c)
               PROVE  ReaderIsCurrent(t, c)'
    BY <1>2
  <2>1. ReaderIsCurrent(t, c)  BY <1>2 DEF SummaryInv, ReadersAreCurrent
  <2> QED BY <2>1 DEF ReaderIsCurrent, Stays, ByHash, ById
<1> QED BY <1>1, <1>2 DEF SummaryInv, ReadersAreCurrent

\* What a pack wants are children.
LEMMA WantedAreChildren == \A p \in Modpack : \A c \in Wants[p] : c \in Child
BY DEF Child

LEMMA ReaderTypes ==
  ASSUME SummariesType, NEW t \in Thread
  PROVE  /\ reader[t].pack \in Modpack \cup {NoPack}
         /\ \A c \in Child : /\ reader[t].at[c] \in {"look", "ask", "open", "drop", "note", "done"}
                             /\ reader[t].seen[c] \in SummaryKind
BY DEF SummariesType, SummaryKind

\* A reader's step with one child that tells nobody.
LEMMA MovedKeeps ==
  ASSUME SummaryInv, SummariesType', NEW t \in Thread, NEW c \in Child, NEW pc, NEW summary,
         Moved(t, c, pc, summary), reader[t].at[c] # "drop",
         UNCHANGED <<packs, infos, install, raced>>, UnknownIsTorn',
         \A k \in Child \ {c} : by_hash'[k] = by_hash[k],
         by_hash'[c] = by_hash[c] \/ pc = "drop",
         \A p \in Modpack : \A k \in Child :
           /\ p \in missing[k] => p \in missing'[k]
           /\ p \in missing_info[k] => p \in missing_info'[k],
         reader[t].pack # NoPack,
         reader[t].pack \notin raced /\ c \in Wants[reader[t].pack] => ReaderIsCurrent(t, c)'
  PROVE  SummaryInv'
<1>1. \A k \in Child : Dropping(k) => Dropping(k)'
  <2> SUFFICES ASSUME NEW k \in Child, Dropping(k) PROVE Dropping(k)'  OBVIOUS
  <2>1. CASE install[k] = "drop"  BY <2>1 DEF Dropping
  <2>2. ASSUME NEW u \in Thread, IsAt(u, k, "drop") PROVE Dropping(k)'
    <3>1. u # t \/ k # c  BY <2>2 DEF IsAt
    <3>2. reader'[u].pack = reader[u].pack /\ reader'[u].at[k] = reader[u].at[k]  BY <3>1 DEF Moved
    <3> QED BY <2>2, <3>2 DEF IsAt, Dropping
  <2> QED BY <2>1, <2>2 DEF Dropping
<1>2. pc = "drop" => Dropping(c)'
  <2> SUFFICES ASSUME pc = "drop" PROVE Dropping(c)'  OBVIOUS
  <2>1. reader'[t].pack # NoPack /\ reader'[t].at[c] = "drop"  BY DEF Moved
  <2> QED BY <2>1 DEF Dropping, IsAt
<1>3. \A p \in Modpack : \A k \in Child : Stays(p, k)
  BY <1>1, <1>2 DEF Stays, ToCome
<1>4. ASSUME NEW u \in Thread, reader'[u].pack # NoPack, reader'[u].pack \notin raced',
             NEW k \in Wants[reader'[u].pack]
      PROVE  \/ /\ reader'[u].pack = reader[u].pack /\ reader'[u].at[k] = reader[u].at[k]
                /\ reader'[u].seen[k] = reader[u].seen[k] /\ Stays(reader[u].pack, k)
             \/ ReaderIsCurrent(u, k)'
  <2>1. reader'[u].pack = reader[u].pack  BY DEF Moved
  <2>2. reader[u].pack \in Modpack /\ k \in Child
    BY <1>4, <2>1, ReaderTypes, WantedAreChildren DEF SummaryInv
  <2>3. CASE u = t /\ k = c  BY <1>4, <2>1, <2>3
  <2>4. CASE u # t \/ k # c  BY <1>3, <2>1, <2>2, <2>4 DEF Moved
  <2> QED BY <2>3, <2>4
<1> QED BY <1>3, <1>4, WantedAreChildren, Together


\* The packs that are without c are told, and nobody is to tell them any more.
LEMMA DropsKeep ==
  ASSUME SummaryInv, SummariesType', NEW c \in Child, DropParents(c),
         UNCHANGED <<by_hash, infos, missing_info, torn>>,
         \A k \in Child \ {c} : Dropping(k) => Dropping(k)',
         \A t \in Thread : reader'[t].pack = reader[t].pack,
         \A t \in Thread : \A k \in Child :
           \/ reader'[t].at[k] = reader[t].at[k] /\ reader'[t].seen[k] = reader[t].seen[k]
           \/ /\ k = c /\ reader[t].at[k] = "drop" /\ reader'[t].at[k] = "done"
              /\ reader'[t].seen[k] = reader[t].seen[k]
  PROVE  SummaryInv'
<1>1. /\ \A p \in Modpack : packs'[p] = IF p \in missing[c] THEN NoPack ELSE packs[p]
      /\ missing' = [missing EXCEPT ![c] = {}] /\ raced' = raced \cup Reading(c)
  BY DEF DropParents, drop_parents, Told
<1>2. \A k \in Child \ {c} : missing'[k] = missing[k]  BY <1>1 DEF SummaryInv, SummariesType
<1>3. \A p \in Modpack : \A k \in Child \ {c} : Stays(p, k)  BY <1>2 DEF Stays, ToCome
<1>4. ASSUME NEW p \in Modpack \ raced', packs'[p] # NoPack, c \in Wants[p]
      PROVE  PackIsCurrent(p, c)'
  <2>1. packs'[p] = packs[p] /\ p \notin missing[c] /\ PackIsCurrent(p, c)
    BY <1>1, <1>4 DEF SummaryInv
  <2> QED BY <2>1 DEF PackIsCurrent, ByHash, ById
<1>5. ASSUME NEW t \in Thread, reader'[t].pack # NoPack, reader'[t].pack \notin raced',
             NEW k \in Wants[reader'[t].pack]
      PROVE  \/ /\ reader'[t].pack = reader[t].pack /\ reader'[t].at[k] = reader[t].at[k]
                /\ reader'[t].seen[k] = reader[t].seen[k] /\ Stays(reader[t].pack, k)
             \/ ReaderIsCurrent(t, k)'
  <2>1. reader'[t].pack = reader[t].pack /\ reader[t].pack \in Modpack /\ k \in Child
    BY <1>5, ReaderTypes, WantedAreChildren DEF SummaryInv
  <2>2. ReaderIsCurrent(t, k)  BY <1>1, <1>5, <2>1 DEF SummaryInv, ReadersAreCurrent
  <2>3. CASE /\ k = c /\ reader[t].at[k] = "drop" /\ reader'[t].at[k] = "done"
             /\ reader'[t].seen[k] = reader[t].seen[k]
    BY <2>2, <2>3 DEF ReaderIsCurrent, ByHash, ById
  <2>4. CASE reader'[t].at[k] = reader[t].at[k] /\ reader'[t].seen[k] = reader[t].seen[k]
    <3>1. CASE k # c  BY <1>3, <2>1, <2>4, <3>1
    <3>2. CASE k = c
      <4>1. reader[t].pack \notin Reading(c)  BY <1>1, <1>5, <2>1
      <4>2. ~ (reader[t].seen[c] \in {"none", "info"} /\ reader[t].at[c] # "look")
        BY <1>5, <2>1, <3>2, <4>1 DEF Reading
      <4> QED BY <2>1, <2>2, <2>4, <3>2, <4>2 DEF ReaderIsCurrent, ByHash, ById
    <3> QED BY <3>1, <3>2
  <2> QED BY <2>1, <2>3, <2>4
<1>6. \A p \in Modpack : packs'[p] # NoPack => packs'[p] = packs[p]  BY <1>1
<1>7. UnknownIsTorn'  BY DEF SummaryInv, UnknownIsTorn
<1>8. \A p \in Modpack \ raced' : \A k \in Wants[p] : packs'[p] # NoPack =>
        (packs'[p] = packs[p] /\ Stays(p, k)) \/ PackIsCurrent(p, k)'
  <2> SUFFICES ASSUME NEW p \in Modpack \ raced', NEW k \in Wants[p], packs'[p] # NoPack
               PROVE  (packs'[p] = packs[p] /\ Stays(p, k)) \/ PackIsCurrent(p, k)'
    OBVIOUS
  <2>1. CASE k = c  BY <1>4, <2>1
  <2>2. CASE k # c  BY <1>3, <1>6, <2>2, WantedAreChildren
  <2> QED BY <2>1, <2>2
<1>9. raced \subseteq raced'  BY <1>1
<1> QED BY <1>5, <1>7, <1>8, <1>9, Together

\* The steps of a reader.
LEMMA ReadersKeep ==
  ASSUME SummaryInv, SummariesType', NEW t \in Thread, NEW c \in Child,
         Look(t, c) \/ Ask(t, c) \/ Open(t, c) \/ Note(t, c)
  PROVE  SummaryInv'
<1> DEFINE p == reader[t].pack
           seen == reader[t].seen[c]
<1>1. p # NoPack /\ p \in Modpack /\ seen \in SummaryKind /\ SummariesType
  BY ReaderTypes DEF SummaryInv, Look, Ask, Open, Note, IsAt
<1>2. p \notin raced /\ c \in Wants[p] => ReaderIsCurrent(t, c)
  BY <1>1 DEF SummaryInv, ReadersAreCurrent
<1>3. \A pc, summary : Moved(t, c, pc, summary) =>
        reader'[t].pack = p /\ reader'[t].at[c] = pc /\ reader'[t].seen[c] = summary
  BY DEF Moved
<1> HIDE DEF p, seen
<1>4. CASE Look(t, c)
  <2>1. /\ reader[t].at[c] = "look"
        /\ UNCHANGED <<by_hash, packs, missing, infos, missing_info, install, torn, raced>>
    BY <1>4 DEF Look, IsAt, kept, history
  <2>2. /\ p \notin Curseforge => Moved(t, c, "ask", seen)
        /\ p \in Curseforge /\ c \in infos => Moved(t, c, "ask", "info")
        /\ p \in Curseforge /\ c \notin infos => Moved(t, c, "note", seen)
    BY <1>1, <1>4, StepMoves DEF Look, SummaryKind, p, seen
  <2>3. PICK pc, summary : /\ Moved(t, c, pc, summary)
                           /\ \/ p \notin Curseforge /\ pc = "ask" /\ summary = seen
                              \/ p \in Curseforge /\ pc = "ask" /\ summary = "info"
                              \/ p \in Curseforge /\ c \notin infos /\ pc = "note" /\ summary = seen
    BY <2>2
  <2>4. p \notin raced /\ c \in Wants[p] => ReaderIsCurrent(t, c)'
    <3> SUFFICES ASSUME p \notin raced, c \in Wants[p] PROVE ReaderIsCurrent(t, c)'  OBVIOUS
    <3>1. seen = "none"  BY <1>2, <2>1 DEF ReaderIsCurrent, seen
    <3> QED BY <1>3, <2>1, <2>3, <3>1 DEF ReaderIsCurrent, ByHash, ById
  <2>5. UnknownIsTorn'  BY <2>1 DEF SummaryInv, UnknownIsTorn
  <2> QED BY <1>1, <2>1, <2>3, <2>4, <2>5, MovedKeeps DEF p
<1>5. CASE Ask(t, c)
  <2>1. /\ reader[t].at[c] = "ask"
        /\ UNCHANGED <<by_hash, packs, missing, infos, missing_info, install, torn, raced>>
    BY <1>5 DEF Ask, IsAt, kept, history
  <2>2. by_hash[c] \in SummaryKind /\ by_hash[c] # "info"  BY <1>1 DEF SummariesType, SummaryKind
  <2>3. /\ by_hash[c] # "none" => Moved(t, c, "done", by_hash[c])
        /\ by_hash[c] = "none" => Moved(t, c, "open", seen)
    BY <1>1, <1>5, <2>2, StepMoves DEF Ask, seen
  <2>4. PICK pc, summary : /\ Moved(t, c, pc, summary)
                           /\ \/ pc = "done" /\ summary \in {"unknown", "known"}
                              \/ by_hash[c] = "none" /\ pc = "open" /\ summary = seen
    BY <2>2, <2>3 DEF SummaryKind
  <2>5. p \notin raced /\ c \in Wants[p] => ReaderIsCurrent(t, c)'
    <3> SUFFICES ASSUME p \notin raced, c \in Wants[p] PROVE ReaderIsCurrent(t, c)'  OBVIOUS
    <3>1. ByHash(p, seen)  BY <1>2, <2>1 DEF ReaderIsCurrent, seen, p
    <3> QED BY <1>3, <2>1, <2>4, <3>1 DEF ReaderIsCurrent, ByHash, ById, ToCome
  <2>6. UnknownIsTorn'  BY <2>1 DEF SummaryInv, UnknownIsTorn
  <2> QED BY <1>1, <2>1, <2>4, <2>5, <2>6, MovedKeeps DEF p
<1>6. CASE Open(t, c)
  <2>1. /\ reader[t].at[c] = "open"
        /\ UNCHANGED <<packs, missing, infos, missing_info, install, raced>>
    BY <1>6 DEF Open, IsAt
  <2>2. CASE library[c] = "none"
    <3>1. Moved(t, c, "note", seen) /\ UNCHANGED <<by_hash, torn>>
      BY <1>1, <1>6, <2>2, StepMoves DEF Open, seen
    <3>2. p \notin raced /\ c \in Wants[p] => ReaderIsCurrent(t, c)'
      <4> SUFFICES ASSUME p \notin raced, c \in Wants[p] PROVE ReaderIsCurrent(t, c)'  OBVIOUS
      <4>1. ByHash(p, seen) /\ ~ ById(p, seen) /\ ToCome(c)
        BY <1>2, <2>1 DEF ReaderIsCurrent, ByHash, ById, seen, p
      <4>2. ToCome(c)'
        <5>1. ASSUME NEW u \in Thread, IsAt(u, c, "drop") PROVE IsAt(u, c, "drop")'
          <6>1. u # t  BY <2>1, <5>1 DEF IsAt
          <6> QED BY <3>1, <5>1, <6>1 DEF IsAt, Moved
        <5> QED BY <2>1, <3>1, <4>1, <5>1 DEF ToCome, Dropping
      <4> QED BY <1>3, <3>1, <4>1, <4>2 DEF ReaderIsCurrent
    <3>3. UnknownIsTorn'  BY <3>1 DEF SummaryInv, UnknownIsTorn
    <3> QED BY <1>1, <2>1, <3>1, <3>2, <3>3, MovedKeeps DEF p
  <2>3. CASE library[c] # "none"
    <3>1. /\ summary_of(c) \in {"unknown", "known"}
          /\ by_hash' = [by_hash EXCEPT ![c] = summary_of(c)]
          /\ torn' = torn \cup (IF library[c] = "part" THEN {c} ELSE {})
      BY <1>6, <2>3 DEF Open, Put, summary_of
    <3>2. Moved(t, c, "drop", summary_of(c))
      BY <1>1, <1>6, <2>3, <3>1, StepMoves DEF Open, SummaryKind
    <3>3. ReaderIsCurrent(t, c)'  BY <1>3, <3>1, <3>2 DEF ReaderIsCurrent
    <3>4. \A k \in Child : by_hash'[k] = IF k = c THEN summary_of(c) ELSE by_hash[k]
      BY <1>1, <3>1 DEF SummariesType
    <3>5. summary_of(c) = "unknown" => c \in torn'
      <4>1. library[c] \in {"none", "part", "whole"}  BY <1>1 DEF SummariesType
      <4> QED BY <2>3, <3>1, <4>1 DEF summary_of
    <3>6. UnknownIsTorn'  BY <3>1, <3>4, <3>5 DEF SummaryInv, UnknownIsTorn
    <3> QED BY <1>1, <2>1, <3>2, <3>3, <3>4, <3>6, MovedKeeps DEF p
  <2> QED BY <2>2, <2>3
<1>7. CASE Note(t, c)
  <2>1. /\ reader[t].at[c] = "note"
        /\ UNCHANGED <<by_hash, packs, infos, install, torn, raced>>
    BY <1>7 DEF Note, IsAt, history
  <2>2. Moved(t, c, "done", seen)  BY <1>1, <1>7, StepMoves DEF Note, seen
  <2>3. /\ missing \in [Child -> SUBSET Modpack] /\ missing_info \in [Child -> SUBSET Modpack]
        /\ IF ById(p, seen)
           THEN missing_info' = [missing_info EXCEPT ![c] = @ \cup {p}] /\ UNCHANGED missing
           ELSE missing' = [missing EXCEPT ![c] = @ \cup {p}] /\ UNCHANGED missing_info
    BY <1>1, <1>7 DEF Note, note, ById, SummariesType, p, seen
  <2>4. \A q \in Modpack : \A k \in Child :
           /\ q \in missing[k] => q \in missing'[k]
           /\ q \in missing_info[k] => q \in missing_info'[k]
    BY <2>3
  <2>5. /\ ById(p, seen) => p \in missing_info'[c]
        /\ ~ ById(p, seen) => p \in missing'[c]
    BY <2>3
  <2>6. p \notin raced /\ c \in Wants[p] => ReaderIsCurrent(t, c)'
    <3> SUFFICES ASSUME p \notin raced, c \in Wants[p] PROVE ReaderIsCurrent(t, c)'  OBVIOUS
    <3>1. /\ ByHash(p, seen) => ToCome(c)
          /\ ById(p, seen) => c \notin infos
      BY <1>2, <2>1 DEF ReaderIsCurrent, seen, p
    <3>2. ToCome(c) => ToCome(c)'
      <4>1. ASSUME NEW u \in Thread, IsAt(u, c, "drop") PROVE IsAt(u, c, "drop")'
        <5>1. u # t  BY <2>1, <4>1 DEF IsAt
        <5> QED BY <2>2, <4>1, <5>1 DEF IsAt, Moved
      <4> QED BY <2>1, <4>1 DEF ToCome, Dropping
    <3>3. ~ (ByHash(p, seen) /\ ById(p, seen))  BY DEF ByHash, ById
    <3> QED BY <1>3, <2>1, <2>2, <2>5, <3>1, <3>2, <3>3 DEF ReaderIsCurrent
  <2>7. UnknownIsTorn'  BY <2>1 DEF SummaryInv, UnknownIsTorn
  <2> QED BY <1>1, <2>1, <2>2, <2>4, <2>6, <2>7, MovedKeeps DEF p
<1> QED BY <1>4, <1>5, <1>6, <1>7


\* Steps that change no summary and no reader, and tell nobody.
LEMMA InstallsKeep ==
  ASSUME SummaryInv, SummariesType', UNCHANGED <<packs, missing, infos, missing_info, reader, raced>>,
         \A c \in Child : ToCome(c) => ToCome(c)', UnknownIsTorn'
  PROVE  SummaryInv'
<1>1. \A p \in Modpack : \A c \in Child : Stays(p, c)  BY DEF Stays
<1>2. \A t \in Thread : reader[t].pack # NoPack => reader[t].pack \in Modpack
  BY ReaderTypes DEF SummaryInv
<1> QED BY <1>1, <1>2, WantedAreChildren, Together

\* What an install does with a child.
LEMMA InstallStepsKeep ==
  ASSUME SummaryInv, SummariesType', NEW c \in Child,
         RequestFile(c) \/ Receive(c) \/ FailInstall(c) \/ Get(c)
  PROVE  SummaryInv'
<1>1. /\ UNCHANGED <<packs, missing, infos, missing_info, reader, raced>>
      /\ UNCHANGED torn
  BY DEF RequestFile, Receive, FailInstall, Get, kept, history
<1>2. SummariesType  BY DEF SummaryInv
<1>3. \A k \in Child : \A t \in Thread : IsAt(t, k, "drop") => IsAt(t, k, "drop")'  BY <1>1 DEF IsAt
<1>4. CASE RequestFile(c) \/ Receive(c) \/ FailInstall(c)
  <2>1. UNCHANGED by_hash  BY <1>4 DEF RequestFile, Receive, FailInstall, kept
  <2>2. \A k \in Child : install[k] = "drop" => install'[k] = "drop"
    BY <1>2, <1>4 DEF SummariesType, RequestFile, Receive, FailInstall, Go
  <2>3. \A k \in Child : ToCome(k) => ToCome(k)'
    BY <1>3, <2>1, <2>2 DEF ToCome, Dropping
  <2>4. UnknownIsTorn'  BY <1>1, <2>1 DEF SummaryInv, UnknownIsTorn
  <2> QED BY <1>1, <2>3, <2>4, InstallsKeep
<1>5. CASE Get(c)
  <2>1. /\ install[c] = "get"
        /\ \/ by_hash' = [by_hash EXCEPT ![c] = "known"] /\ install' = [install EXCEPT ![c] = "drop"]
           \/ UNCHANGED by_hash /\ install' = [install EXCEPT ![c] = "none"]
    BY <1>5 DEF Get, Put, Go
  <2>2. \A k \in Child : /\ install[k] = "drop" => install'[k] = "drop"
                         /\ \/ by_hash'[k] = by_hash[k]
                            \/ by_hash'[k] = "known" /\ install'[k] = "drop"
    BY <1>2, <2>1 DEF SummariesType
  <2>3. \A k \in Child : ToCome(k) => ToCome(k)'
    BY <1>3, <2>2 DEF ToCome, Dropping
  <2>4. UnknownIsTorn'  BY <1>1, <2>2 DEF SummaryInv, UnknownIsTorn
  <2> QED BY <1>1, <2>3, <2>4, InstallsKeep
<1> QED BY <1>4, <1>5

\* An install begins when there is none.
LEMMA StartInstallKeeps ==
  ASSUME SummaryInv, SummariesType', NEW p \in Modpack, StartInstall(p)
  PROVE  SummaryInv'
<1>1. /\ UNCHANGED <<by_hash, packs, missing, infos, missing_info, reader, raced, torn>>
      /\ \A c \in Child : install[c] = "none"
  BY DEF StartInstall, kept
<1>2. \A c \in Child : ToCome(c) => ToCome(c)'  BY <1>1 DEF ToCome, Dropping, IsAt
<1>3. UnknownIsTorn'  BY <1>1 DEF SummaryInv, UnknownIsTorn
<1> QED BY <1>1, <1>2, <1>3, InstallsKeep

\* Those who wait for an information are told of it.
LEMMA InfoKeeps ==
  ASSUME SummaryInv, SummariesType', NEW c \in Child, set_cached_curseforge_info(c)
  PROVE  SummaryInv'
<1>1. /\ install[c] = "info" /\ install' = [install EXCEPT ![c] = "want"]
      /\ infos' = infos \cup {c} /\ missing_info' = [missing_info EXCEPT ![c] = {}]
      /\ \A p \in Modpack : packs'[p] = IF p \in missing_info[c] THEN NoPack ELSE packs[p]
      /\ raced' = raced \cup {p \in Reading(c) : p \in Curseforge}
      /\ UNCHANGED <<by_hash, missing, reader, torn>>
  BY DEF set_cached_curseforge_info, Told, Go
<1>2. \A k \in Child : install[k] = "drop" => install'[k] = "drop"
  BY <1>1 DEF SummaryInv, SummariesType
<1>3. \A k \in Child : ToCome(k) => ToCome(k)'  BY <1>1, <1>2 DEF ToCome, Dropping, IsAt
<1>4. \A k \in Child \ {c} : missing_info'[k] = missing_info[k]
  BY <1>1 DEF SummaryInv, SummariesType
<1>5. \A p \in Modpack : \A k \in Child \ {c} : Stays(p, k)  BY <1>1, <1>3, <1>4 DEF Stays
<1>6. ASSUME NEW p \in Modpack \ raced', NEW k \in Wants[p], packs'[p] # NoPack
      PROVE  (packs'[p] = packs[p] /\ Stays(p, k)) \/ PackIsCurrent(p, k)'
  <2>1. packs'[p] = packs[p] /\ p \notin missing_info[c] /\ PackIsCurrent(p, k) /\ k \in Child
    BY <1>1, <1>6, WantedAreChildren DEF SummaryInv
  <2>2. CASE k # c  BY <1>5, <2>1, <2>2
  <2>3. CASE k = c
    <3>1. ~ ById(p, packs[p][c])  BY <2>1, <2>3 DEF PackIsCurrent
    <3> QED BY <1>1, <1>3, <2>1, <2>3, <3>1 DEF PackIsCurrent, ByHash, ById
  <2> QED BY <2>2, <2>3
<1>7. ASSUME NEW t \in Thread, reader'[t].pack # NoPack, reader'[t].pack \notin raced',
             NEW k \in Wants[reader'[t].pack]
      PROVE  \/ /\ reader'[t].pack = reader[t].pack /\ reader'[t].at[k] = reader[t].at[k]
                /\ reader'[t].seen[k] = reader[t].seen[k] /\ Stays(reader[t].pack, k)
             \/ ReaderIsCurrent(t, k)'
  <2> DEFINE p == reader[t].pack
  <2>1. reader' = reader /\ p \in Modpack /\ k \in Child
    BY <1>1, <1>7, ReaderTypes, WantedAreChildren DEF SummaryInv
  <2>2. ReaderIsCurrent(t, k)  BY <1>1, <1>7, <2>1 DEF SummaryInv, ReadersAreCurrent
  <2>3. CASE k # c  BY <1>5, <2>1, <2>3
  <2>4. CASE k = c
    <3>1. p \notin {q \in Reading(c) : q \in Curseforge}  BY <1>1, <1>7, <2>1
    <3>2. ~ (ById(p, reader[t].seen[c]) /\ reader[t].at[c] # "look")
      BY <1>7, <2>1, <2>4, <3>1 DEF Reading, ById
    <3> QED BY <1>1, <1>3, <2>1, <2>2, <2>4, <3>2 DEF ReaderIsCurrent, ByHash, ById
  <2> QED BY <2>3, <2>4
<1>8. UnknownIsTorn'  BY <1>1 DEF SummaryInv, UnknownIsTorn
<1>9. raced \subseteq raced'  BY <1>1
<1> QED BY <1>6, <1>7, <1>8, <1>9, Together

\* A thread begins to read a pack.
LEMMA GetPackKeeps ==
  ASSUME SummaryInv, SummariesType', NEW t \in Thread, NEW p \in Modpack, GetPack(t, p)
  PROVE  SummaryInv'
<1> DEFINE new == [NoReader EXCEPT !.pack = p, !.at = [c \in Child |-> IF c \in Wants[p] THEN "look" ELSE "done"]]
<1>1. /\ reader[t].pack = NoPack /\ reader' = [reader EXCEPT ![t] = new]
      /\ UNCHANGED <<by_hash, packs, missing, infos, missing_info, install, raced, torn>>
  BY DEF GetPack, kept, history
<1>2. new.pack = p /\ \A c \in Wants[p] : new.at[c] = "look" /\ new.seen[c] = "none"
  BY WantedAreChildren DEF NoReader
<1> HIDE DEF new
<1>3. /\ reader'[t] = new /\ \A u \in Thread \ {t} : reader'[u] = reader[u]
  BY <1>1 DEF SummaryInv, SummariesType
<1>4. \A c \in Child : ToCome(c) => ToCome(c)'
  BY <1>1, <1>3 DEF ToCome, Dropping, IsAt
<1>5. \A q \in Modpack : \A c \in Child : Stays(q, c)  BY <1>1, <1>4 DEF Stays
<1>6. \A c \in Wants[p] : ReaderIsCurrent(t, c)'
  BY <1>2, <1>3 DEF ReaderIsCurrent
<1>7. \A u \in Thread : reader[u].pack # NoPack => reader[u].pack \in Modpack
  BY ReaderTypes DEF SummaryInv
<1>8. UnknownIsTorn'  BY <1>1 DEF SummaryInv, UnknownIsTorn
<1>9. ASSUME NEW u \in Thread, reader'[u].pack # NoPack, NEW k \in Wants[reader'[u].pack]
      PROVE  \/ /\ reader'[u].pack = reader[u].pack /\ reader'[u].at[k] = reader[u].at[k]
                /\ reader'[u].seen[k] = reader[u].seen[k] /\ Stays(reader[u].pack, k)
             \/ ReaderIsCurrent(u, k)'
  <2>1. CASE u = t  BY <1>2, <1>3, <1>6, <1>9, <2>1
  <2>2. CASE u # t  BY <1>3, <1>5, <1>7, <1>9, <2>2, WantedAreChildren
  <2> QED BY <2>1, <2>2
<1>10. \A q \in Modpack : \A k \in Wants[q] : packs'[q] = packs[q] /\ Stays(q, k)
  BY <1>1, <1>5, WantedAreChildren
<1> QED BY <1>1, <1>8, <1>9, <1>10, Together

\* What it has seen is kept.
LEMMA PutPackKeeps ==
  ASSUME SummaryInv, SummariesType', NEW t \in Thread, PutPack(t)
  PROVE  SummaryInv'
<1>1. PICK p : p = reader[t].pack  OBVIOUS
<1>2. /\ p # NoPack /\ \A c \in Child : reader[t].at[c] = "done"
      /\ packs' = [packs EXCEPT ![p] = reader[t].seen]
      /\ reader' = [reader EXCEPT ![t] = NoReader]
      /\ UNCHANGED <<by_hash, missing, infos, missing_info, install, raced, torn>>
  BY <1>1 DEF PutPack, history
<1>3. p \in Modpack  BY <1>1, <1>2, ReaderTypes DEF SummaryInv
<1>4. /\ reader'[t].pack = NoPack /\ \A u \in Thread \ {t} : reader'[u] = reader[u]
      /\ packs'[p] = reader[t].seen /\ \A q \in Modpack \ {p} : packs'[q] = packs[q]
  BY <1>2, <1>3 DEF SummaryInv, SummariesType, NoReader
<1>5. \A c \in Child : ToCome(c) => ToCome(c)'
  BY <1>2, <1>4 DEF ToCome, Dropping, IsAt
<1>6. \A q \in Modpack : \A c \in Child : Stays(q, c)  BY <1>2, <1>5 DEF Stays
<1>7. ASSUME p \notin raced, NEW c \in Wants[p] PROVE PackIsCurrent(p, c)'
  <2>1. c \in Child /\ reader[t].at[c] = "done"  BY <1>2, <1>3, WantedAreChildren
  <2>2. ReaderIsCurrent(t, c)  BY <1>1, <1>2, <1>7 DEF SummaryInv, ReadersAreCurrent
  <2>3. /\ ByHash(p, reader[t].seen[c]) => ToCome(c) /\ p \in missing[c]
        /\ ById(p, reader[t].seen[c]) => c \notin infos /\ p \in missing_info[c]
    BY <1>1, <2>1, <2>2 DEF ReaderIsCurrent
  <2> QED BY <1>2, <1>4, <1>5, <2>1, <2>3 DEF PackIsCurrent, ByHash, ById
<1>8. \A u \in Thread : reader[u].pack # NoPack => reader[u].pack \in Modpack
  BY ReaderTypes DEF SummaryInv
<1>9. UnknownIsTorn'  BY <1>2 DEF SummaryInv, UnknownIsTorn
<1>10. ASSUME NEW u \in Thread, reader'[u].pack # NoPack, NEW k \in Wants[reader'[u].pack]
       PROVE  /\ reader'[u].pack = reader[u].pack /\ reader'[u].at[k] = reader[u].at[k]
              /\ reader'[u].seen[k] = reader[u].seen[k] /\ Stays(reader[u].pack, k)
  BY <1>4, <1>6, <1>8, <1>10, WantedAreChildren
<1>11. ASSUME NEW q \in Modpack \ raced', NEW k \in Wants[q]
       PROVE  (packs'[q] = packs[q] /\ Stays(q, k)) \/ PackIsCurrent(q, k)'
  <2>1. CASE q = p  BY <1>2, <1>7, <2>1
  <2>2. CASE q # p  BY <1>4, <1>6, <2>2, WantedAreChildren
  <2> QED BY <2>1, <2>2
<1> QED BY <1>2, <1>9, <1>10, <1>11, Together

\* An install, and a reader, tell the packs that are without a child.
LEMMA DroppersKeep ==
  ASSUME SummaryInv, SummariesType', NEW c \in Child,
         InstallDrops(c) \/ \E t \in Thread : ReaderDrops(t, c)
  PROVE  SummaryInv'
<1>1. SummariesType  BY DEF SummaryInv
<1>2. CASE InstallDrops(c)
  <2>1. /\ install' = [install EXCEPT ![c] = "none"] /\ DropParents(c)
        /\ UNCHANGED <<by_hash, infos, missing_info, reader, torn>>
    BY <1>2 DEF InstallDrops, Go
  <2>2. \A k \in Child \ {c} : install'[k] = install[k]  BY <1>1, <2>1 DEF SummariesType
  <2>3. \A k \in Child \ {c} : Dropping(k) => Dropping(k)'  BY <2>1, <2>2 DEF Dropping, IsAt
  <2> QED BY <2>1, <2>3, DropsKeep
<1>3. ASSUME NEW t \in Thread, ReaderDrops(t, c) PROVE SummaryInv'
  <2>1. /\ reader[t].pack # NoPack /\ reader[t].at[c] = "drop" /\ Step(t, c, "done") /\ DropParents(c)
        /\ UNCHANGED <<by_hash, infos, missing_info, install, torn>>
    BY <1>3 DEF ReaderDrops, IsAt
  <2>2. Moved(t, c, "done", reader[t].seen[c])  BY <1>1, <2>1, StepMoves
  <2>3. \A k \in Child \ {c} : Dropping(k) => Dropping(k)'
    BY <2>1, <2>2 DEF Dropping, IsAt, Moved
  <2> QED BY <2>1, <2>2, <2>3, DropsKeep DEF Moved
<1> QED BY <1>2, <1>3

LEMMA StartAgainKeeps ==
  ASSUME SummariesType', StartAgain
  PROVE  SummaryInv'
<1>1. /\ \A c \in Child : by_hash'[c] = "none"
      /\ \A p \in Modpack : packs'[p] = NoPack
      /\ \A t \in Thread : reader'[t].pack = NoPack
  BY DEF StartAgain, NoReader
<1> QED BY <1>1 DEF SummaryInv, ReadersAreCurrent, UnknownIsTorn

-----------------------------------------------------------------------------
(* The types. *)

LEMMA ReaderStepsTyped ==
  ASSUME SummariesType, NEW t \in Thread,
         \/ \E p \in Modpack : GetPack(t, p)
         \/ \E c \in Child : Look(t, c) \/ Ask(t, c) \/ Open(t, c) \/ ReaderDrops(t, c) \/ Note(t, c)
         \/ PutPack(t)
  PROVE  SummariesType'
<1>1. NoReader \in Readers  BY DEF NoReader, Readers, SummaryKind
<1>2. reader \in [Thread -> Readers]  BY DEF SummariesType, Readers, SummaryKind
<1>3. ASSUME NEW p \in Modpack, GetPack(t, p) PROVE SummariesType'
  <2> DEFINE at == [c \in Child |-> IF c \in Wants[p] THEN "look" ELSE "done"]
             new == [NoReader EXCEPT !.pack = p, !.at = at]
  <2>1. reader' = [reader EXCEPT ![t] = new] /\ UNCHANGED <<library, kept, install>>
    BY <1>3 DEF GetPack
  <2>2. new \in Readers  BY DEF NoReader, Readers, SummaryKind
  <2> HIDE DEF new
  <2>3. reader' \in [Thread -> Readers]  BY <1>2, <2>1, <2>2
  <2> QED BY <2>1, <2>3 DEF SummariesType, kept, Readers, SummaryKind
<1>4. ASSUME NEW c \in Child, Look(t, c) \/ Ask(t, c) \/ Open(t, c) \/ ReaderDrops(t, c) \/ Note(t, c)
      PROVE  SummariesType'
  <2>1. by_hash[c] \in SummaryKind /\ reader[t].pack \in Modpack \cup {NoPack} /\ summary_of(c) \in {"known", "unknown"}
    BY ReaderTypes DEF SummariesType, SummaryKind, summary_of
  <2>2. reader' \in [Thread -> Readers]
    <3>1. CASE Look(t, c)  BY <3>1, StepMoves DEF Look, Moved, SummaryKind
    <3>2. CASE Ask(t, c)  BY <2>1, <3>2, StepMoves DEF Ask, Moved
    <3>3. CASE Open(t, c)  BY <2>1, <3>3, StepMoves DEF Open, Moved, SummaryKind
    <3>4. CASE ReaderDrops(t, c)  BY <3>4, StepMoves DEF ReaderDrops, Moved
    <3>5. CASE Note(t, c)  BY <3>5, StepMoves DEF Note, Moved
    <3> QED BY <1>4, <3>1, <3>2, <3>3, <3>4, <3>5
  <2>3. CASE Look(t, c) \/ Ask(t, c)
    BY <2>2, <2>3 DEF Look, Ask, SummariesType, kept, Readers, SummaryKind
  <2>4. CASE Open(t, c)
    <3>1. /\ by_hash' = by_hash \/ by_hash' = [by_hash EXCEPT ![c] = summary_of(c)]
          /\ UNCHANGED <<library, packs, missing, infos, missing_info, install>>
      BY <2>4 DEF Open, Put
    <3>2. by_hash' \in [Child -> {"none", "unknown", "known"}]  BY <2>1, <3>1 DEF SummariesType
    <3> QED BY <2>2, <3>1, <3>2 DEF SummariesType, Readers, SummaryKind
  <2>5. CASE ReaderDrops(t, c)
    <3>1. /\ packs' = [p \in Modpack |-> IF p \in missing[c] THEN NoPack ELSE packs[p]]
          /\ missing' = [missing EXCEPT ![c] = {}]
          /\ UNCHANGED <<library, by_hash, infos, missing_info, install>>
      BY <2>5 DEF ReaderDrops, DropParents, Told, drop_parents
    <3>2. packs' \in [Modpack -> [Child -> SummaryKind] \cup {NoPack}]
      BY <3>1 DEF SummariesType, SummaryKind
    <3>3. missing' \in [Child -> SUBSET Modpack]  BY <3>1 DEF SummariesType
    <3> QED BY <2>2, <3>1, <3>2, <3>3 DEF SummariesType, Readers, SummaryKind
  <2>6. CASE Note(t, c)
    <3>1. /\ reader[t].pack \in Modpack
          /\ UNCHANGED <<library, by_hash, packs, infos, install>>
          /\ \/ missing_info' = [missing_info EXCEPT ![c] = @ \cup {reader[t].pack}] /\ UNCHANGED missing
             \/ missing' = [missing EXCEPT ![c] = @ \cup {reader[t].pack}] /\ UNCHANGED missing_info
      BY <2>1, <2>6 DEF Note, IsAt, note
    <3>2. missing' \in [Child -> SUBSET Modpack] /\ missing_info' \in [Child -> SUBSET Modpack]
      BY <3>1 DEF SummariesType
    <3> QED BY <2>2, <3>1, <3>2 DEF SummariesType, Readers, SummaryKind
  <2> QED BY <1>4, <2>3, <2>4, <2>5, <2>6
<1>5. CASE PutPack(t)
  <2>1. /\ packs' = [packs EXCEPT ![reader[t].pack] = reader[t].seen]
        /\ reader' = [reader EXCEPT ![t] = NoReader]
        /\ UNCHANGED <<library, by_hash, missing, infos, missing_info, install>>
    BY <1>5 DEF PutPack
  <2>2. reader[t].seen \in [Child -> SummaryKind]  BY <1>2 DEF Readers
  <2>3. packs' \in [Modpack -> [Child -> SummaryKind] \cup {NoPack}]
    BY <2>1, <2>2 DEF SummariesType, SummaryKind
  <2>4. reader' \in [Thread -> Readers]  BY <1>1, <1>2, <2>1
  <2> QED BY <2>1, <2>3, <2>4 DEF SummariesType, Readers, SummaryKind
<1> QED BY <1>3, <1>4, <1>5

LEMMA InstallStepsTyped ==
  ASSUME SummariesType, NEW c \in Child,
         \/ set_cached_curseforge_info(c) \/ RequestFile(c) \/ Receive(c) \/ FailInstall(c) \/ Get(c)
         \/ InstallDrops(c)
  PROVE  SummariesType'
<1> DEFINE Pcs == {"none", "want", "info", "stream", "get", "drop"}
<1>1. CASE set_cached_curseforge_info(c)
  <2>1. /\ packs' = [p \in Modpack |-> IF p \in missing_info[c] THEN NoPack ELSE packs[p]]
        /\ missing_info' = [missing_info EXCEPT ![c] = {}]
        /\ infos' = infos \cup {c} /\ install' = [install EXCEPT ![c] = "want"]
        /\ UNCHANGED <<library, by_hash, missing, reader>>
    BY <1>1 DEF set_cached_curseforge_info, Told, Go
  <2>2. packs' \in [Modpack -> [Child -> SummaryKind] \cup {NoPack}]
    BY <2>1 DEF SummariesType, SummaryKind
  <2>3. missing_info' \in [Child -> SUBSET Modpack] /\ install' \in [Child -> Pcs]
    BY <2>1 DEF SummariesType
  <2> QED BY <2>1, <2>2, <2>3 DEF SummariesType, SummaryKind
<1>2. CASE RequestFile(c) \/ Receive(c) \/ FailInstall(c)
  <2>1. UNCHANGED <<by_hash, packs, missing, infos, missing_info, reader>>
    BY <1>2 DEF RequestFile, Receive, FailInstall, kept
  <2>2. library' \in [Child -> {"none", "part", "whole"}]
    BY <1>2 DEF SummariesType, RequestFile, Receive, FailInstall
  <2>3. install' \in [Child -> Pcs]
    BY <1>2 DEF SummariesType, RequestFile, Receive, FailInstall, Go
  <2> QED BY <2>1, <2>2, <2>3 DEF SummariesType
<1>3. CASE Get(c)
  <2>1. UNCHANGED <<library, packs, missing, infos, missing_info, reader>>
    BY <1>3 DEF Get
  <2>2. by_hash' \in [Child -> {"none", "unknown", "known"}] /\ install' \in [Child -> Pcs]
    BY <1>3 DEF SummariesType, Get, Put, Go
  <2> QED BY <2>1, <2>2 DEF SummariesType
<1>4. CASE InstallDrops(c)
  <2>1. /\ packs' = [p \in Modpack |-> IF p \in missing[c] THEN NoPack ELSE packs[p]]
        /\ missing' = [missing EXCEPT ![c] = {}] /\ install' = [install EXCEPT ![c] = "none"]
        /\ UNCHANGED <<library, by_hash, infos, missing_info, reader>>
    BY <1>4 DEF InstallDrops, DropParents, Told, drop_parents, Go
  <2>2. packs' \in [Modpack -> [Child -> SummaryKind] \cup {NoPack}]
    BY <2>1 DEF SummariesType, SummaryKind
  <2>3. missing' \in [Child -> SUBSET Modpack] /\ install' \in [Child -> Pcs]
    BY <2>1 DEF SummariesType
  <2> QED BY <2>1, <2>2, <2>3 DEF SummariesType, SummaryKind
<1> QED BY <1>1, <1>2, <1>3, <1>4

LEMMA SummariesTyped == SummariesType /\ [SummariesNext]_summaries_vars => SummariesType'
<1> SUFFICES ASSUME SummariesType, [SummariesNext]_summaries_vars PROVE SummariesType'  OBVIOUS
<1>1. ASSUME NEW t \in Thread, ReaderStep(t) PROVE SummariesType'
  BY <1>1, ReaderStepsTyped DEF ReaderStep
<1>2. ASSUME NEW p \in Modpack, StartInstall(p) PROVE SummariesType'
  BY <1>2 DEF StartInstall, SummariesType, kept
<1>3. CASE StartAgain
  <2>1. NoReader \in Readers  BY DEF NoReader, Readers, SummaryKind
  <2>2. reader' \in [Thread -> Readers]  BY <1>3, <2>1 DEF StartAgain
  <2> QED BY <1>3, <2>2 DEF StartAgain, SummariesType, Readers, SummaryKind
<1>4. CASE UNCHANGED summaries_vars
  BY <1>4 DEF summaries_vars, kept, SummariesType
<1> QED BY <1>1, <1>2, <1>3, <1>4, InstallStepsTyped DEF SummariesNext

-----------------------------------------------------------------------------
LEMMA SummaryInvInitially == SummariesInit => SummaryInv
<1> SUFFICES ASSUME SummariesInit PROVE SummaryInv  OBVIOUS
<1>1. NoReader \in Readers /\ NoReader.pack = NoPack  BY DEF NoReader, Readers, SummaryKind
<1>2. SummariesType
  BY <1>1 DEF SummariesInit, SummariesType, Readers, SummaryKind
<1>3. \A t \in Thread : reader[t].pack = NoPack  BY <1>1 DEF SummariesInit
<1>4. (\A p \in Modpack : packs[p] = NoPack) /\ \A c \in Child : by_hash[c] = "none"
  BY DEF SummariesInit
<1> QED BY <1>2, <1>3, <1>4 DEF SummaryInv, ReadersAreCurrent, UnknownIsTorn

LEMMA SummaryInvStays == SummaryInv /\ [SummariesNext]_summaries_vars => SummaryInv'
<1> SUFFICES ASSUME SummaryInv, [SummariesNext]_summaries_vars PROVE SummaryInv'  OBVIOUS
<1>1. SummariesType'  BY SummariesTyped DEF SummaryInv
<1>2. ASSUME NEW t \in Thread, ReaderStep(t) PROVE SummaryInv'
  BY <1>1, <1>2, GetPackKeeps, ReadersKeep, DroppersKeep, PutPackKeeps DEF ReaderStep
<1>3. ASSUME NEW p \in Modpack, StartInstall(p) PROVE SummaryInv'
  BY <1>1, <1>3, StartInstallKeeps
<1>4. ASSUME NEW c \in Child,
             \/ set_cached_curseforge_info(c) \/ RequestFile(c) \/ Receive(c) \/ FailInstall(c) \/ Get(c)
             \/ InstallDrops(c)
      PROVE  SummaryInv'
  BY <1>1, <1>4, InfoKeeps, InstallStepsKeep, DroppersKeep
<1>5. CASE StartAgain  BY <1>1, <1>5, StartAgainKeeps
<1>6. CASE UNCHANGED summaries_vars
  <2>1. UNCHANGED <<library, by_hash, packs, missing, infos, missing_info, reader, install, raced, torn>>
    BY <1>6 DEF summaries_vars, kept, history
  <2>2. \A c \in Child : ToCome(c) => ToCome(c)'  BY <2>1 DEF ToCome, Dropping, IsAt
  <2>3. UnknownIsTorn'  BY <2>1 DEF SummaryInv, UnknownIsTorn
  <2> QED BY <1>1, <2>1, <2>2, <2>3, InstallsKeep
<1> QED BY <1>2, <1>3, <1>4, <1>5, <1>6 DEF SummariesNext

\* The summary of a pack that is kept has what there is of its children, or will be
\* dropped, and a summary is what its file says, unless they were read as the file
\* came (mod_metadata.rs).
THEOREM SummariesStayCurrent == SummariesSpec => []SummariesAreCurrent
<1>1. SummaryInv => SummariesAreCurrent
  <2> SUFFICES ASSUME SummaryInv PROVE PacksAreCurrent /\ UnknownIsTorn
    BY DEF SummariesAreCurrent, SummaryInv
  <2>1. UnknownIsTorn  BY DEF SummaryInv
  <2>2. ASSUME NEW p \in Modpack \ raced, packs[p] # NoPack, NEW c \in Wants[p]
        PROVE  PackIsCurrent(p, c)
    BY <2>2 DEF SummaryInv
  <2>3. PacksAreCurrent
    BY <2>2 DEF PacksAreCurrent, PackIsCurrent, ByHash, ById, ToCome
  <2> QED BY <2>1, <2>3
<1> QED BY <1>1, SummaryInvInitially, SummaryInvStays, PTL DEF SummariesSpec
=============================================================================
