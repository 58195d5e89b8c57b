---------------------------- MODULE ConfigProofs ----------------------------
(***************************************************************************)
(* Proofs about what the user arranges and the program keeps: any canvas   *)
(* and any drags, any files and any sources, any script instances, any     *)
(* settings a panel may remember and any names in the channel tree.        *)
(***************************************************************************)
EXTENDS MCConfig, Sublists, FunctionTheorems, FiniteSetTheorems, SequenceTheorems,
        WellFoundedInduction, TLAPS

SafeSpec == Init /\ [][Next]_vars

LEMMA FairIsSafe == FairSpec => SafeSpec
BY PTL DEF FairSpec, SafeSpec

LEMMA SceneStays == ASSUME [Next]_vars PROVE scene' = scene
BY DEF Next, vars

-----------------------------------------------------------------------------
(* Writing into a file. *)

Filed == Contents \cup {NoFile, Unreadable, Malformed}

LEMMA ContentsReadable ==
  \A f \in Contents : Kept!Readable(f) /\ Kept!Text(f) = f /\ f \notin {NoFile, Unreadable, Malformed}
BY FilesAssumption DEF Kept!Readable, Kept!Text

LEMMA EmptyIsContents == Kept!Empty \in Contents /\ Kept!Default \in Contents
<1>1. Kept!NoScripts \in ScriptTables
  BY FilesAssumption DEF Kept!NoScripts, ScriptTables
<1>2. Kept!Empty \in Contents
  BY <1>1, FilesAssumption DEF Kept!Empty, Contents
<1>3. "default" \in Words
  BY FilesAssumption
<1>. QED
  BY <1>2, <1>3 DEF Kept!Default, Contents

(* What is written into a file that can be written. *)
LEMMA TextIsContents ==
  ASSUME NEW f \in Filed, f # Malformed
  PROVE  Kept!Text(f) \in Contents /\ (Kept!Readable(f) => f \in Contents /\ Kept!Text(f) = f)
BY ContentsReadable, EmptyIsContents DEF Filed, Kept!Text, Kept!Readable

LEMMA ScriptsRead ==
  ASSUME NEW f \in Contents
  PROVE  /\ Kept!scripts_from(f) \in ScriptTables
         /\ Kept!scripts_from(f) = IF f.scripts = Malformed THEN Kept!NoScripts ELSE f.scripts
<1>1. Kept!NoScripts \in ScriptTables /\ f.scripts \in ScriptTables \cup {Malformed}
  BY FilesAssumption DEF Kept!NoScripts, Contents, ScriptTables
<1>. QED
  BY <1>1, ContentsReadable DEF Kept!scripts_from

LEMMA SourcesRead ==
  ASSUME NEW f \in Contents
  PROVE  /\ Kept!sources_from(f) \in SUBSET Kinds
         /\ Kept!sources_from(f) = IF f.sources = Malformed THEN {} ELSE f.sources
BY ContentsReadable DEF Kept!sources_from, Contents

(* A text that lost some of its parts has the others. *)
LEMMA WithoutParts ==
  ASSUME NEW f \in Contents, NEW lost
  PROVE  LET g == Kept!Without(f, lost)
         IN /\ g \in Contents /\ g.above = f.above \ lost
            /\ "rest" \notin lost => g.rest = f.rest
            /\ Kept!scripts_from(g) =
                 IF "scripts" \in lost THEN Kept!NoScripts ELSE Kept!scripts_from(f)
            /\ Kept!sources_from(g) = IF "sources" \in lost THEN {} ELSE Kept!sources_from(f)
<1>. DEFINE g == Kept!Without(f, lost)
<1>1. /\ f.rest \in Words /\ f.layout \in {0, 1} /\ f.scripts \in {Malformed} \cup ScriptTables
      /\ f.sources \in {Malformed} \cup SUBSET Kinds /\ f.above \ lost \in SUBSET Kept!Above
  BY DEF Contents
<1>2. "none" \in Words /\ Kept!NoScripts \in ScriptTables /\ {} \in SUBSET Kinds
  BY FilesAssumption DEF Kept!NoScripts, ScriptTables
<1>3. /\ g \in Contents /\ g.above = f.above \ lost
      /\ g.rest = IF "rest" \in lost THEN "none" ELSE f.rest
      /\ g.scripts = IF "scripts" \in lost THEN Kept!NoScripts ELSE f.scripts
      /\ g.sources = IF "sources" \in lost THEN {} ELSE f.sources
  BY <1>1, <1>2 DEF Kept!Without, Contents
<1>. HIDE DEF g
<1>4. Kept!NoScripts # Malformed /\ {} # Malformed
  BY <1>2, FilesAssumption
<1>5. Kept!scripts_from(g) = IF "scripts" \in lost THEN Kept!NoScripts ELSE Kept!scripts_from(f)
  BY <1>3, <1>4, ScriptsRead
<1>6. Kept!sources_from(g) = IF "sources" \in lost THEN {} ELSE Kept!sources_from(f)
  BY <1>3, <1>4, SourcesRead
<1>. QED
  BY <1>3, <1>5, <1>6 DEF g

(* A layout takes with it what stands above the first header, and nothing   *)
(* else; the scripts replace their section. *)
LEMMA LayoutWritten ==
  ASSUME NEW f \in Filed, f # Malformed, NEW l \in {0, 1},
         Kept!layout_merge_into(f, l) # Malformed
  PROVE  LET g == Kept!layout_merge_into(f, l)
             t == Kept!Text(f)
         IN /\ g \in Contents /\ g.layout = l /\ g.above = {}
            /\ "rest" \notin t.above => g.rest = t.rest
            /\ Kept!scripts_from(g) =
                 IF "scripts" \in t.above THEN Kept!NoScripts ELSE Kept!scripts_from(t)
            /\ Kept!sources_from(g) =
                 IF "sources" \in t.above THEN {} ELSE Kept!sources_from(t)
<1>. DEFINE t == Kept!Text(f)
            w == Kept!Without(t, t.above)
            g == Kept!layout_merge_into(f, l)
<1>1. t \in Contents
  BY TextIsContents
<1>2. g = [w EXCEPT !.layout = l]
  BY DEF Kept!layout_merge_into
<1>. HIDE DEF t
<1>3. /\ w \in Contents /\ w.above = {}
      /\ "rest" \notin t.above => w.rest = t.rest
      /\ Kept!scripts_from(w) =
           IF "scripts" \in t.above THEN Kept!NoScripts ELSE Kept!scripts_from(t)
      /\ Kept!sources_from(w) = IF "sources" \in t.above THEN {} ELSE Kept!sources_from(t)
  <2>1. /\ w \in Contents /\ w.above = t.above \ t.above
        /\ "rest" \notin t.above => w.rest = t.rest
        /\ Kept!scripts_from(w) =
             IF "scripts" \in t.above THEN Kept!NoScripts ELSE Kept!scripts_from(t)
        /\ Kept!sources_from(w) = IF "sources" \in t.above THEN {} ELSE Kept!sources_from(t)
    BY <1>1, WithoutParts, Zenon
  <2>2. t.above \ t.above = {}
    OBVIOUS
  <2>. QED
    BY <2>1, <2>2
<1>. HIDE DEF w, g
<1>4. /\ g \in Contents /\ g.layout = l /\ g.above = w.above
      /\ g.rest = w.rest /\ g.scripts = w.scripts /\ g.sources = w.sources
  BY <1>2, <1>3 DEF Contents
<1>5. Kept!scripts_from(g) = Kept!scripts_from(w) /\ Kept!sources_from(g) = Kept!sources_from(w)
  BY <1>3, <1>4, ScriptsRead, SourcesRead
<1>. QED
  BY <1>3, <1>4, <1>5 DEF g, t

LEMMA ScriptsWritten ==
  ASSUME NEW f \in Contents, NEW i \in {0, 1}, f.above = {}
  PROVE  LET g == Kept!scripts_save(f, i)
         IN /\ g \in Contents /\ Kept!scripts_from(g).instances = i
            /\ Kept!scripts_from(g).dir = Kept!scripts_from(f).dir
            /\ Kept!sources_from(g) = Kept!sources_from(f)
            /\ g.rest = f.rest /\ g.layout = f.layout /\ g.above = {}
<1>. DEFINE s == [Kept!scripts_from(f) EXCEPT !.instances = i]
            g == Kept!scripts_save(f, i)
<1>1. s \in ScriptTables /\ s.instances = i /\ s.dir = Kept!scripts_from(f).dir
  BY ScriptsRead DEF ScriptTables
<1>2. g = [f EXCEPT !.scripts = s, !.above = f.above \ {"scripts"}]
  BY ContentsReadable DEF Kept!scripts_save
<1>. HIDE DEF s
<1>3. /\ g \in Contents /\ g.scripts = s /\ g.above = {}
      /\ g.rest = f.rest /\ g.layout = f.layout /\ g.sources = f.sources
  BY <1>1, <1>2 DEF Contents
<1>. HIDE DEF g
<1>4. Kept!scripts_from(g) = s
  BY <1>1, <1>3, ScriptsRead, FilesAssumption
<1>5. Kept!sources_from(g) = Kept!sources_from(f)
  BY <1>3, SourcesRead
<1>. QED
  BY <1>1, <1>3, <1>4, <1>5 DEF g

LEMMA SourcesWritten ==
  ASSUME NEW f \in Filed, f # Malformed, NEW asked \in SUBSET Kinds
  PROVE  LET g == Kept!sources_merge_into(f, asked)
         IN /\ g \in Contents /\ Kept!sources_from(g) = asked
            /\ g.rest = Kept!Text(f).rest /\ g.scripts = Kept!Text(f).scripts
            /\ g.layout = Kept!Text(f).layout
            /\ g.above = Kept!Text(f).above \ {"sources"}
<1>. DEFINE g == Kept!sources_merge_into(f, asked)
            t == Kept!Text(f)
<1>1. t \in Contents
  BY TextIsContents
<1>2. g = [t EXCEPT !.sources = asked, !.above = t.above \ {"sources"}]
  BY DEF Kept!sources_merge_into
<1>. HIDE DEF t
<1>3. g \in Contents /\ g.sources = asked /\ g.rest = t.rest
      /\ g.scripts = t.scripts /\ g.layout = t.layout /\ g.above = t.above \ {"sources"}
  BY <1>1, <1>2 DEF Contents
<1>. HIDE DEF g
<1>4. Kept!sources_from(g) = asked
  BY <1>3, SourcesRead, FilesAssumption
<1>. QED
  BY <1>3, <1>4 DEF g, t

-----------------------------------------------------------------------------
(* The files and the memory of the program. *)

Saves == [path : Paths \cup {NoFile}, layout : {0, 1}, scripts : {0, 1},
          running : SUBSET Kinds, noted : BOOLEAN]

MemoryOK ==
  /\ files \in [Paths -> Filed]
  /\ open \in BOOLEAN /\ noted \in BOOLEAN
  /\ path \in Paths
  /\ layout \in {0, 1} /\ scripts \in {0, 1}
  /\ running \in SUBSET Kinds /\ given \in SUBSET Kinds
  /\ last \in Saves

(* Once the list of sources is in the file, what runs is in it, and not     *)
(* above the first header, where a save would lose it. *)
SourcesListed ==
  open /\ noted /\ files[path] # Malformed =>
    /\ running \subseteq Kept!sources_from(Kept!Text(files[path]))
    /\ "sources" \notin Kept!Text(files[path]).above

(* A file holds what was last saved to it, with nothing above the first     *)
(* header, and so does a program that was just started from it. *)
LastKept ==
  last.path # NoFile =>
    /\ files[last.path] \in Contents
    /\ files[last.path].above = {}
    /\ files[last.path].layout = last.layout
    /\ Kept!scripts_from(files[last.path]).instances = last.scripts
    /\ last.noted => last.running \subseteq Kept!sources_from(files[last.path])
    /\ open /\ how = "started" /\ path = last.path =>
         layout = last.layout /\ scripts = last.scripts

FilesInv == scene = "files" => MemoryOK /\ SourcesListed /\ LastKept

LEMMA FilesInvInit == Init => FilesInv
<1>. SUFFICES ASSUME Init PROVE MemoryOK /\ SourcesListed /\ LastKept
  BY DEF FilesInv
<1>1. /\ files \in InitFiles /\ open = FALSE /\ path = config /\ layout = 0 /\ scripts = 0
      /\ running = {} /\ given = {} /\ noted = FALSE /\ last = Kept!Nothing
  BY DEF Init, Kept!Init
<1>2. MemoryOK
  BY <1>1, FilesAssumption DEF MemoryOK, Filed, Kept!Nothing, Saves
<1>. QED
  BY <1>1, <1>2 DEF SourcesListed, LastKept, Kept!Nothing

Sound == MemoryOK /\ SourcesListed /\ LastKept

(* A program is started from a file, or from the defaults where there is    *)
(* none; the defaults may have been written there. *)
LEMMA OpeningIsSound ==
  ASSUME Sound, ~open, NEW p \in Paths, NEW f \in Contents, Kept!Opened(p, f),
         \/ files' = files /\ f = files[p]
         \/ files' = files /\ f = Kept!Default /\ files[p] = NoFile
         \/ files' = [files EXCEPT ![p] = f] /\ f = Kept!Default /\ files[p] = NoFile
  PROVE  Sound' /\ Kept!KeepStep
<1>1. /\ open' = TRUE /\ path' = p /\ noted' = ("sources" \notin f.above) /\ layout' = f.layout
      /\ scripts' = Kept!scripts_from(f).instances
      /\ running' \in SUBSET Kept!sources_from(f)
      /\ given' \in SUBSET Kinds /\ last' = last
  BY DEF Kept!Opened, Kept!cli_sources
<1>2. /\ files' \in [Paths -> Filed]
      /\ \A q \in Paths : files[q] # NoFile \/ q # p => files'[q] = files[q]
  BY DEF Sound, MemoryOK, Filed
<1>3. MemoryOK'
  BY <1>1, <1>2, ScriptsRead, SourcesRead DEF Sound, MemoryOK, ScriptTables, Contents
<1>4. SourcesListed'
  <2>1. CASE files'[p] = f
    BY <1>1, <2>1, ContentsReadable DEF SourcesListed
  <2>2. CASE files'[p] = NoFile /\ f = Kept!Default
    <3>1. Kept!sources_from(f) = {} /\ "sources" \notin Kept!Text(NoFile).above
      BY <2>2, EmptyIsContents, SourcesRead DEF Kept!Text, Kept!Default, Kept!Empty
    <3>. QED
      BY <1>1, <2>2, <3>1 DEF SourcesListed
  <2>. QED
    BY <2>1, <2>2 DEF Sound, MemoryOK
<1>5. LastKept'
  <2>. SUFFICES ASSUME last.path # NoFile PROVE LastKept'
    BY <1>1 DEF LastKept
  <2>1. last.path \in Paths /\ files[last.path] \in Contents
    BY DEF Sound, MemoryOK, LastKept, Saves
  <2>2. files'[last.path] = files[last.path] /\ (p = last.path => f = files[p])
    BY <1>2, <2>1, ContentsReadable
  <2>. QED
    BY <1>1, <2>1, <2>2 DEF Sound, LastKept
<1>6. Kept!KeepStep
  <2>1. \A q \in Paths : files'[q] # files[q] => q = p /\ files[q] = NoFile
    BY <1>2
  <2>. QED
    BY <1>1, <2>1, FilesAssumption DEF Kept!KeepStep, Kept!Readable
<1>. QED
  BY <1>3, <1>4, <1>5, <1>6 DEF Sound

(* While nothing is remembered of a save. *)
LEMMA NothingKept == Kept!Nothing \in Saves /\ (last' = Kept!Nothing => LastKept')
BY DEF LastKept, Kept!Nothing, Saves

(* A step that leaves the file that was last saved alone. *)
LEMMA LastStays ==
  ASSUME Sound, last' = last, last.path # NoFile => files'[last.path] = files[last.path],
         how' # "started"
  PROVE  LastKept'
BY DEF Sound, LastKept

(* The list of sources is written. *)
LEMMA PersistingIsSound ==
  ASSUME Sound, open, open' = open, path' = path, layout' = layout, scripts' = scripts,
         running' \in SUBSET Kinds, given' \in SUBSET Kinds,
         Kept!Persist(running'), how' = "used"
  PROVE  Sound' /\ Kept!KeepStep
<1>. DEFINE g == Kept!sources_merge_into(files[path], running')
<1>1. path \in Paths /\ files \in [Paths -> Filed] /\ files' = [files EXCEPT ![path] = g]
  BY DEF Sound, MemoryOK, Kept!Persist, Kept!persist
<1>2. files[path] = Malformed => g = Malformed
  BY DEF Kept!sources_merge_into
<1>3. files[path] # Malformed =>
        /\ g \in Contents /\ Kept!sources_from(g) = running'
        /\ g.rest = Kept!Text(files[path]).rest /\ g.scripts = Kept!Text(files[path]).scripts
        /\ g.layout = Kept!Text(files[path]).layout
        /\ g.above = Kept!Text(files[path]).above \ {"sources"}
  BY <1>1, SourcesWritten
<1>. HIDE DEF g
<1>4. files' \in [Paths -> Filed] /\ \A q \in Paths : q # path => files'[q] = files[q]
  BY <1>1, <1>2, <1>3 DEF Filed
<1>5. /\ noted' = (noted \/ files[path] # Malformed)
      /\ last' = IF last.path = path THEN [last EXCEPT !.running = running', !.noted = TRUE] ELSE last
      /\ last' \in Saves
  BY DEF Kept!Persist, Sound, MemoryOK, Saves
<1>6. MemoryOK'
  BY <1>4, <1>5 DEF Sound, MemoryOK
<1>7. SourcesListed'
  BY <1>1, <1>2, <1>3, <1>5, ContentsReadable DEF SourcesListed
<1>8. LastKept'
  <2>1. CASE last.path # path
    <3>1. last.path # NoFile => last.path \in Paths
      BY DEF Sound, MemoryOK, Saves
    <3>. QED
      BY <1>4, <1>5, <2>1, <3>1, LastStays
  <2>2. CASE last.path = path
    <3>1. last.path # NoFile
      BY <1>1, <2>2, FilesAssumption
    <3>2. /\ files[path] \in Contents /\ files[path] # Malformed /\ files[path].above = {}
          /\ files[path].layout = last.layout
          /\ Kept!scripts_from(files[path]).instances = last.scripts
          /\ Kept!Text(files[path]) = files[path]
      BY <2>2, <3>1, ContentsReadable DEF Sound, LastKept
    <3>3. Kept!scripts_from(g) = Kept!scripts_from(files[path])
      BY <1>3, <3>2, ScriptsRead
    <3>4. /\ last'.path = path /\ last'.layout = last.layout /\ last'.scripts = last.scripts
          /\ last'.running = running' /\ last'.noted = TRUE
      BY <1>5, <2>2 DEF Sound, MemoryOK, Saves
    <3>5. files'[path] = g
      BY <1>1
    <3>. QED
      BY <1>3, <3>2, <3>3, <3>4, <3>5 DEF LastKept
  <2>. QED
    BY <2>1, <2>2
<1>9. Kept!KeepStep
  <2>. SUFFICES ASSUME Kept!Readable(files[path]), files[path] # Malformed
                PROVE  /\ g.rest = files[path].rest
                       /\ Kept!scripts_from(g).dir = Kept!scripts_from(files[path]).dir
                       /\ (Kept!sources_from(files[path]) \ Kept!sources_from(g))
                           \intersect running' = {}
                       /\ Kept!sources_from(g) \ Kept!sources_from(files[path]) \subseteq running'
    BY <1>1, <1>2 DEF Kept!KeepStep, Kept!Readable
  <2>1. files[path] \in Contents /\ Kept!Text(files[path]) = files[path]
    BY <1>1, TextIsContents
  <2>. QED
    BY <1>3, <2>1, ScriptsRead
<1>. QED
  BY <1>6, <1>7, <1>8, <1>9 DEF Sound

(* The layout is written, and the scripts too unless the program ends in    *)
(* between; i are the instances that the file has then. *)
SavedTo(p, i) ==
  \/ files' = Kept!save_layout(p, files) /\ i = scripts
  \/ /\ files' = Kept!save_layout_only(p, files)
     /\ files[p] # Malformed => i = Kept!Behind(Kept!Text(files[p]))

Merged(p) == Kept!layout_merge_into(files[p], layout)

LEMMA SavingWrites ==
  ASSUME MemoryOK, NEW p \in Paths, NEW i, SavedTo(p, i)
  PROVE  /\ files' \in [Paths -> Filed]
         /\ \A q \in Paths : q # p => files'[q] = files[q]
         /\ files[p] = Malformed => files'[p] = Malformed /\ Merged(p) = Malformed
         /\ files[p] # Malformed /\ Merged(p) = Malformed => "clash" \in Kept!Text(files[p]).above
         /\ Merged(p) # Malformed =>
              LET t == Kept!Text(files[p])
              IN /\ t \in Contents /\ i \in {0, 1}
                 /\ files'[p] \in Contents
                 /\ files'[p].layout = layout /\ files'[p].above = {}
                 /\ "rest" \notin t.above => files'[p].rest = t.rest
                 /\ "scripts" \notin t.above =>
                      Kept!scripts_from(files'[p]).dir = Kept!scripts_from(t).dir
                 /\ Kept!scripts_from(files'[p]).instances = i
                 /\ Kept!sources_from(files'[p]) =
                      IF "sources" \in t.above THEN {} ELSE Kept!sources_from(t)
<1>. DEFINE f == files[p]
            t == Kept!Text(f)
            g == Merged(p)
            h == Kept!scripts_save(g, scripts)
<1>1. f \in Filed /\ layout \in {0, 1} /\ scripts \in {0, 1}
  BY DEF MemoryOK
<1>2. \/ files' = [files EXCEPT ![p] = h] /\ i = scripts
      \/ files' = [files EXCEPT ![p] = g] /\ (f # Malformed => i = Kept!Behind(t))
  BY DEF SavedTo, Merged, Kept!save_layout, Kept!save_layout_only
<1>3. g = Malformed => h = Malformed
  BY DEF Kept!scripts_save
<1>4. /\ f = Malformed => g = Malformed
      /\ f # Malformed /\ g = Malformed => "clash" \in t.above
  <2>1. f = Malformed => g = Malformed
    BY DEF Merged, Kept!layout_merge_into
  <2>2. ASSUME f # Malformed, "clash" \notin t.above PROVE g # Malformed
    <3>1. g = [Kept!Without(t, t.above) EXCEPT !.layout = layout]
      BY <2>2 DEF Merged, Kept!layout_merge_into
    <3>2. Kept!Without(t, t.above) \in Contents
      BY <1>1, <2>2, TextIsContents, WithoutParts
    <3>3. g \in Contents
      BY <1>1, <3>1, <3>2 DEF Contents
    <3>. QED
      BY <3>3, ContentsReadable
  <2>. QED
    BY <2>1, <2>2
<1>5. ASSUME g # Malformed
      PROVE  /\ t \in Contents
             /\ g \in Contents /\ g.layout = layout /\ g.above = {}
             /\ "rest" \notin t.above => g.rest = t.rest
             /\ Kept!scripts_from(g) =
                  IF "scripts" \in t.above THEN Kept!NoScripts ELSE Kept!scripts_from(t)
             /\ Kept!sources_from(g) = IF "sources" \in t.above THEN {} ELSE Kept!sources_from(t)
  BY <1>1, <1>4, <1>5, LayoutWritten, TextIsContents DEF Merged
<1>6. ASSUME g # Malformed
      PROVE  /\ h \in Contents /\ h.layout = layout /\ h.above = {}
             /\ h.rest = g.rest
             /\ Kept!scripts_from(h).instances = scripts
             /\ Kept!scripts_from(h).dir = Kept!scripts_from(g).dir
             /\ Kept!sources_from(h) = Kept!sources_from(g)
  <2>1. g \in Contents /\ g.above = {} /\ g.layout = layout
    BY <1>5, <1>6
  <2>. HIDE DEF g
  <2>. QED
    BY <1>1, <2>1, ScriptsWritten
<1>7. g # Malformed => Kept!scripts_from(g).instances = Kept!Behind(t)
                       /\ Kept!Behind(t) \in {0, 1}
  BY <1>5, ScriptsRead DEF Kept!Behind, Kept!NoScripts, ScriptTables
<1>. HIDE DEF g, h
<1>8. files' \in [Paths -> Filed] /\ \A q \in Paths : q # p => files'[q] = files[q]
  BY <1>2, <1>3, <1>5, <1>6 DEF MemoryOK, Filed
<1>9. \/ files'[p] = h /\ i = scripts
      \/ files'[p] = g /\ (f # Malformed => i = Kept!Behind(t))
  BY <1>2 DEF MemoryOK
<1>10. f = Malformed => files'[p] = Malformed
  BY <1>3, <1>4, <1>9
<1>. HIDE DEF f, t
<1>11. g # Malformed => f # Malformed
  BY <1>4
<1>12. g # Malformed =>
         /\ t \in Contents /\ i \in {0, 1}
         /\ files'[p] \in Contents
         /\ files'[p].layout = layout /\ files'[p].above = {}
         /\ "rest" \notin t.above => files'[p].rest = t.rest
         /\ "scripts" \notin t.above =>
              Kept!scripts_from(files'[p]).dir = Kept!scripts_from(t).dir
         /\ Kept!scripts_from(files'[p]).instances = i
         /\ Kept!sources_from(files'[p]) =
              IF "sources" \in t.above THEN {} ELSE Kept!sources_from(t)
  <2>1. CASE files'[p] = h /\ i = scripts
    BY <1>1, <1>5, <1>6, <2>1
  <2>2. CASE files'[p] = g /\ (f # Malformed => i = Kept!Behind(t))
    BY <1>5, <1>7, <1>11, <2>2
  <2>. QED
    BY <1>9, <2>1, <2>2
<1>. QED
  BY <1>4, <1>8, <1>10, <1>12 DEF f, t, g

LEMMA SavingKeeps ==
  ASSUME MemoryOK, NEW p \in Paths, NEW i, SavedTo(p, i), path' = p
  PROVE  Kept!KeepStep
<1>1. files[p] \in Filed
  BY DEF MemoryOK
<1>2. \A q \in Paths : files'[q] # files[q] => q = p /\ files[q] # Malformed
  BY SavingWrites
<1>3. ASSUME Kept!Readable(files[p]), "clash" \notin files[p].above
      PROVE  LET f == files[p]
                 g == files'[p]
             IN /\ "rest" \notin f.above => g.rest = f.rest
                /\ "scripts" \notin f.above => Kept!scripts_from(g).dir = Kept!scripts_from(f).dir
                /\ "sources" \notin f.above =>
                     (Kept!sources_from(f) \ Kept!sources_from(g)) \intersect running' = {}
                /\ Kept!sources_from(g) \ Kept!sources_from(f) \subseteq running'
  <2>1. files[p] # Malformed /\ Kept!Text(files[p]) = files[p]
    BY <1>1, <1>3, TextIsContents DEF Kept!Readable
  <2>2. Merged(p) # Malformed
    BY <1>3, <2>1, SavingWrites
  <2>. QED
    BY <2>1, <2>2, SavingWrites
<1>. QED
  BY <1>2, <1>3 DEF Kept!KeepStep

(* What a save leaves behind is remembered. *)
LEMMA SavingRemembers ==
  ASSUME Sound, open, NEW p \in Paths, NEW i, SavedTo(p, i), how' # "started",
         last' = (IF files[p] = Malformed THEN last ELSE Kept!Saved(p, i))
  PROVE  last' \in Saves /\ LastKept'
<1>. USE DEF Sound
<1>1. MemoryOK
  OBVIOUS
<1>2. CASE Merged(p) = Malformed
  <2>1. last' = last
    BY <1>2 DEF Kept!Saved, Merged
  <2>2. last.path # p
    <3>. SUFFICES ASSUME last.path = p PROVE FALSE
      OBVIOUS
    <3>1. files[p] \in Contents /\ files[p].above = {}
      BY FilesAssumption DEF LastKept
    <3>2. files[p] # Malformed /\ Kept!Text(files[p]).above = {}
      BY <3>1, ContentsReadable
    <3>. QED
      BY <1>1, <1>2, <3>2, SavingWrites
  <2>3. last.path # NoFile => last.path \in Paths /\ files'[last.path] = files[last.path]
    BY <1>1, <2>2, SavingWrites DEF MemoryOK, Saves
  <2>. QED
    BY <1>1, <2>1, <2>3, LastStays DEF MemoryOK
<1>3. CASE Merged(p) # Malformed
  <2>1. files[p] # Malformed
    BY <1>1, <1>3, SavingWrites
  <2>2. last' = [path |-> p, layout |-> layout, scripts |-> i, running |-> running,
                 noted |-> noted /\ p = path]
    BY <1>3, <2>1 DEF Kept!Saved, Merged
  <2>3. /\ files'[p] \in Contents /\ files'[p].above = {} /\ files'[p].layout = layout
        /\ Kept!scripts_from(files'[p]).instances = i /\ i \in {0, 1}
        /\ Kept!sources_from(files'[p]) =
             IF "sources" \in Kept!Text(files[p]).above THEN {}
             ELSE Kept!sources_from(Kept!Text(files[p]))
    BY <1>1, <1>3, SavingWrites
  <2>4. ASSUME noted, p = path PROVE running \subseteq Kept!sources_from(files'[p])
    <3>1. SourcesListed /\ open
      OBVIOUS
    <3>2. /\ running \subseteq Kept!sources_from(Kept!Text(files[path]))
          /\ "sources" \notin Kept!Text(files[path]).above
      BY <2>1, <2>4, <3>1, Zenon DEF SourcesListed
    <3>. QED
      BY <2>3, <2>4, <3>2, Zenon
  <2>. DEFINE b == noted /\ p = path
  <2>5. b \in BOOLEAN /\ p # NoFile /\ layout \in {0, 1} /\ running \in SUBSET Kinds
    BY <1>1, FilesAssumption DEF MemoryOK
  <2>6. b => running \subseteq Kept!sources_from(files'[p])
    BY <2>4
  <2>7. last' = [path |-> p, layout |-> layout, scripts |-> i, running |-> running, noted |-> b]
    BY <2>2
  <2>. HIDE DEF b
  <2>8. last' \in Saves
    BY <2>3, <2>5, <2>7 DEF Saves
  <2>9. /\ last'.path = p /\ last'.layout = layout /\ last'.scripts = i
        /\ last'.running = running /\ last'.noted = b
    BY <2>7
  <2>10. LastKept'
    BY <2>3, <2>6, <2>9 DEF LastKept
  <2>. QED
    BY <2>8, <2>10
<1>. QED
  BY <1>2, <1>3

LEMMA SavingIsSound ==
  ASSUME Sound, NEW p \in Paths, Kept!Save(p)
  PROVE  Sound' /\ Kept!KeepStep
<1>1. /\ open /\ open' = open /\ path' = p /\ noted' = (noted /\ p = path)
      /\ SavedTo(p, scripts) /\ last' = Kept!Saved(p, scripts) /\ how' = "used"
      /\ UNCHANGED <<layout, scripts, running, given>>
  BY DEF Kept!Save, SavedTo
<1>2. MemoryOK /\ files[p] \in Filed
  BY DEF Sound, MemoryOK
<1>3. files[p] = Malformed => last' = last
  BY <1>1, <1>2, SavingWrites DEF Kept!Saved, Merged
<1>4. last' \in Saves /\ LastKept'
  BY <1>1, <1>3, SavingRemembers
<1>5. MemoryOK'
  BY <1>1, <1>2, <1>4, SavingWrites DEF MemoryOK
<1>6. SourcesListed'
  <2>. SUFFICES ASSUME noted, p = path, files'[p] # Malformed
                PROVE  /\ running \subseteq Kept!sources_from(Kept!Text(files'[p]))
                       /\ "sources" \notin Kept!Text(files'[p]).above
    BY <1>1 DEF SourcesListed
  <2>1. files[p] # Malformed
    BY <1>1, <1>2, SavingWrites
  <2>2. /\ running \subseteq Kept!sources_from(Kept!Text(files[p]))
        /\ "sources" \notin Kept!Text(files[p]).above
    BY <1>1, <2>1 DEF Sound, SourcesListed
  <2>3. Merged(p) # Malformed
    <3>1. files'[p] = Kept!scripts_save(Merged(p), scripts)
      BY <1>1, <1>2 DEF Kept!Save, Kept!save_layout, Merged, MemoryOK
    <3>. QED
      BY <3>1 DEF Kept!scripts_save
  <2>4. /\ files'[p] \in Contents /\ files'[p].above = {}
        /\ Kept!sources_from(files'[p]) = Kept!sources_from(Kept!Text(files[p]))
    BY <1>1, <1>2, <2>2, <2>3, SavingWrites
  <2>. QED
    BY <2>2, <2>4, ContentsReadable
<1>. QED
  BY <1>1, <1>2, <1>4, <1>5, <1>6, SavingKeeps DEF Sound

(* A program ends when its window is closed, between the two writes of a    *)
(* save, or at any other time. *)
LEMMA EndingIsSound ==
  ASSUME Sound, open, Kept!Ended, NEW p \in Paths, path' = p, NEW i, SavedTo(p, i), how' = "used",
         last' = (IF files[p] = Malformed THEN last ELSE Kept!Saved(p, i))
  PROVE  Sound' /\ Kept!KeepStep
<1>1. MemoryOK /\ last' \in Saves /\ LastKept'
  BY SavingRemembers DEF Sound
<1>2. MemoryOK'
  BY <1>1, SavingWrites DEF MemoryOK, Kept!Ended
<1>. QED
  BY <1>1, <1>2, SavingKeeps DEF Sound, SourcesListed, Kept!Ended

(* What a write that was cut short leaves is a text without some parts, or  *)
(* no TOML. *)
LEMMA TornIsFiled ==
  ASSUME Sound, NEW p \in Paths, files[p] # Malformed,
         NEW f \in Kept!Written(p), f # Malformed, NEW g \in Kept!Torn(f)
  PROVE  g \in Filed
<1>1. /\ files[p] \in Filed /\ layout \in {0, 1} /\ scripts \in {0, 1} /\ running \in SUBSET Kinds
      /\ files \in [Paths -> Filed] /\ MemoryOK
  BY DEF Sound, MemoryOK
<1>2. f \in Contents
  <2>1. CASE f = Kept!Default
    BY <2>1, EmptyIsContents
  <2>2. CASE f = Kept!layout_merge_into(files[p], layout)
    BY <1>1, <2>2, LayoutWritten
  <2>3. CASE f = Kept!save_layout(p, files)[p]
    <3>. DEFINE m == Kept!layout_merge_into(files[p], layout)
    <3>1. f = Kept!scripts_save(m, scripts)
      BY <1>1, <2>3 DEF Kept!save_layout
    <3>2. m # Malformed
      BY <3>1 DEF Kept!scripts_save
    <3>3. m \in Contents /\ m.above = {}
      BY <1>1, <3>2, LayoutWritten
    <3>. HIDE DEF m
    <3>. QED
      BY <1>1, <3>1, <3>3, ScriptsWritten
  <2>4. ASSUME NEW asked \in SUBSET Kinds, f = Kept!sources_merge_into(files[p], asked)
        PROVE  f \in Contents
    BY <1>1, <2>4, SourcesWritten
  <2>5. \/ f = Kept!Default \/ f = Kept!layout_merge_into(files[p], layout)
        \/ f = Kept!save_layout(p, files)[p]
        \/ \E asked \in SUBSET Kinds : f = Kept!sources_merge_into(files[p], asked)
    <3>1. CASE ~open
      BY <3>1 DEF Kept!Written
    <3>2. CASE open
      <4>. SUFFICES ASSUME NEW s \in Kinds, NEW asked \in {running \union {s}, running \ {s}},
                           f = Kept!sources_merge_into(files[p], asked)
                    PROVE  \E a \in SUBSET Kinds : f = Kept!sources_merge_into(files[p], a)
        BY <3>2 DEF Kept!Written
      <4>1. asked \in SUBSET Kinds
        BY <1>1
      <4>. QED
        BY <4>1
    <3>. QED
      BY <3>1, <3>2 DEF Sound, MemoryOK
  <2>. QED
    BY <2>1, <2>2, <2>3, <2>4, <2>5
<1>3. g = Malformed \/ \E lost : g = Kept!Without(f, lost)
  BY DEF Kept!Torn
<1>. QED
  BY <1>2, <1>3, WithoutParts DEF Filed

LEMMA TearingIsSound ==
  ASSUME Sound, NEW p \in Paths, Kept!CrashInWrite(p)
  PROVE  Sound' /\ Kept!KeepStep
<1>1. /\ files[p] # Malformed /\ Kept!Ended /\ path' = p /\ how' = "torn"
      /\ last' = IF last.path = p THEN Kept!Nothing ELSE last
  BY DEF Kept!CrashInWrite
<1>2. PICK g \in UNION {Kept!Torn(f) : f \in Kept!Written(p) \ {Malformed}} :
        files' = [files EXCEPT ![p] = g]
  BY DEF Kept!CrashInWrite
<1>3. g \in Filed
  BY <1>1, TornIsFiled
<1>4. files' \in [Paths -> Filed] /\ \A q \in Paths : q # p => files'[q] = files[q]
  BY <1>2, <1>3 DEF Sound, MemoryOK
<1>5. MemoryOK'
  BY <1>1, <1>4, NothingKept DEF Sound, MemoryOK, Kept!Ended
<1>6. LastKept'
  <2>1. CASE last.path = p
    BY <1>1, <2>1, NothingKept
  <2>2. CASE last.path # p
    <3>1. last.path # NoFile => files'[last.path] = files[last.path]
      BY <1>4, <2>2 DEF Sound, MemoryOK, Saves
    <3>. QED
      BY <1>1, <2>2, <3>1, LastStays
  <2>. QED
    BY <2>1, <2>2
<1>7. Kept!KeepStep
  BY <1>1, <1>4 DEF Kept!KeepStep
<1>. QED
  BY <1>1, <1>5, <1>6, <1>7 DEF Sound, SourcesListed, Kept!Ended

(* Each step of the program and of its user. *)
LEMMA FilesStep ==
  ASSUME Sound, Kept!Next
  PROVE  Sound' /\ Kept!KeepStep
<1>. USE DEF Sound
<1>1. files \in [Paths -> Filed] /\ path \in Paths /\ config \in Paths
  BY FilesAssumption DEF MemoryOK
<1>2. ASSUME files' = files PROVE Kept!KeepStep
  BY <1>2 DEF Kept!KeepStep
<1>3. CASE Kept!Start
  <2>1. ~open /\ Kept!Opened(config, files[config]) /\ files' = files
    BY <1>3 DEF Kept!Start
  <2>2. files[config] \in Contents
    BY <1>1, <2>1 DEF Kept!Opened, Kept!Readable, Filed
  <2>. QED
    BY <1>1, <2>1, <2>2, OpeningIsSound
<1>4. CASE Kept!StartWithout
  <2>1. /\ ~open /\ files[config] = NoFile
        /\ \/ /\ Kept!Opened(config, Kept!Default)
              /\ files' = [files EXCEPT ![config] = Kept!Default] \/ files' = files
           \/ \E p \in Paths : Kept!Opened(p, files[p]) /\ files' = files
    BY <1>4 DEF Kept!StartWithout
  <2>2. \A p \in Paths : Kept!Opened(p, files[p]) => files[p] \in Contents
    BY <1>1 DEF Kept!Opened, Kept!Readable, Filed
  <2>. QED
    BY <1>1, <2>1, <2>2, EmptyIsContents, OpeningIsSound
<1>5. CASE Kept!Discard
  <2>1. /\ ~open /\ open' = open /\ ~Kept!Readable(files[config])
        /\ files' = [files EXCEPT ![config] = NoFile]
        /\ UNCHANGED <<path, layout, scripts, running, given, noted, how, last>>
    BY <1>5 DEF Kept!Discard, Kept!memory
  <2>2. last.path # config
    BY <1>1, <2>1, FilesAssumption, ContentsReadable DEF LastKept
  <2>3. MemoryOK'
    BY <1>1, <2>1 DEF MemoryOK, Filed
  <2>4. LastKept'
    <3>1. last.path # NoFile => files'[last.path] = files[last.path]
      BY <1>1, <2>1, <2>2 DEF MemoryOK, Saves
    <3>. QED
      BY <2>1, <3>1 DEF LastKept
  <2>5. Kept!KeepStep
    BY <1>1, <2>1 DEF Kept!KeepStep
  <2>. QED
    BY <2>1, <2>3, <2>4, <2>5 DEF SourcesListed
<1>6. CASE Kept!Edit
  <2>1. /\ open /\ layout' \in {0, 1} /\ scripts' \in {0, 1} /\ how' = "used"
        /\ UNCHANGED <<files, open, path, running, given, noted, last>>
    BY <1>6 DEF Kept!Edit, MemoryOK
  <2>. QED
    BY <1>2, <2>1, LastStays DEF MemoryOK, SourcesListed
<1>7. CASE Kept!Exit
  <2>1. /\ open /\ Kept!Ended /\ path' = path /\ SavedTo(path, scripts) /\ how' = "used"
        /\ last' = Kept!Saved(path, scripts)
    BY <1>7 DEF Kept!Exit, SavedTo
  <2>2. files[path] = Malformed => last' = last
    BY <1>1, <2>1, SavingWrites DEF Kept!Saved, Merged
  <2>. QED
    BY <1>1, <2>1, <2>2, EndingIsSound
<1>8. CASE Kept!Crash
  <2>1. /\ Kept!Ended /\ how' = "used" /\ UNCHANGED <<files, path, last>>
    BY <1>8 DEF Kept!Crash
  <2>. QED
    BY <1>2, <2>1, LastStays DEF MemoryOK, SourcesListed, Kept!Ended
<1>9. ASSUME NEW p \in Paths, Kept!CrashInSave(p) PROVE Sound' /\ Kept!KeepStep
  <2>. DEFINE i == Kept!Behind(Kept!Text(files[p]))
  <2>1. /\ open /\ Kept!Ended /\ path' = p /\ how' = "used"
        /\ files' = Kept!save_layout_only(p, files)
        /\ last' = (IF files[p] = Malformed THEN last ELSE Kept!Saved(p, i))
    BY <1>9 DEF Kept!CrashInSave
  <2>2. SavedTo(p, i)
    BY <2>1 DEF SavedTo
  <2>. HIDE DEF i
  <2>. QED
    BY <2>1, <2>2, EndingIsSound
<1>10. ASSUME NEW p \in Paths, Kept!Load(p) PROVE Sound' /\ Kept!KeepStep
  <2>1. /\ open /\ open' = open /\ path' = p /\ noted' = (noted /\ p = path)
        /\ layout' = (IF Kept!Readable(files[p]) THEN files[p].layout ELSE layout)
        /\ how' = "used"
        /\ UNCHANGED <<files, scripts, running, given, last>>
    BY <1>10 DEF Kept!Load
  <2>2. layout' \in {0, 1}
    BY <1>1, <2>1 DEF MemoryOK, Filed, Kept!Readable, Contents
  <2>3. MemoryOK'
    BY <2>1, <2>2 DEF MemoryOK
  <2>. QED
    BY <1>2, <2>1, <2>3, LastStays DEF SourcesListed
<1>11. ASSUME NEW s \in Kinds, NEW filled, Kept!AddSource(s, filled)
       PROVE  Sound' /\ Kept!KeepStep
  <2>1. /\ open /\ running' \in SUBSET Kinds /\ how' = "used"
        /\ \/ running' = running /\ UNCHANGED <<files, noted, last>>
           \/ Kept!Persist(running')
        /\ UNCHANGED <<open, path, layout, scripts, given>>
    BY <1>11 DEF Kept!AddSource, Kept!to_spec, MemoryOK
  <2>2. CASE running' = running /\ UNCHANGED <<files, noted, last>>
    BY <1>2, <2>1, <2>2, LastStays DEF MemoryOK, SourcesListed
  <2>3. CASE Kept!Persist(running')
    BY <2>1, <2>3, PersistingIsSound DEF MemoryOK
  <2>. QED
    BY <2>1, <2>2, <2>3
<1>12. ASSUME NEW s \in Kinds, Kept!StopSource(s) PROVE Sound' /\ Kept!KeepStep
  <2>1. /\ open /\ running' \in SUBSET Kinds /\ given' \in SUBSET Kinds
        /\ Kept!Persist(running') /\ how' = "used"
        /\ UNCHANGED <<open, path, layout, scripts>>
    BY <1>12 DEF Kept!StopSource, MemoryOK
  <2>. QED
    BY <2>1, PersistingIsSound
<1>. QED
  BY <1>3, <1>4, <1>5, <1>6, <1>7, <1>8, <1>9, <1>10, <1>11, <1>12, SavingIsSound, TearingIsSound
     DEF Kept!Next

LEMMA FilesInvStep == FilesInv /\ [Next]_vars => FilesInv'
<1>. SUFFICES ASSUME Sound, [Next]_vars, scene = "files" PROVE Sound'
  BY SceneStays DEF FilesInv, Sound
<1>1. CASE UNCHANGED vars
  BY <1>1 DEF vars, kept, Sound, MemoryOK, SourcesListed, LastKept
<1>2. CASE Next
  BY <1>2, FilesStep DEF Next
<1>. QED
  BY <1>1, <1>2

LEMMA FilesInvAlways == SafeSpec => []FilesInv
BY FilesInvInit, FilesInvStep, PTL DEF SafeSpec

(* What the user wrote under the headers of the configuration file stays: a *)
(* save, a source started or stopped, an exit, or a crash between the two   *)
(* writes of a save, changes the file at the path and no other, never one   *)
(* that is no TOML, and there only the sections of the program; and the     *)
(* list of sources is that of what runs. What stands above the first        *)
(* header, a file that cannot be read, and a write that is cut short are    *)
(* not among it. For any files, kinds of sources and flags.                 *)
THEOREM UserTextStays == FairSpec => FilesKept
<1>1. FilesInv /\ [Next]_vars => [scene = "files" => Kept!KeepStep]_vars
  <2>. SUFFICES ASSUME FilesInv, Next, scene = "files" PROVE Kept!KeepStep
    OBVIOUS
  <2>1. Sound /\ Kept!Next
    BY DEF Next, FilesInv, Sound
  <2>. QED
    BY <2>1, FilesStep
<1>. QED
  BY <1>1, FairIsSafe, FilesInvAlways, PTL DEF SafeSpec, FilesKept

(* What was last saved, at an exit or before, is found again in that file   *)
(* by the next program, whether the one before ended or crashed: the        *)
(* layout, the instances (those of before, if it crashed between the two    *)
(* writes) and, if its list was written to that file, every source that     *)
(* ran. *)
THEOREM SessionIsFoundAgain == FairSpec => []ReopenRestores
<1>1. FilesInv => ReopenRestores
  <2>. SUFFICES ASSUME Sound, open, how = "started", last.path = path PROVE Kept!ReopenRestores
    BY DEF FilesInv, Sound, ReopenRestores, Kept!ReopenRestores
  <2>1. last.path # NoFile
    BY FilesAssumption DEF Sound, MemoryOK
  <2>. QED
    BY <2>1 DEF Sound, LastKept, Kept!ReopenRestores
<1>. QED
  BY <1>1, FairIsSafe, FilesInvAlways, PTL

-----------------------------------------------------------------------------
(* The smallest and the largest of some coordinates. *)

LEMMA Smallest ==
  ASSUME NEW S \in SUBSET Nat, S # {}
  PROVE  /\ Placed!Min(S) \in S
         /\ \A y \in S : Placed!Min(S) <= y
<1>1. IsWellFoundedOn({ss \in Nat \X Nat : ss[1] < ss[2]}, Nat)
  BY NatLessThanWellFounded DEF OpToRel
<1>2. PICK x \in S : \A y \in S : <<y, x>> \notin {ss \in Nat \X Nat : ss[1] < ss[2]}
  BY <1>1, WFMin
<1>3. \A y \in S : x <= y
  <2>. TAKE y \in S
  <2>1. x \in Nat /\ y \in Nat /\ ~(y < x)
    BY <1>2
  <2>. QED
    BY <2>1
<1>. QED
  BY <1>3 DEF Placed!Min

LEMMA Largest ==
  ASSUME NEW n \in Nat, NEW S \in SUBSET (0..n), S # {}
  PROVE  /\ Placed!Max(S) \in S
         /\ \A y \in S : Placed!Max(S) >= y
<1>. DEFINE T == {n - x : x \in S}
            m == Placed!Min(T)
<1>1. T \in SUBSET Nat /\ T # {}
  <2>1. \A x \in S : x \in 0..n /\ n - x \in Nat
    OBVIOUS
  <2>. QED
    BY <2>1
<1>2. m \in T /\ \A y \in T : m <= y
  BY <1>1, Smallest
<1>. HIDE DEF m
<1>3. PICK x \in S : m = n - x
  BY <1>2
<1>4. \A y \in S : x >= y
  <2>. TAKE y \in S
  <2>1. m <= n - y /\ y \in 0..n /\ x \in 0..n
    BY <1>2
  <2>. QED
    BY <1>3, <2>1
<1>. QED
  BY <1>4 DEF Placed!Max

LEMMA Larger ==
  ASSUME NEW a \in Int, NEW b \in Int
  PROVE  Placed!Max({a, b}) = IF a >= b THEN a ELSE b
<1>1. \E x \in {a, b} : \A y \in {a, b} : x >= y
  OBVIOUS
<1>. QED
  BY <1>1 DEF Placed!Max

-----------------------------------------------------------------------------
(* A panel that is moved. *)

OnCanvas(r) == r \in Placed!Rect /\ Placed!Right(r) <= Size /\ Placed!Bottom(r) <= Size

LEMMA RectFields ==
  ASSUME NEW r \in Placed!Rect
  PROVE  r.fx \in Nat /\ r.fy \in Nat /\ r.fw \in Nat /\ r.fh \in Nat
BY CanvasAssumption DEF Placed!Rect, Placed!Coord

LEMMA Clamps ==
  ASSUME NEW x \in Int, NEW hi \in Nat, NEW lo \in 0..hi
  PROVE  /\ Placed!Clamped(x, lo, hi) \in lo..hi
         /\ x >= lo => Placed!Clamped(x, lo, hi) <= x
         /\ x <= hi => Placed!Clamped(x, lo, hi) >= x
BY DEF Placed!Clamped

(* Along X it stops at the nearest panel on its side. *)
LEMMA StopsInX ==
  ASSUME NEW prev, OnCanvas(prev), NEW target \in Placed!Coord,
         NEW others, \A o \in others : OnCanvas(o),
         NEW x, x = Placed!ClampX(prev, target, others)
  PROVE  /\ x \in Nat /\ x + prev.fw <= Size
         /\ \A o \in others : Placed!OverlapsY(prev, o) =>
              /\ Placed!Right(prev) <= o.fx => x + prev.fw <= o.fx
              /\ Placed!Right(o) <= prev.fx => Placed!Right(o) <= x
<1>. DEFINE beside == {o \in others : Placed!OverlapsY(prev, o)}
            goal == Placed!Clamped(target, 0, Size - prev.fw)
            ahead == {o \in beside : Placed!Right(prev) <= o.fx}
            behind == {o \in beside : Placed!Right(o) <= prev.fx}
            A == {goal} \cup {o.fx - prev.fw : o \in ahead}
            B == {goal} \cup {Placed!Right(o) : o \in behind}
<1>1. prev \in Placed!Rect /\ prev.fx \in Nat /\ prev.fw \in Nat /\ Size \in Nat /\ prev.fx + prev.fw <= Size
      /\ target \in Nat
  BY RectFields, CanvasAssumption DEF OnCanvas, Placed!Right, Placed!Coord
<1>2. \A o \in others : o.fx \in Nat /\ o.fw \in Nat /\ Placed!Right(o) = o.fx + o.fw
                       /\ Placed!Right(o) <= Size
  BY RectFields DEF OnCanvas, Placed!Right
<1>3. /\ goal \in 0..(Size - prev.fw)
      /\ target >= prev.fx => goal >= prev.fx
      /\ target <= prev.fx => goal <= prev.fx
  BY <1>1 DEF Placed!Clamped
<1>4. x = IF target > prev.fx THEN Placed!Min(A)
          ELSE IF target < prev.fx THEN Placed!Max(B) ELSE goal
  BY DEF Placed!ClampX
<1>5. Placed!Right(prev) = prev.fx + prev.fw
  BY DEF Placed!Right
<1>. HIDE DEF goal
<1>6. CASE target > prev.fx
  <2>1. A \in SUBSET Nat /\ A # {} /\ \A a \in A : a >= prev.fx
    BY <1>1, <1>2, <1>3, <1>5, <1>6
  <2>2. x \in A /\ \A a \in A : x <= a
    BY <1>4, <1>6, <2>1, Smallest
  <2>3. x \in Nat /\ x >= prev.fx /\ x <= goal /\ \A o \in ahead : x <= o.fx - prev.fw
    BY <2>1, <2>2
  <2>. HIDE DEF A, B
  <2>. QED
    BY <1>1, <1>2, <1>3, <1>5, <2>3
<1>7. CASE target < prev.fx
  <2>1. B \in SUBSET (0..Size) /\ B # {} /\ \A b \in B : b <= prev.fx
    BY <1>1, <1>2, <1>3, <1>5, <1>7
  <2>2. x \in B /\ \A b \in B : x >= b
    <3>1. x = Placed!Max(B) /\ Size \in Nat
      BY <1>1, <1>4, <1>7
    <3>. HIDE DEF B
    <3>. QED
      BY <2>1, <3>1, Largest
  <2>3. x \in Nat /\ x <= prev.fx /\ \A o \in behind : x >= Placed!Right(o)
    BY <2>1, <2>2
  <2>. HIDE DEF A, B
  <2>. QED
    BY <1>1, <1>2, <1>3, <1>5, <2>3
<1>8. CASE target = prev.fx
  BY <1>1, <1>2, <1>3, <1>4, <1>5, <1>8
<1>. QED
  BY <1>1, <1>6, <1>7, <1>8

LEMMA StopsInY ==
  ASSUME NEW prev, OnCanvas(prev), NEW target \in Placed!Coord,
         NEW others, \A o \in others : OnCanvas(o),
         NEW y, y = Placed!ClampY(prev, target, others)
  PROVE  /\ y \in Nat /\ y + prev.fh <= Size
         /\ \A o \in others : Placed!OverlapsX(prev, o) =>
              /\ Placed!Bottom(prev) <= o.fy => y + prev.fh <= o.fy
              /\ Placed!Bottom(o) <= prev.fy => Placed!Bottom(o) <= y
<1>. DEFINE beside == {o \in others : Placed!OverlapsX(prev, o)}
            goal == Placed!Clamped(target, 0, Size - prev.fh)
            ahead == {o \in beside : Placed!Bottom(prev) <= o.fy}
            behind == {o \in beside : Placed!Bottom(o) <= prev.fy}
            A == {goal} \cup {o.fy - prev.fh : o \in ahead}
            B == {goal} \cup {Placed!Bottom(o) : o \in behind}
<1>1. prev \in Placed!Rect /\ prev.fy \in Nat /\ prev.fh \in Nat /\ Size \in Nat /\ prev.fy + prev.fh <= Size
      /\ target \in Nat
  BY RectFields, CanvasAssumption DEF OnCanvas, Placed!Bottom, Placed!Coord
<1>2. \A o \in others : o.fy \in Nat /\ o.fh \in Nat /\ Placed!Bottom(o) = o.fy + o.fh
                       /\ Placed!Bottom(o) <= Size
  BY RectFields DEF OnCanvas, Placed!Bottom
<1>3. /\ goal \in 0..(Size - prev.fh)
      /\ target >= prev.fy => goal >= prev.fy
      /\ target <= prev.fy => goal <= prev.fy
  BY <1>1 DEF Placed!Clamped
<1>4. y = IF target > prev.fy THEN Placed!Min(A)
          ELSE IF target < prev.fy THEN Placed!Max(B) ELSE goal
  BY DEF Placed!ClampY
<1>5. Placed!Bottom(prev) = prev.fy + prev.fh
  BY DEF Placed!Bottom
<1>. HIDE DEF goal
<1>6. CASE target > prev.fy
  <2>1. A \in SUBSET Nat /\ A # {} /\ \A a \in A : a >= prev.fy
    BY <1>1, <1>2, <1>3, <1>5, <1>6
  <2>2. y \in A /\ \A a \in A : y <= a
    BY <1>4, <1>6, <2>1, Smallest
  <2>3. y \in Nat /\ y >= prev.fy /\ y <= goal /\ \A o \in ahead : y <= o.fy - prev.fh
    BY <2>1, <2>2
  <2>. HIDE DEF A, B
  <2>. QED
    BY <1>1, <1>2, <1>3, <1>5, <2>3
<1>7. CASE target < prev.fy
  <2>1. B \in SUBSET (0..Size) /\ B # {} /\ \A b \in B : b <= prev.fy
    BY <1>1, <1>2, <1>3, <1>5, <1>7
  <2>2. y \in B /\ \A b \in B : y >= b
    <3>1. y = Placed!Max(B) /\ Size \in Nat
      BY <1>1, <1>4, <1>7
    <3>. HIDE DEF B
    <3>. QED
      BY <2>1, <3>1, Largest
  <2>3. y \in Nat /\ y <= prev.fy /\ \A o \in behind : y >= Placed!Bottom(o)
    BY <2>1, <2>2
  <2>. HIDE DEF A, B
  <2>. QED
    BY <1>1, <1>2, <1>3, <1>5, <2>3
<1>8. CASE target = prev.fy
  BY <1>1, <1>2, <1>3, <1>4, <1>5, <1>8
<1>. QED
  BY <1>1, <1>6, <1>7, <1>8

(* Then it covers on its way nothing that another covers. *)
LEMMA SlidesInX ==
  ASSUME NEW prev, OnCanvas(prev), NEW target \in Placed!Coord,
         NEW others, \A o \in others : OnCanvas(o) /\ ~Placed!RectsOverlap(prev, o),
         NEW r, r = [prev EXCEPT !.fx = Placed!ClampX(prev, target, others)]
  PROVE  /\ OnCanvas(r) /\ r.fw = prev.fw /\ r.fh = prev.fh /\ r.fy = prev.fy
         /\ \A o \in others : /\ ~Placed!RectsOverlap(r, o)
                              /\ ~Placed!RectsOverlap(Placed!Swept(prev, r), o)
<1>. DEFINE x == Placed!ClampX(prev, target, others)
<1>1. /\ x \in Nat /\ x + prev.fw <= Size
      /\ \A o \in others : Placed!OverlapsY(prev, o) =>
           /\ Placed!Right(prev) <= o.fx => x + prev.fw <= o.fx
           /\ Placed!Right(o) <= prev.fx => Placed!Right(o) <= x
  BY StopsInX
<1>. HIDE DEF x
<1>2. prev \in Placed!Rect /\ prev.fx \in Nat /\ prev.fy \in Nat /\ prev.fw \in Nat /\ prev.fh \in Nat
      /\ Size \in Nat
  BY RectFields, CanvasAssumption DEF OnCanvas
<1>3. r = [prev EXCEPT !.fx = x]
  BY DEF x
<1>4. r \in Placed!Rect /\ r.fx = x /\ r.fy = prev.fy /\ r.fw = prev.fw /\ r.fh = prev.fh
  BY <1>1, <1>2, <1>3 DEF Placed!Rect, Placed!Coord
<1>5. OnCanvas(r)
  BY <1>1, <1>2, <1>4 DEF OnCanvas, Placed!Right, Placed!Bottom
<1>6. ASSUME NEW o \in others
      PROVE  /\ ~Placed!RectsOverlap(r, o)
             /\ ~Placed!RectsOverlap(Placed!Swept(prev, r), o)
  <2>1. o.fx \in Nat /\ o.fy \in Nat /\ o.fw \in Nat /\ o.fh \in Nat
    BY RectFields DEF OnCanvas
  <2>. DEFINE s == Placed!Swept(prev, r)
  <2>2. /\ s.fy = prev.fy /\ s.fh = prev.fh
        /\ s.fx = IF prev.fx < x THEN prev.fx ELSE x
        /\ s.fx + s.fw = IF prev.fx < x THEN x + prev.fw ELSE prev.fx + prev.fw
        /\ s.fw \in Int
    BY <1>1, <1>2, <1>4 DEF Placed!Swept
  <2>. HIDE DEF s
  <2>3. CASE ~Placed!OverlapsY(prev, o)
    BY <1>4, <2>2, <2>3 DEF Placed!OverlapsY, Placed!RectsOverlap, Placed!Bottom, s
  <2>4. CASE Placed!OverlapsY(prev, o)
    <3>1. ~Placed!OverlapsX(prev, o)
      BY <2>4 DEF Placed!RectsOverlap
    <3>2. Placed!Right(o) <= prev.fx \/ Placed!Right(prev) <= o.fx
      BY <1>2, <2>1, <3>1 DEF Placed!OverlapsX, Placed!Right
    <3>3. ~Placed!OverlapsX(r, o) /\ ~Placed!OverlapsX(s, o)
      BY <1>1, <1>2, <1>4, <2>1, <2>2, <2>4, <3>2 DEF Placed!OverlapsX, Placed!Right
    <3>. QED
      BY <3>3 DEF Placed!RectsOverlap, s
  <2>. QED
    BY <2>3, <2>4
<1>. QED
  BY <1>4, <1>5, <1>6

LEMMA SlidesInY ==
  ASSUME NEW prev, OnCanvas(prev), NEW target \in Placed!Coord,
         NEW others, \A o \in others : OnCanvas(o) /\ ~Placed!RectsOverlap(prev, o),
         NEW r, r = [prev EXCEPT !.fy = Placed!ClampY(prev, target, others)]
  PROVE  /\ OnCanvas(r) /\ r.fh = prev.fh /\ r.fw = prev.fw /\ r.fx = prev.fx
         /\ \A o \in others : /\ ~Placed!RectsOverlap(r, o)
                              /\ ~Placed!RectsOverlap(Placed!Swept(prev, r), o)
<1>. DEFINE y == Placed!ClampY(prev, target, others)
<1>1. /\ y \in Nat /\ y + prev.fh <= Size
      /\ \A o \in others : Placed!OverlapsX(prev, o) =>
           /\ Placed!Bottom(prev) <= o.fy => y + prev.fh <= o.fy
           /\ Placed!Bottom(o) <= prev.fy => Placed!Bottom(o) <= y
  BY StopsInY
<1>. HIDE DEF y
<1>2. prev \in Placed!Rect /\ prev.fy \in Nat /\ prev.fx \in Nat /\ prev.fh \in Nat /\ prev.fw \in Nat
      /\ Size \in Nat
  BY RectFields, CanvasAssumption DEF OnCanvas
<1>3. r = [prev EXCEPT !.fy = y]
  BY DEF y
<1>4. r \in Placed!Rect /\ r.fy = y /\ r.fx = prev.fx /\ r.fh = prev.fh /\ r.fw = prev.fw
  BY <1>1, <1>2, <1>3 DEF Placed!Rect, Placed!Coord
<1>5. OnCanvas(r)
  BY <1>1, <1>2, <1>4 DEF OnCanvas, Placed!Bottom, Placed!Right
<1>6. ASSUME NEW o \in others
      PROVE  /\ ~Placed!RectsOverlap(r, o)
             /\ ~Placed!RectsOverlap(Placed!Swept(prev, r), o)
  <2>1. o.fy \in Nat /\ o.fx \in Nat /\ o.fh \in Nat /\ o.fw \in Nat
    BY RectFields DEF OnCanvas
  <2>. DEFINE s == Placed!Swept(prev, r)
  <2>2. /\ s.fx = prev.fx /\ s.fw = prev.fw
        /\ s.fy = IF prev.fy < y THEN prev.fy ELSE y
        /\ s.fy + s.fh = IF prev.fy < y THEN y + prev.fh ELSE prev.fy + prev.fh
        /\ s.fh \in Int
    BY <1>1, <1>2, <1>4 DEF Placed!Swept
  <2>. HIDE DEF s
  <2>3. CASE ~Placed!OverlapsX(prev, o)
    BY <1>4, <2>2, <2>3 DEF Placed!OverlapsX, Placed!RectsOverlap, Placed!Right, s
  <2>4. CASE Placed!OverlapsX(prev, o)
    <3>1. ~Placed!OverlapsY(prev, o)
      BY <2>4 DEF Placed!RectsOverlap
    <3>2. Placed!Bottom(o) <= prev.fy \/ Placed!Bottom(prev) <= o.fy
      BY <1>2, <2>1, <3>1 DEF Placed!OverlapsY, Placed!Bottom
    <3>3. ~Placed!OverlapsY(r, o) /\ ~Placed!OverlapsY(s, o)
      BY <1>1, <1>2, <1>4, <2>1, <2>2, <2>4, <3>2 DEF Placed!OverlapsY, Placed!Bottom
    <3>. QED
      BY <3>3 DEF Placed!RectsOverlap, s
  <2>. QED
    BY <2>3, <2>4
<1>. QED
  BY <1>4, <1>5, <1>6

(* A drag of the title, first along X and then along Y. *)
LEMMA MoveSlides ==
  ASSUME NEW prev, OnCanvas(prev), NEW x \in Placed!Coord, NEW y \in Placed!Coord,
         NEW others, \A o \in others : OnCanvas(o) /\ ~Placed!RectsOverlap(prev, o),
         NEW r, r = Placed!ResolveMove(prev, x, y, others),
         NEW stepped, stepped = [prev EXCEPT !.fx = r.fx]
  PROVE  /\ OnCanvas(r) /\ r.fw = prev.fw /\ r.fh = prev.fh
         /\ \A o \in others : /\ ~Placed!RectsOverlap(r, o)
                              /\ ~Placed!RectsOverlap(Placed!Swept(prev, stepped), o)
                              /\ ~Placed!RectsOverlap(Placed!Swept(stepped, r), o)
<1>. DEFINE s == [prev EXCEPT !.fx = Placed!ClampX(prev, x, others)]
<1>1. /\ OnCanvas(s) /\ s.fw = prev.fw /\ s.fh = prev.fh /\ s.fy = prev.fy
      /\ \A o \in others : /\ ~Placed!RectsOverlap(s, o)
                           /\ ~Placed!RectsOverlap(Placed!Swept(prev, s), o)
  BY SlidesInX
<1>2. r = [s EXCEPT !.fy = Placed!ClampY(s, y, others)]
  BY DEF Placed!ResolveMove
<1>3. s = [prev EXCEPT !.fx = s.fx]
  BY DEF OnCanvas, Placed!Rect
<1>. HIDE DEF s
<1>4. /\ OnCanvas(r) /\ r.fw = s.fw /\ r.fh = s.fh /\ r.fx = s.fx
      /\ \A o \in others : /\ ~Placed!RectsOverlap(r, o)
                           /\ ~Placed!RectsOverlap(Placed!Swept(s, r), o)
  BY <1>1, <1>2, SlidesInY
<1>5. stepped = s
  BY <1>3, <1>4
<1>. QED
  BY <1>1, <1>4, <1>5

-----------------------------------------------------------------------------
(* A panel that is resized along one axis. *)

Good(r) == OnCanvas(r) /\ r.fw >= MinSize /\ r.fh >= MinSize

LEMMA GoodIsInside == ASSUME NEW r \in Placed!Rect PROVE Good(r) <=> Placed!Inside(r)
BY DEF Good, OnCanvas, Placed!Inside

(* Its width ends at the nearest panel to the right, its height likewise:   *)
(* w is what is asked for, hi what the canvas has, D what the panels leave. *)
EdgeAt(w, hi, D) ==
  Placed!Min({Placed!Clamped(w, MinSize, hi)} \cup {Placed!Max({d, MinSize}) : d \in D})

LEMMA EdgeStops ==
  ASSUME NEW hi \in Nat, MinSize <= hi, NEW w \in Nat, MinSize <= w,
         NEW D \in SUBSET Nat, \A d \in D : d >= MinSize
  PROVE  /\ EdgeAt(w, hi, D) \in Nat /\ EdgeAt(w, hi, D) >= MinSize
         /\ EdgeAt(w, hi, D) <= hi /\ EdgeAt(w, hi, D) <= w
         /\ \A d \in D : EdgeAt(w, hi, D) <= d
<1>. DEFINE goal == Placed!Clamped(w, MinSize, hi)
            A == {goal} \cup {Placed!Max({d, MinSize}) : d \in D}
            z == EdgeAt(w, hi, D)
<1>1. MinSize \in Nat /\ goal \in Nat /\ goal >= MinSize /\ goal <= hi /\ goal <= w
  BY CanvasAssumption DEF Placed!Clamped
<1>2. \A d \in D : Placed!Max({d, MinSize}) = d
  BY <1>1, Larger
<1>3. A = {goal} \cup D
  BY <1>2
<1>. HIDE DEF goal
<1>4. z \in {goal} \cup D /\ \A a \in {goal} \cup D : z <= a
  <2>1. ({goal} \cup D) \in SUBSET Nat /\ {goal} \cup D # {}
    BY <1>1
  <2>2. z = Placed!Min({goal} \cup D)
    BY <1>3 DEF goal, EdgeAt
  <2>. QED
    BY <2>1, <2>2, Smallest
<1>. HIDE DEF z
<1>5. z \in Nat /\ z >= MinSize
  BY <1>1, <1>4
<1>6. z <= goal /\ \A d \in D : z <= d
  BY <1>4
<1>7. z <= hi /\ z <= w
  BY <1>1, <1>5, <1>6
<1>. QED
  BY <1>5, <1>6, <1>7 DEF z

(* An edge that does not move, or one that moves up to the next panel.      *)
LEMMA ResizeStops ==
  ASSUME ~Diagonal, NEW prev, Good(prev), NEW size \in Placed!Grown(prev),
         NEW others, \A o \in others : OnCanvas(o) /\ ~Placed!RectsOverlap(prev, o),
         NEW r, r = Placed!ResolveResize(prev, size[1], size[2], others)
  PROVE  /\ Good(r) /\ r.fx = prev.fx /\ r.fy = prev.fy
         /\ \A o \in others : ~Placed!RectsOverlap(r, o)
<1>. DEFINE w == size[1]
            h == size[2]
            right == {o \in others : Placed!OverlapsY(prev, o) /\ prev.fx < o.fx}
            below == {o \in others : Placed!OverlapsX(prev, o) /\ prev.fy < o.fy}
            X == {o.fx - prev.fx : o \in right}
            Y == {o.fy - prev.fy : o \in below}
            W == EdgeAt(w, Size - prev.fx, X)
            H == EdgeAt(h, Size - prev.fy, Y)
<1>1. /\ prev \in Placed!Rect /\ prev.fx \in Nat /\ prev.fy \in Nat /\ prev.fw \in Nat /\ prev.fh \in Nat
      /\ prev.fx + prev.fw <= Size /\ prev.fy + prev.fh <= Size
      /\ prev.fw >= MinSize /\ prev.fh >= MinSize
      /\ Size \in Nat /\ MinSize \in Nat /\ MinSize >= 1
  BY RectFields, CanvasAssumption DEF Good, OnCanvas, Placed!Right, Placed!Bottom
<1>2. /\ w \in MinSize..Size /\ h \in MinSize..Size
      /\ w <= prev.fw \/ h <= prev.fh
  BY DEF Placed!Grown
<1>3. \A o \in others : o.fx \in Nat /\ o.fy \in Nat /\ o.fw \in Nat /\ o.fh \in Nat
  BY RectFields DEF OnCanvas
<1>4. \A o \in right : o.fx - prev.fx >= prev.fw
  BY <1>1, <1>3 DEF Placed!RectsOverlap, Placed!OverlapsX, Placed!Right
<1>5. \A o \in below : o.fy - prev.fy >= prev.fh
  BY <1>1, <1>3 DEF Placed!RectsOverlap, Placed!OverlapsY, Placed!Bottom
<1>6. X \in SUBSET Nat /\ (\A d \in X : d >= MinSize)
  BY <1>1, <1>3, <1>4
<1>7. Y \in SUBSET Nat /\ (\A d \in Y : d >= MinSize)
  BY <1>1, <1>3, <1>5
<1>8. r = [prev EXCEPT !.fw = W, !.fh = H]
  <2>1. {Placed!Max({d, MinSize}) : d \in X} = {Placed!Max({o.fx - prev.fx, MinSize}) : o \in right}
    OBVIOUS
  <2>2. {Placed!Max({d, MinSize}) : d \in Y} = {Placed!Max({o.fy - prev.fy, MinSize}) : o \in below}
    OBVIOUS
  <2>. QED
    BY <2>1, <2>2 DEF Placed!ResolveResize, EdgeAt
<1>. HIDE DEF X, Y
<1>9. /\ W \in Nat /\ W >= MinSize /\ W <= Size - prev.fx /\ W <= w
      /\ \A d \in X : W <= d
  <2>1. Size - prev.fx \in Nat /\ MinSize <= Size - prev.fx /\ w \in Nat /\ MinSize <= w
    BY <1>1, <1>2
  <2>. HIDE DEF w
  <2>. QED
    BY <1>6, <2>1, EdgeStops
<1>10. /\ H \in Nat /\ H >= MinSize /\ H <= Size - prev.fy /\ H <= h
       /\ \A d \in Y : H <= d
  <2>1. Size - prev.fy \in Nat /\ MinSize <= Size - prev.fy /\ h \in Nat /\ MinSize <= h
    BY <1>1, <1>2
  <2>. HIDE DEF h
  <2>. QED
    BY <1>7, <2>1, EdgeStops
<1>. HIDE DEF W, H, w, h
<1>11. /\ r \in Placed!Rect /\ r.fx = prev.fx /\ r.fy = prev.fy /\ r.fw = W /\ r.fh = H
  <2>1. W \in 0..Size /\ H \in 0..Size
    BY <1>1, <1>9, <1>10
  <2>. QED
    BY <1>1, <1>8, <2>1 DEF Placed!Rect, Placed!Coord
<1>12. Good(r)
  BY <1>1, <1>9, <1>10, <1>11 DEF Good, OnCanvas, Placed!Right, Placed!Bottom
<1>13. ASSUME NEW o \in others PROVE ~Placed!RectsOverlap(r, o)
  <2>1. ~Placed!RectsOverlap(prev, o) /\ o.fx \in Nat /\ o.fy \in Nat /\ o.fw \in Nat /\ o.fh \in Nat
    BY <1>3
  <2>2. Placed!OverlapsY(prev, o) /\ prev.fx < o.fx => W <= o.fx - prev.fx
    BY <1>9 DEF X
  <2>3. Placed!OverlapsX(prev, o) /\ prev.fy < o.fy => H <= o.fy - prev.fy
    BY <1>10 DEF Y
  <2>4. W <= prev.fw \/ H <= prev.fh
    BY <1>1, <1>2, <1>9, <1>10 DEF w, h
  <2>5. CASE W <= prev.fw
    <3>1. Placed!OverlapsX(r, o) => Placed!OverlapsX(prev, o)
      BY <1>1, <1>9, <1>11, <2>1, <2>5 DEF Placed!OverlapsX, Placed!Right
    <3>2. Placed!OverlapsX(prev, o) => ~Placed!OverlapsY(r, o)
      BY <1>1, <1>10, <1>11, <2>1, <2>3
      DEF Placed!RectsOverlap, Placed!OverlapsY, Placed!Bottom
    <3>. QED
      BY <3>1, <3>2 DEF Placed!RectsOverlap
  <2>6. CASE H <= prev.fh
    <3>1. Placed!OverlapsY(r, o) => Placed!OverlapsY(prev, o)
      BY <1>1, <1>10, <1>11, <2>1, <2>6 DEF Placed!OverlapsY, Placed!Bottom
    <3>2. Placed!OverlapsY(prev, o) => ~Placed!OverlapsX(r, o)
      BY <1>1, <1>9, <1>11, <2>1, <2>2
      DEF Placed!RectsOverlap, Placed!OverlapsX, Placed!Right
    <3>. QED
      BY <3>1, <3>2 DEF Placed!RectsOverlap
  <2>. QED
    BY <2>4, <2>5, <2>6
<1>. QED
  BY <1>11, <1>12, <1>13

-----------------------------------------------------------------------------
(* The panels of a screen. *)

Tidy(l) ==
  /\ l \in Seq(Placed!Rect)
  /\ \A i \in DOMAIN l : Good(l[i])
  /\ Placed!Apart(l)

LEMMA OverlapMutual == \A a, b : Placed!RectsOverlap(a, b) <=> Placed!RectsOverlap(b, a)
BY DEF Placed!RectsOverlap, Placed!OverlapsX, Placed!OverlapsY

LEMMA Replaced ==
  ASSUME NEW l, Tidy(l), NEW i \in DOMAIN l, NEW r, Good(r),
         \A j \in DOMAIN l \ {i} : ~Placed!RectsOverlap(r, l[j])
  PROVE  Tidy([l EXCEPT ![i] = r])
<1>. DEFINE m == [l EXCEPT ![i] = r]
<1>1. l \in Seq(Placed!Rect) /\ r \in Placed!Rect
  BY DEF Tidy, Good, OnCanvas
<1>2. m \in Seq(Placed!Rect) /\ DOMAIN m = DOMAIN l /\ m[i] = r
      /\ \A j \in DOMAIN l \ {i} : m[j] = l[j]
  BY <1>1
<1>. HIDE DEF m
<1>3. \A j \in DOMAIN m : Good(m[j])
  BY <1>2 DEF Tidy
<1>4. Placed!Apart(m)
  <2>. SUFFICES ASSUME NEW j \in DOMAIN l, NEW k \in DOMAIN l, j # k
                PROVE  ~Placed!RectsOverlap(m[j], m[k])
    BY <1>2 DEF Placed!Apart
  <2>. QED
    BY <1>2, OverlapMutual DEF Tidy, Placed!Apart
<1>. QED
  BY <1>2, <1>3, <1>4 DEF Tidy, m

LEMMA Appended ==
  ASSUME NEW l, Tidy(l), NEW r, Good(r),
         \A j \in DOMAIN l : ~Placed!RectsOverlap(r, l[j])
  PROVE  Tidy(Append(l, r))
<1>. DEFINE m == Append(l, r)
            n == Len(l) + 1
<1>1. l \in Seq(Placed!Rect) /\ r \in Placed!Rect
  BY DEF Tidy, Good, OnCanvas
<1>2. /\ m \in Seq(Placed!Rect) /\ DOMAIN m = DOMAIN l \cup {n} /\ n \notin DOMAIN l
      /\ m[n] = r /\ \A j \in DOMAIN l : m[j] = l[j]
  BY <1>1
<1>. HIDE DEF m, n
<1>3. \A j \in DOMAIN m : Good(m[j])
  BY <1>2 DEF Tidy
<1>4. Placed!Apart(m)
  <2>. SUFFICES ASSUME NEW j \in DOMAIN m, NEW k \in DOMAIN m, j # k
                PROVE  ~Placed!RectsOverlap(m[j], m[k])
    BY DEF Placed!Apart
  <2>. QED
    BY <1>2, OverlapMutual DEF Tidy, Placed!Apart
<1>. QED
  BY <1>2, <1>3, <1>4 DEF Tidy, m

(* A sequence without one of its elements. *)
LEMMA OneRemoved ==
  ASSUME NEW S, NEW s \in Seq(S), NEW k \in 1..Len(s)
  PROVE  LET m == SubSeq(s, 1, k - 1) \o SubSeq(s, k + 1, Len(s))
         IN /\ m \in Seq(S) /\ Len(m) = Len(s) - 1 /\ DOMAIN m = 1..(Len(s) - 1)
            /\ \A j \in 1..(Len(s) - 1) : m[j] = s[IF j < k THEN j ELSE j + 1]
<1>. DEFINE before == SubSeq(s, 1, k - 1)
            after == SubSeq(s, k + 1, Len(s))
            m == before \o after
<1>1. Len(s) \in Nat /\ k \in Nat
  OBVIOUS
<1>2. /\ before \in Seq(S) /\ Len(before) = k - 1
      /\ \A j \in 1..(k - 1) : before[j] = s[j]
  BY <1>1
<1>3. /\ after \in Seq(S) /\ Len(after) = Len(s) - k
      /\ \A j \in 1..(Len(s) - k) : after[j] = s[k + j]
  BY <1>1
<1>4. m = before \o after
  OBVIOUS
<1>. HIDE DEF before, after, m
<1>5. m \in Seq(S) /\ Len(m) = Len(s) - 1 /\ DOMAIN m = 1..(Len(s) - 1)
  <2>1. m \in Seq(S) /\ Len(m) = Len(before) + Len(after)
    BY <1>2, <1>3, <1>4, ConcatProperties
  <2>2. Len(m) = Len(s) - 1
    BY <1>1, <1>2, <1>3, <2>1
  <2>. QED
    BY <2>1, <2>2
<1>6. ASSUME NEW j \in 1..(Len(s) - 1) PROVE m[j] = s[IF j < k THEN j ELSE j + 1]
  <2>1. CASE j < k
    BY <1>1, <1>2, <1>3, <1>4, <2>1
  <2>2. CASE ~(j < k)
    <3>1. j - (k - 1) \in 1..(Len(s) - k) /\ m[j] = after[j - (k - 1)]
      BY <1>1, <1>2, <1>3, <1>4, <2>2
    <3>2. after[j - (k - 1)] = s[k + (j - (k - 1))]
      BY <1>3, <3>1
    <3>3. k + (j - (k - 1)) = j + 1
      BY <1>1
    <3>. QED
      BY <1>1, <2>2, <3>1, <3>2, <3>3
  <2>. QED
    BY <2>1, <2>2
<1>. QED
  BY <1>5, <1>6 DEF m, before, after

LEMMA Removed ==
  ASSUME NEW l, Tidy(l), NEW i \in DOMAIN l
  PROVE  Tidy(Placed!RemoveAt(l, i))
<1>. DEFINE m == Placed!RemoveAt(l, i)
            from(j) == IF j < i THEN j ELSE j + 1
<1>1. l \in Seq(Placed!Rect) /\ Len(l) \in Nat /\ i \in 1..Len(l) /\ DOMAIN l = 1..Len(l)
  BY DEF Tidy
<1>2. /\ m \in Seq(Placed!Rect) /\ Len(m) = Len(l) - 1 /\ DOMAIN m = 1..(Len(l) - 1)
      /\ \A j \in 1..(Len(l) - 1) : m[j] = l[from(j)]
  BY <1>1, OneRemoved DEF Placed!RemoveAt
<1>. HIDE DEF m
<1>3. ASSUME NEW j \in DOMAIN m PROVE from(j) \in DOMAIN l /\ m[j] = l[from(j)]
  BY <1>1, <1>2
<1>4. \A j, k \in DOMAIN m : j # k => from(j) # from(k)
  <2>1. DOMAIN m \subseteq Nat /\ i \in Nat
    BY <1>1, <1>2
  <2>. QED
    BY <2>1
<1>. HIDE DEF from
<1>5. (\A j \in DOMAIN m : Good(m[j])) /\ Placed!Apart(m)
  BY <1>3, <1>4 DEF Tidy, Placed!Apart
<1>. QED
  BY <1>2, <1>5 DEF Tidy, m

LEMMA MonotoneProduct ==
  ASSUME NEW a \in Nat, NEW b \in Nat, NEW c \in Nat, NEW d \in Nat, a <= c, b <= d
  PROVE  a * b <= c * d
<1>1. a * b <= c * b
  <2>1. PICK k \in Nat : c = a + k
    <3>1. c - a \in Nat /\ c = a + (c - a)
      OBVIOUS
    <3>. QED
      BY <3>1
  <2>2. c * b = a * b + k * b /\ k * b \in Nat
    BY <2>1
  <2>. QED
    BY <2>2
<1>2. c * b <= c * d
  <2>1. PICK k \in Nat : d = b + k
    <3>1. d - b \in Nat /\ d = b + (d - b)
      OBVIOUS
    <3>. QED
      BY <3>1
  <2>2. c * d = c * b + c * k /\ c * k \in Nat
    BY <2>1
  <2>. QED
    BY <2>2
<1>3. a * b \in Nat /\ c * b \in Nat /\ c * d \in Nat
  OBVIOUS
<1>. QED
  BY <1>1, <1>2, <1>3

-----------------------------------------------------------------------------
(* A panel that is added. *)

LEMMA SlotIsGood ==
  ASSUME NEW x \in 0..(Size - Slot), NEW y \in 0..(Size - Slot)
  PROVE  Good(Placed!SlotAt(x, y))
<1>1. Size \in Nat /\ Slot \in Nat /\ MinSize \in Nat /\ MinSize <= Slot /\ Slot <= Size
  BY CanvasAssumption
<1>2. x \in Nat /\ y \in Nat /\ x + Slot <= Size /\ y + Slot <= Size
  BY <1>1
<1>. DEFINE r == Placed!SlotAt(x, y)
<1>3. r.fx = x /\ r.fy = y /\ r.fw = Slot /\ r.fh = Slot
  BY DEF Placed!SlotAt
<1>4. x \in 0..Size /\ y \in 0..Size /\ Slot \in 0..Size
  BY <1>1, <1>2
<1>5. r \in Placed!Rect
  BY <1>4 DEF Placed!SlotAt, Placed!Rect, Placed!Coord
<1>. HIDE DEF r
<1>. QED
  BY <1>1, <1>2, <1>3, <1>5 DEF r, Good, OnCanvas, Placed!Right, Placed!Bottom

(* The first free place is one, and free. *)
LEMMA FreeSlotIsFree ==
  ASSUME Placed!Free # {}
  PROVE  Good(Placed!FreeSlot) /\ ~Placed!Crowded(Placed!FreeSlot)
<1>. DEFINE S == {p[1] : p \in Placed!Free}
            y == Placed!Min(S)
            T == {p[2] : p \in {q \in Placed!Free : q[1] = y}}
            x == Placed!Min(T)
            First(p) == \A q \in Placed!Free : p[1] < q[1] \/ (p[1] = q[1] /\ p[2] <= q[2])
<1>1. \A p \in Placed!Free :
        /\ p = <<p[1], p[2]>> /\ p[1] \in Steps /\ p[2] \in Steps
        /\ p[1] \in Nat /\ p[2] \in Nat
        /\ ~Placed!Crowded(Placed!SlotAt(p[2], p[1]))
  <2>1. \A n \in Steps : n \in Nat
    BY CanvasAssumption
  <2>. TAKE p \in Placed!Free
  <2>2. p \in Steps \X Steps /\ ~Placed!Crowded(Placed!SlotAt(p[2], p[1]))
    BY DEF Placed!Free
  <2>. QED
    BY <2>1, <2>2
<1>2. S \in SUBSET Nat /\ S # {}
  BY <1>1
<1>3. y \in S /\ \A a \in S : y <= a
  BY <1>2, Smallest
<1>. HIDE DEF y
<1>4. T \in SUBSET Nat /\ T # {}
  BY <1>1, <1>3
<1>5. x \in T /\ \A a \in T : x <= a
  BY <1>4, Smallest
<1>. HIDE DEF x
<1>6. PICK f \in Placed!Free : f[1] = y /\ f[2] = x
  BY <1>5
<1>7. First(f)
  <2>. TAKE q \in Placed!Free
  <2>1. f[1] <= q[1] /\ f[1] \in Nat /\ q[1] \in Nat
    BY <1>1, <1>3, <1>6
  <2>2. q[1] = f[1] => f[2] <= q[2]
    BY <1>5, <1>6
  <2>. QED
    BY <2>1, <2>2
<1>. DEFINE first == CHOOSE p \in Placed!Free : First(p)
<1>8. first \in Placed!Free
  BY <1>7
<1>9. Placed!FreeSlot = Placed!SlotAt(first[2], first[1])
  BY DEF Placed!FreeSlot
<1>. HIDE DEF first
<1>10. first[1] \in 0..(Size - Slot) /\ first[2] \in 0..(Size - Slot)
  BY <1>1, <1>8, CanvasAssumption
<1>. QED
  BY <1>1, <1>8, <1>9, <1>10, SlotIsGood

LEMMA VictimIsPanel ==
  ASSUME placed \in Seq(Placed!Rect), placed # << >>
  PROVE  Placed!Victim \in DOMAIN placed
<1>. DEFINE A == {Placed!Area(placed[j]) : j \in DOMAIN placed}
            a == Placed!Max(A)
            S == {i \in DOMAIN placed :
                    \A j \in DOMAIN placed : Placed!Area(placed[j]) <= Placed!Area(placed[i])}
<1>1. Size \in Nat /\ Size * Size \in Nat
  BY CanvasAssumption
<1>2. ASSUME NEW r \in Placed!Rect PROVE Placed!Area(r) \in 0..(Size * Size)
  <2>1. r.fw \in Nat /\ r.fh \in Nat /\ r.fw <= Size /\ r.fh <= Size
    BY <1>1 DEF Placed!Rect, Placed!Coord
  <2>2. \A w, h \in Nat : w <= Size /\ h <= Size => w * h <= Size * Size /\ w * h \in Nat
    <3>. SUFFICES ASSUME NEW w \in Nat, NEW h \in Nat, w <= Size, h <= Size
                  PROVE  w * h <= Size * Size /\ w * h \in Nat
      OBVIOUS
    <3>1. w * h <= Size * Size
      BY <1>1, MonotoneProduct
    <3>2. w * h \in Nat
      OBVIOUS
    <3>. QED
      BY <3>1, <3>2
  <2>3. r.fw * r.fh <= Size * Size /\ r.fw * r.fh \in Nat
    BY <2>1, <2>2
  <2>. QED
    BY <1>1, <2>3 DEF Placed!Area
<1>3. DOMAIN placed = 1..Len(placed) /\ Len(placed) \in Nat /\ DOMAIN placed # {}
      /\ \A j \in DOMAIN placed : placed[j] \in Placed!Rect
  <2>1. Len(placed) \in Nat /\ Len(placed) # 0
    BY EmptySeq
  <2>2. 1 \in 1..Len(placed)
    BY <2>1
  <2>. QED
    BY <2>1, <2>2
<1>4. A \in SUBSET (0..(Size * Size)) /\ A # {}
  BY <1>2, <1>3
<1>5. a \in A /\ \A b \in A : a >= b
  BY <1>1, <1>4, Largest
<1>. HIDE DEF a
<1>6. PICK i \in DOMAIN placed : a = Placed!Area(placed[i])
  BY <1>5
<1>7. i \in S
  <2>1. \A j \in DOMAIN placed : Placed!Area(placed[j]) <= Placed!Area(placed[i])
    <3>. TAKE j \in DOMAIN placed
    <3>1. a >= Placed!Area(placed[j]) /\ a \in Nat /\ Placed!Area(placed[j]) \in Nat
      BY <1>2, <1>3, <1>5, <1>6
    <3>. QED
      BY <1>6, <3>1
  <2>. QED
    BY <2>1
<1>8. S \in SUBSET (0..Len(placed)) /\ S # {}
  BY <1>3, <1>7
<1>9. Placed!Max(S) \in S
  BY <1>3, <1>8, Largest
<1>10. Placed!Victim = Placed!Max(S)
  BY DEF Placed!Victim
<1>. QED
  BY <1>9, <1>10

(* One panel lies within another. *)
Within(a, r) ==
  /\ r.fx <= a.fx /\ Placed!Right(a) <= Placed!Right(r)
  /\ r.fy <= a.fy /\ Placed!Bottom(a) <= Placed!Bottom(r)

LEMMA WithinOverlaps ==
  ASSUME NEW a \in Placed!Rect, NEW r \in Placed!Rect, NEW o \in Placed!Rect, Within(a, r),
         Placed!RectsOverlap(a, o)
  PROVE  Placed!RectsOverlap(r, o)
<1>1. a.fx \in Nat /\ a.fy \in Nat /\ a.fw \in Nat /\ a.fh \in Nat
  BY RectFields
<1>2. r.fx \in Nat /\ r.fy \in Nat /\ r.fw \in Nat /\ r.fh \in Nat
  BY RectFields
<1>3. o.fx \in Nat /\ o.fy \in Nat /\ o.fw \in Nat /\ o.fh \in Nat
  BY RectFields
<1>. QED
  BY <1>1, <1>2, <1>3 DEF Within, Placed!RectsOverlap, Placed!OverlapsX, Placed!OverlapsY, Placed!Right, Placed!Bottom

(* Two halves of a panel are panels, if it is large enough for two. *)
LEMMA HalvesAreGood ==
  ASSUME NEW r, Good(r), r.fw >= 2 * MinSize \/ r.fh >= 2 * MinSize,
         NEW halves, halves = Placed!HalvesOf(r)
  PROVE  /\ Good(halves[1]) /\ Good(halves[2])
         /\ ~Placed!RectsOverlap(halves[1], halves[2])
         /\ Within(halves[1], r) /\ Within(halves[2], r)
<1>1. /\ r \in Placed!Rect /\ r.fx \in Nat /\ r.fy \in Nat /\ r.fw \in Nat /\ r.fh \in Nat
      /\ r.fx + r.fw <= Size /\ r.fy + r.fh <= Size
      /\ r.fw >= MinSize /\ r.fh >= MinSize
      /\ Size \in Nat /\ MinSize \in Nat /\ MinSize >= 1
  BY RectFields, CanvasAssumption DEF Good, OnCanvas, Placed!Right, Placed!Bottom
<1>. DEFINE a == halves[1]
            b == halves[2]
<1>2. CASE r.fw >= r.fh
  <2>. DEFINE half == r.fw \div 2
  <2>1. /\ half \in Nat /\ half >= MinSize /\ half <= r.fw /\ r.fw - half >= MinSize
    BY <1>1, <1>2
  <2>2. a = [r EXCEPT !.fw = r.fw - half] /\ b = [r EXCEPT !.fx = r.fx + r.fw - half, !.fw = half]
    BY <1>2 DEF Placed!HalvesOf
  <2>. HIDE DEF half, a, b
  <2>3. r.fw - half \in 0..Size /\ half \in 0..Size /\ r.fx + r.fw - half \in 0..Size
    BY <1>1, <2>1
  <2>4. /\ a \in Placed!Rect /\ a.fx = r.fx /\ a.fy = r.fy /\ a.fw = r.fw - half /\ a.fh = r.fh
        /\ b \in Placed!Rect /\ b.fx = r.fx + r.fw - half /\ b.fy = r.fy /\ b.fw = half /\ b.fh = r.fh
    BY <1>1, <2>2, <2>3 DEF Placed!Rect, Placed!Coord
  <2>5. Good(a) /\ Good(b)
    BY <1>1, <2>1, <2>4 DEF Good, OnCanvas, Placed!Right, Placed!Bottom
  <2>6. Within(a, r) /\ Within(b, r)
    BY <1>1, <2>1, <2>4 DEF Within, Placed!Right, Placed!Bottom
  <2>7. ~Placed!OverlapsX(a, b)
    BY <1>1, <2>1, <2>4 DEF Placed!OverlapsX, Placed!Right
  <2>. QED
    BY <2>5, <2>6, <2>7 DEF Placed!RectsOverlap, a, b
<1>3. CASE ~(r.fw >= r.fh)
  <2>. DEFINE half == r.fh \div 2
  <2>1. /\ half \in Nat /\ half >= MinSize /\ half <= r.fh /\ r.fh - half >= MinSize
    BY <1>1, <1>3
  <2>2. a = [r EXCEPT !.fh = r.fh - half] /\ b = [r EXCEPT !.fy = r.fy + r.fh - half, !.fh = half]
    BY <1>3 DEF Placed!HalvesOf
  <2>. HIDE DEF half, a, b
  <2>3. r.fh - half \in 0..Size /\ half \in 0..Size /\ r.fy + r.fh - half \in 0..Size
    BY <1>1, <2>1
  <2>4. /\ a \in Placed!Rect /\ a.fx = r.fx /\ a.fy = r.fy /\ a.fh = r.fh - half /\ a.fw = r.fw
        /\ b \in Placed!Rect /\ b.fy = r.fy + r.fh - half /\ b.fx = r.fx /\ b.fh = half /\ b.fw = r.fw
    BY <1>1, <2>2, <2>3 DEF Placed!Rect, Placed!Coord
  <2>5. Good(a) /\ Good(b)
    BY <1>1, <2>1, <2>4 DEF Good, OnCanvas, Placed!Right, Placed!Bottom
  <2>6. Within(a, r) /\ Within(b, r)
    BY <1>1, <2>1, <2>4 DEF Within, Placed!Right, Placed!Bottom
  <2>7. ~Placed!OverlapsY(a, b)
    BY <1>1, <2>1, <2>4 DEF Placed!OverlapsY, Placed!Bottom
  <2>. QED
    BY <2>5, <2>6, <2>7 DEF Placed!RectsOverlap, a, b
<1>. QED
  BY <1>2, <1>3

(* When there is no free place for another panel, the one that is halved is *)
(* large enough for two. The program does not see to it. *)
Halvable ==
  scene = "canvas" /\ Len(placed) < MaxPlaced /\ Placed!Free = {} =>
    LET r == placed[Placed!Victim] IN r.fw >= 2 * MinSize \/ r.fh >= 2 * MinSize

LEMMA CarvedIsTidy ==
  ASSUME Tidy(placed), Halvable, scene = "canvas", Len(placed) < MaxPlaced
  PROVE  Tidy(Placed!Carved)
<1>1. CASE Placed!Free # {}
  <2>1. Good(Placed!FreeSlot) /\ \A j \in DOMAIN placed : ~Placed!RectsOverlap(Placed!FreeSlot, placed[j])
    BY <1>1, FreeSlotIsFree DEF Placed!Crowded
  <2>. QED
    BY <1>1, <2>1, Appended DEF Placed!Carved
<1>2. CASE Placed!Free = {}
  <2>. DEFINE v == Placed!Victim
              halves == Placed!HalvesOf(placed[v])
              smaller == [placed EXCEPT ![v] = halves[1]]
  <2>1. placed \in Seq(Placed!Rect) /\ placed # << >>
    <3>1. PICK n \in Steps : TRUE
      BY CanvasAssumption
    <3>2. <<n, n>> \notin Placed!Free
      BY <1>2
    <3>. QED
      BY <3>1, <3>2 DEF Placed!Free, Placed!Crowded, Tidy
  <2>2. v \in DOMAIN placed
    BY <2>1, VictimIsPanel
  <2>. HIDE DEF v
  <2>3. /\ Good(placed[v])
        /\ placed[v].fw >= 2 * MinSize \/ placed[v].fh >= 2 * MinSize
    BY <1>2, <2>2 DEF Tidy, Halvable, v
  <2>4. /\ Good(halves[1]) /\ Good(halves[2]) /\ ~Placed!RectsOverlap(halves[1], halves[2])
        /\ Within(halves[1], placed[v]) /\ Within(halves[2], placed[v])
    BY <2>3, HalvesAreGood
  <2>. HIDE DEF halves
  <2>5. \A j \in DOMAIN placed \ {v} : /\ ~Placed!RectsOverlap(halves[1], placed[j])
                                       /\ ~Placed!RectsOverlap(halves[2], placed[j])
    <3>. TAKE j \in DOMAIN placed \ {v}
    <3>1. /\ halves[1] \in Placed!Rect /\ halves[2] \in Placed!Rect
          /\ placed[v] \in Placed!Rect /\ placed[j] \in Placed!Rect
      BY <2>2, <2>4 DEF Tidy, Good, OnCanvas
    <3>2. ~Placed!RectsOverlap(placed[v], placed[j])
      BY <2>2 DEF Tidy, Placed!Apart
    <3>. QED
      BY <2>4, <3>1, <3>2, WithinOverlaps
  <2>6. Tidy(smaller)
    BY <2>2, <2>4, <2>5, Replaced
  <2>7. \A j \in DOMAIN smaller : ~Placed!RectsOverlap(halves[2], smaller[j])
    BY <2>1, <2>2, <2>4, <2>5, OverlapMutual
  <2>. HIDE DEF smaller
  <2>8. Tidy(Append(smaller, halves[2]))
    BY <2>4, <2>6, <2>7, Appended
  <2>9. Placed!Carved = Append(smaller, halves[2])
    BY <1>2 DEF Placed!Carved, smaller, halves, v
  <2>. QED
    BY <2>8, <2>9
<1>. QED
  BY <1>1, <1>2

-----------------------------------------------------------------------------
(* Panels that are arranged in columns. *)

LEMMA Division ==
  ASSUME NEW a \in Nat, NEW d \in Nat \ {0}
  PROVE  /\ a \div d \in Nat /\ a % d \in Nat /\ a % d < d
         /\ a = d * (a \div d) + (a % d)
OBVIOUS

LEMMA QuotientBound ==
  ASSUME NEW a \in Nat, NEW d \in Nat \ {0}, NEW k \in Nat, d * k <= a
  PROVE  k <= a \div d
<1>. DEFINE q == a \div d
<1>1. q \in Nat /\ a < d * q + d /\ d * q \in Nat
  BY Division
<1>. HIDE DEF q
<1>2. ASSUME q < k PROVE FALSE
  <2>1. q + 1 \in Nat /\ q + 1 <= k /\ d \in Nat /\ d <= d
    BY <1>1, <1>2
  <2>2. d * (q + 1) <= d * k
    BY <2>1, MonotoneProduct
  <2>3. d * (q + 1) = d * q + d
    BY <1>1
  <2>4. d * k \in Nat
    OBVIOUS
  <2>. QED
    BY <1>1, <2>2, <2>3, <2>4
<1>. QED
  BY <1>1, <1>2 DEF q

(* Cells that come one after another do not meet. *)
LEMMA NextCell ==
  ASSUME NEW a \in Nat, NEW b \in Nat, NEW w \in Nat, a < b
  PROVE  a * w + w <= b * w
<1>1. (a + 1) * w <= b * w
  BY MonotoneProduct
<1>2. (a + 1) * w = a * w + w
  OBVIOUS
<1>. QED
  BY <1>1, <1>2

LEMMA ProductOfNats == \A a, b \in Nat : a * b \in Nat
OBVIOUS

LEMMA ColumnsSuffice ==
  ASSUME NEW n \in Nat \ {0}
  PROVE  Placed!Columns(n) \in 1..n /\ n <= Placed!Columns(n) * Placed!Columns(n)
<1>. DEFINE S == {c \in 1..n : c * c >= n}
<1>1. n * 1 <= n * n
  <2>1. 1 \in Nat /\ n \in Nat /\ 1 <= n /\ n <= n
    OBVIOUS
  <2>. QED
    BY <2>1, MonotoneProduct
<1>2. n \in S
  <2>1. n * 1 = n /\ n * n \in Nat
    OBVIOUS
  <2>. QED
    BY <1>1, <2>1
<1>3. S \in SUBSET Nat /\ S # {}
  <2>1. S \subseteq 1..n /\ 1..n \subseteq Nat
    OBVIOUS
  <2>. QED
    BY <1>2, <2>1
<1>4. Placed!Min(S) \in S
  BY <1>3, Smallest
<1>5. \A c \in S : c \in 1..n /\ n <= c * c
  <2>. TAKE c \in S
  <2>1. c \in Nat /\ c * c \in Nat
    BY <1>3
  <2>. QED
    BY <2>1
<1>. QED
  BY <1>4, <1>5 DEF Placed!Columns

LEMMA ArrangedIsTidy ==
  ASSUME NEW n \in Nat \ {0}, Placed!Columns(n) * MinSize <= Size
  PROVE  Tidy(Placed!AutoArrange(n))
<1>. DEFINE cols == Placed!Columns(n)
            rows == (n + cols - 1) \div cols
            w == Size \div cols
            h == Size \div rows
            col(i) == (i - 1) % cols
            row(i) == (i - 1) \div cols
            cell(i) == [fx |-> col(i) * w, fy |-> row(i) * h, fw |-> w, fh |-> h]
<1>1. /\ cols \in Nat \ {0} /\ cols <= n /\ n <= cols * cols /\ cols * MinSize <= Size
      /\ cols * cols \in Nat
  BY ColumnsSuffice
<1>. HIDE DEF cols
<1>2. Size \in Nat /\ MinSize \in Nat \ {0} /\ n + cols - 1 \in Nat
  BY <1>1, CanvasAssumption
<1>3. rows \in Nat \ {0} /\ rows <= cols
  <2>1. rows \in Nat /\ cols * rows <= n + cols - 1
    BY <1>1, <1>2, Division
  <2>2. 1 <= rows
    <3>1. cols * 1 <= n + cols - 1
      BY <1>1
    <3>. QED
      BY <1>1, <1>2, <3>1, QuotientBound
  <2>. HIDE DEF rows
  <2>3. ASSUME rows > cols PROVE FALSE
    <3>1. cols + 1 <= rows /\ cols + 1 \in Nat /\ cols \in Nat /\ cols <= cols
      BY <1>1, <2>1, <2>3
    <3>2. cols * (cols + 1) <= cols * rows
      BY <2>1, <3>1, MonotoneProduct
    <3>3. cols * (cols + 1) = cols * cols + cols /\ cols * rows \in Nat
      BY <1>1, <2>1
    <3>. QED
      BY <1>1, <2>1, <3>2, <3>3
  <2>. QED
    BY <1>1, <2>1, <2>2, <2>3
<1>4. w \in Nat /\ w >= MinSize /\ cols * w <= Size
  <2>1. w \in Nat /\ cols * w <= Size
    BY <1>1, <1>2, Division
  <2>. QED
    BY <1>1, <1>2, <2>1, QuotientBound
<1>5. ASSUME NEW i \in 1..n
      PROVE  /\ col(i) \in Nat /\ col(i) < cols /\ row(i) \in Nat /\ row(i) < rows
             /\ i - 1 = cols * row(i) + col(i)
  <2>1. i - 1 \in Nat /\ i <= n
    OBVIOUS
  <2>2. col(i) \in Nat /\ col(i) < cols /\ row(i) \in Nat /\ i - 1 = cols * row(i) + col(i)
    BY <1>1, <2>1, Division
  <2>. HIDE DEF col, row
  <2>3. cols * (row(i) + 1) = cols * row(i) + cols /\ cols * row(i) \in Nat
    BY <1>1, <2>2
  <2>4. cols * (row(i) + 1) <= n + cols - 1
    BY <1>1, <2>1, <2>2, <2>3
  <2>5. row(i) + 1 <= rows
    BY <1>1, <1>2, <2>2, <2>4, QuotientBound, SMTT(30)
  <2>. QED
    BY <1>3, <2>2, <2>5
<1>. HIDE DEF rows, w
<1>6. h \in Nat /\ h >= MinSize /\ rows * h <= Size
  <2>1. h \in Nat /\ rows * h <= Size
    BY <1>2, <1>3, Division
  <2>2. rows * MinSize <= cols * MinSize
    BY <1>1, <1>2, <1>3, MonotoneProduct
  <2>3. rows * MinSize <= Size
    <3>1. rows * MinSize \in Nat /\ cols * MinSize \in Nat
      BY <1>1, <1>2, <1>3
    <3>. QED
      BY <1>1, <1>2, <2>2, <3>1
  <2>. QED
    BY <1>2, <1>3, <2>1, <2>3, QuotientBound
<1>. HIDE DEF h, col, row
<1>7. ASSUME NEW i \in 1..n PROVE Good(cell(i))
  <2>1. col(i) * w \in Nat /\ col(i) * w + w <= Size
    <3>1. col(i) * w + w <= cols * w
      BY <1>1, <1>4, <1>5, NextCell
    <3>2. col(i) * w \in Nat /\ cols * w \in Nat
      BY <1>1, <1>4, <1>5, ProductOfNats
    <3>3. cols * w <= Size /\ w \in Nat /\ Size \in Nat
      BY <1>2, <1>4
    <3>. QED
      BY <3>1, <3>2, <3>3
  <2>2. row(i) * h \in Nat /\ row(i) * h + h <= Size
    <3>1. row(i) * h + h <= rows * h
      BY <1>3, <1>5, <1>6, NextCell
    <3>2. row(i) * h \in Nat /\ rows * h \in Nat
      BY <1>3, <1>5, <1>6, ProductOfNats
    <3>3. rows * h <= Size /\ h \in Nat /\ Size \in Nat
      BY <1>2, <1>6
    <3>. QED
      BY <3>1, <3>2, <3>3
  <2>. DEFINE x == col(i) * w
              y == row(i) * h
  <2>3. x \in Nat /\ x + w <= Size /\ y \in Nat /\ y + h <= Size
    BY <2>1, <2>2
  <2>. HIDE DEF x, y
  <2>4. x \in 0..Size /\ y \in 0..Size /\ w \in 0..Size /\ h \in 0..Size
    BY <1>2, <1>4, <1>6, <2>3
  <2>5. Good([fx |-> x, fy |-> y, fw |-> w, fh |-> h])
    BY <1>4, <1>6, <2>3, <2>4 DEF Good, OnCanvas, Placed!Rect, Placed!Coord, Placed!Right, Placed!Bottom
  <2>. QED
    BY <2>5 DEF x, y
<1>8. ASSUME NEW i \in 1..n, NEW j \in 1..n, i # j
      PROVE  ~Placed!RectsOverlap(cell(i), cell(j))
  <2>1. col(i) # col(j) \/ row(i) # row(j)
    <3>1. ASSUME col(i) = col(j), row(i) = row(j) PROVE FALSE
      <4>1. i - 1 = j - 1
        BY <1>5, <3>1
      <4>2. i \in Int /\ j \in Int
        OBVIOUS
      <4>3. i = j
        BY <4>1, <4>2
      <4>. QED
        BY <1>8, <4>3
    <3>. QED
      BY <3>1
  <2>2. CASE col(i) # col(j)
    <3>. DEFINE a == col(i)
                b == col(j)
    <3>1. a \in Nat /\ b \in Nat /\ (a < b \/ b < a) /\ w \in Nat
      BY <2>2, <1>4, <1>5
    <3>. HIDE DEF a, b
    <3>2. a * w + w <= b * w \/ b * w + w <= a * w
      BY <3>1, NextCell
    <3>3. col(i) * w + w <= col(j) * w \/ col(j) * w + w <= col(i) * w
      BY <3>2 DEF a, b
    <3>4. col(i) * w \in Nat /\ col(j) * w \in Nat
      BY ProductOfNats, <1>4, <1>5
    <3>. QED
      BY <1>4, <3>3, <3>4 DEF Placed!RectsOverlap, Placed!OverlapsX, Placed!Right
  <2>3. CASE row(i) # row(j)
    <3>. DEFINE a == row(i)
                b == row(j)
    <3>1. a \in Nat /\ b \in Nat /\ (a < b \/ b < a) /\ h \in Nat
      BY <2>3, <1>6, <1>5
    <3>. HIDE DEF a, b
    <3>2. a * h + h <= b * h \/ b * h + h <= a * h
      BY <3>1, NextCell
    <3>3. row(i) * h + h <= row(j) * h \/ row(j) * h + h <= row(i) * h
      BY <3>2 DEF a, b
    <3>4. row(i) * h \in Nat /\ row(j) * h \in Nat
      BY ProductOfNats, <1>5, <1>6
    <3>. QED
      BY <1>6, <3>3, <3>4 DEF Placed!RectsOverlap, Placed!OverlapsY, Placed!Bottom
  <2>. QED
    BY <2>1, <2>2, <2>3
<1>9. Placed!AutoArrange(n) = [i \in 1..n |-> cell(i)]
  BY DEF Placed!AutoArrange, cols, rows, w, h, col, row
<1>. HIDE DEF cell
<1>10. [i \in 1..n |-> cell(i)] \in Seq(Placed!Rect)
  BY <1>7 DEF Good, OnCanvas
<1>. QED
  BY <1>7, <1>8, <1>9, <1>10 DEF Tidy, Placed!Apart

-----------------------------------------------------------------------------
(* The canvas. *)

LEMMA PlacementsAreTidy ==
  ASSUME NEW c, Orderly(c)
  PROVE  Tidy(Placed!Placements(c))
<1>1. CASE Framed(c)
  <2>1. c \in Seq(Placed!Rect) /\ Placed!Apart(c) /\ \A i \in DOMAIN c : Placed!Inside(c[i])
    BY <1>1 DEF Orderly
  <2>2. \A i \in DOMAIN c : c[i] \in Placed!Rect
    BY <2>1
  <2>3. Tidy(c)
    BY <2>1, <2>2, GoodIsInside DEF Tidy
  <2>4. Placed!Placements(c) = c
    BY <1>1 DEF Framed, Placed!Placements
  <2>. QED
    BY <2>3, <2>4
<1>2. CASE ~Framed(c)
  <2>1. Len(c) \in Nat \ {0} /\ Placed!Columns(Len(c)) * MinSize <= Size
    BY <1>2 DEF Orderly
  <2>2. c # << >> /\ ~\A i \in DOMAIN c : c[i] # NoFrame
    BY <1>2 DEF Framed
  <2>3. Placed!Placements(c) = Placed!AutoArrange(Len(c))
    BY <2>2 DEF Placed!Placements
  <2>. QED
    BY <2>1, <2>3, ArrangedIsTidy
<1>. QED
  BY <1>1, <1>2

LEMMA OthersAreClear ==
  ASSUME Tidy(placed), NEW i \in DOMAIN placed
  PROVE  /\ Good(placed[i]) /\ OnCanvas(placed[i])
         /\ \A o \in Placed!Others(i) : OnCanvas(o) /\ ~Placed!RectsOverlap(placed[i], o)
BY DEF Tidy, Good, Placed!Others, Placed!Apart

LEMMA DragPlaces ==
  ASSUME Tidy(placed), NEW i \in DOMAIN placed, NEW r, Good(r),
         \A o \in Placed!Others(i) : ~Placed!RectsOverlap(r, o),
         placed' = [placed EXCEPT ![i] = r]
  PROVE  /\ Tidy(placed') /\ DOMAIN placed' = DOMAIN placed /\ placed'[i] = r
         /\ \A j \in DOMAIN placed \ {i} : placed'[j] = placed[j]
<1>1. \A j \in DOMAIN placed \ {i} : ~Placed!RectsOverlap(r, placed[j])
  BY DEF Placed!Others
<1>. QED
  BY <1>1, Replaced

LEMMA MoveStep ==
  ASSUME Tidy(placed), NEW i \in DOMAIN placed, Placed!Move(i)
  PROVE  Tidy(placed') /\ Placed!SlideStep
<1>1. PICK x \in Placed!Coord, y \in Placed!Coord :
        placed' = [placed EXCEPT ![i] = Placed!ResolveMove(placed[i], x, y, Placed!Others(i))]
  BY DEF Placed!Move, Placed!Drag
<1>. DEFINE r == Placed!ResolveMove(placed[i], x, y, Placed!Others(i))
            stepped == [placed[i] EXCEPT !.fx = r.fx]
<1>2. /\ OnCanvas(r) /\ r.fw = placed[i].fw /\ r.fh = placed[i].fh
      /\ \A o \in Placed!Others(i) : /\ ~Placed!RectsOverlap(r, o)
                                    /\ ~Placed!RectsOverlap(Placed!Swept(placed[i], stepped), o)
                                    /\ ~Placed!RectsOverlap(Placed!Swept(stepped, r), o)
  <2>. HIDE DEF r, stepped
  <2>. QED
    BY OthersAreClear, MoveSlides DEF r, stepped
<1>. HIDE DEF r
<1>3. Good(r)
  BY <1>2, OthersAreClear DEF Good
<1>4. /\ Tidy(placed') /\ DOMAIN placed' = DOMAIN placed /\ placed'[i] = r
      /\ \A j \in DOMAIN placed \ {i} : placed'[j] = placed[j]
  BY <1>1, <1>2, <1>3, DragPlaces DEF r
<1>5. Placed!SlideStep
  BY <1>2, <1>4 DEF Placed!SlideStep
<1>. QED
  BY <1>4, <1>5

LEMMA ResizeStep ==
  ASSUME ~Diagonal, Tidy(placed), NEW i \in DOMAIN placed, Placed!Resize(i)
  PROVE  Tidy(placed') /\ Placed!SlideStep
<1>1. PICK size \in Placed!Grown(placed[i]) :
        placed' = [placed EXCEPT ![i] =
                     Placed!ResolveResize(placed[i], size[1], size[2], Placed!Others(i))]
  BY DEF Placed!Resize, Placed!Drag
<1>. DEFINE r == Placed!ResolveResize(placed[i], size[1], size[2], Placed!Others(i))
<1>2. /\ Good(r) /\ r.fx = placed[i].fx /\ r.fy = placed[i].fy
      /\ \A o \in Placed!Others(i) : ~Placed!RectsOverlap(r, o)
  <2>. HIDE DEF r
  <2>. QED
    BY OthersAreClear, ResizeStops DEF r
<1>. HIDE DEF r
<1>3. /\ Tidy(placed') /\ DOMAIN placed' = DOMAIN placed /\ placed'[i] = r
      /\ \A j \in DOMAIN placed \ {i} : placed'[j] = placed[j]
  BY <1>1, <1>2, DragPlaces DEF r
<1>4. r \in Placed!Rect /\ placed[i] \in Placed!Rect
  BY <1>2, OthersAreClear DEF Good, OnCanvas
<1>5. r.fw = placed[i].fw /\ r.fh = placed[i].fh => r = placed[i]
  BY <1>2, <1>4 DEF Placed!Rect
<1>6. Placed!SlideStep
  BY <1>3, <1>5 DEF Placed!SlideStep
<1>. QED
  BY <1>3, <1>6

CanvasInv == scene = "canvas" => Tidy(placed) /\ Placed!SettingsFollow

LEMMA CanvasInvInit == Init => CanvasInv
<1>. SUFFICES ASSUME Init PROVE Tidy(placed) /\ Placed!SettingsFollow
  BY DEF CanvasInv
<1>1. settings = 0 /\ \E c \in Configs : placed = Placed!Placements(c)
  BY DEF Init, Placed!Init
<1>. QED
  BY <1>1, CanvasAssumption, PlacementsAreTidy DEF Placed!SettingsFollow

LEMMA CanvasStep ==
  ASSUME ~Diagonal, Tidy(placed), Placed!SettingsFollow, Halvable, scene = "canvas", Placed!Next
  PROVE  Tidy(placed') /\ Placed!SettingsFollow' /\ Placed!SlideStep
<1>1. CASE Placed!Reload
  <2>1. Placed!Placements(placed) = placed
    BY CanvasAssumption DEF Tidy, Good, OnCanvas, Placed!Placements
  <2>. QED
    BY <1>1, <2>1 DEF Placed!Reload, Placed!SettingsFollow, Placed!SlideStep
<1>2. CASE Placed!EnsureUndefinedPane
  <2>1. Good(Centre)
    BY CanvasAssumption, GoodIsInside
  <2>2. Tidy(<<Centre>>)
    BY <2>1 DEF Tidy, Good, OnCanvas, Placed!Apart
  <2>. QED
    BY <1>2, <2>2 DEF Placed!EnsureUndefinedPane, Placed!SettingsFollow, Placed!SlideStep
<1>3. ASSUME NEW i \in DOMAIN placed, Placed!Move(i)
      PROVE  Tidy(placed') /\ Placed!SettingsFollow' /\ Placed!SlideStep
  <2>1. Tidy(placed') /\ Placed!SlideStep
    BY <1>3, MoveStep
  <2>2. UNCHANGED <<settings, about>>
    BY <1>3 DEF Placed!Move, Placed!Drag
  <2>. QED
    BY <2>1, <2>2 DEF Placed!SettingsFollow
<1>4. ASSUME NEW i \in DOMAIN placed, Placed!Resize(i)
      PROVE  Tidy(placed') /\ Placed!SettingsFollow' /\ Placed!SlideStep
  BY <1>4, ResizeStep DEF Placed!Resize, Placed!Drag, Placed!SettingsFollow
<1>5. ASSUME NEW i \in DOMAIN placed, Placed!RemovePanel(i)
      PROVE  Tidy(placed') /\ Placed!SettingsFollow' /\ Placed!SlideStep
  BY <1>5, Removed DEF Placed!RemovePanel, Placed!SettingsFollow, Placed!SlideStep
<1>6. ASSUME NEW i \in DOMAIN placed, Placed!OpenSettings(i)
      PROVE  Tidy(placed') /\ Placed!SettingsFollow' /\ Placed!SlideStep
  BY <1>6 DEF Placed!OpenSettings, Placed!SettingsFollow, Placed!SlideStep
<1>7. CASE Placed!AddAt
  <2>1. PICK x, y \in 0..(Size - Slot) : placed' = Placed!Added(Placed!SlotAt(x, y))
    BY <1>7 DEF Placed!AddAt
  <2>2. CASE Placed!Crowded(Placed!SlotAt(x, y))
    BY <1>7, <2>1, <2>2, CarvedIsTidy
    DEF Placed!AddAt, Placed!Added, Placed!SettingsFollow, Placed!SlideStep
  <2>3. CASE ~Placed!Crowded(Placed!SlotAt(x, y))
    <3>1. Tidy(Append(placed, Placed!SlotAt(x, y)))
      BY <2>3, SlotIsGood, Appended DEF Placed!Crowded
    <3>. QED
      BY <1>7, <2>1, <2>3, <3>1
      DEF Placed!AddAt, Placed!Added, Placed!SettingsFollow, Placed!SlideStep
  <2>. QED
    BY <2>2, <2>3
<1>8. CASE Placed!AddPanel
  BY <1>8, CarvedIsTidy DEF Placed!AddPanel, Placed!SettingsFollow, Placed!SlideStep
<1>9. CASE Placed!CloseSettings
  BY <1>9 DEF Placed!CloseSettings, Placed!SettingsFollow, Placed!SlideStep
<1>. QED
  BY <1>1, <1>2, <1>3, <1>4, <1>5, <1>6, <1>7, <1>8, <1>9 DEF Placed!Next

LEMMA CanvasInvStep ==
  ASSUME ~Diagonal
  PROVE  CanvasInv /\ Halvable /\ [Next]_vars =>
           CanvasInv' /\ [scene = "canvas" => Placed!SlideStep]_vars
<1>. SUFFICES ASSUME CanvasInv, Halvable, [Next]_vars, scene = "canvas"
              PROVE  CanvasInv' /\ [Placed!SlideStep]_vars
  BY SceneStays DEF CanvasInv
<1>1. Tidy(placed) /\ Placed!SettingsFollow
  BY DEF CanvasInv
<1>2. CASE UNCHANGED vars
  BY <1>1, <1>2 DEF vars, canvas, CanvasInv, Tidy, Placed!SettingsFollow
<1>3. CASE Next
  BY <1>1, <1>3, CanvasStep DEF Next, CanvasInv
<1>. QED
  BY <1>2, <1>3

(* Panels that are dragged along one axis at a time, added, halved, removed *)
(* and loaded again stay on the canvas, large enough to be grabbed and      *)
(* apart, and the settings window stays with its panel: on any canvas, for  *)
(* any number of panels and drags, as long as a panel that has to be halved *)
(* is large enough for two. *)
THEOREM PanelsStayApart ==
  ASSUME ~Diagonal
  PROVE  FairSpec /\ []Halvable => []PanelsPlaced
<1>1. CanvasInv => PanelsPlaced
  <2>. SUFFICES ASSUME Tidy(placed), Placed!SettingsFollow PROVE Placed!WellPlaced
    BY DEF CanvasInv, PanelsPlaced
  <2>1. \A i \in DOMAIN placed : placed[i] \in Placed!Rect /\ Good(placed[i])
    BY DEF Tidy, Good, OnCanvas
  <2>. QED
    BY <2>1, GoodIsInside DEF Tidy, Placed!WellPlaced
<1>2. CanvasInv /\ Halvable /\ [Next]_vars => CanvasInv'
  BY CanvasInvStep
<1>. QED
  BY <1>1, <1>2, CanvasInvInit, FairIsSafe, PTL DEF SafeSpec

(* And a panel that is moved slides through free space: it stops at the     *)
(* first it meets, however far the pointer went in a frame. *)
THEOREM MovesStopAtContact ==
  ASSUME ~Diagonal
  PROVE  FairSpec /\ []Halvable => BlockedAtContact
<1>1. CanvasInv /\ Halvable /\ [Next]_vars => CanvasInv'
  BY CanvasInvStep
<1>2. CanvasInv /\ Halvable /\ [Next]_vars => [scene = "canvas" => Placed!SlideStep]_vars
  BY CanvasInvStep
<1>. QED
  BY <1>1, <1>2, CanvasInvInit, FairIsSafe, PTL DEF SafeSpec, BlockedAtContact
-----------------------------------------------------------------------------
(* The script editor. *)

Command == [id : Ids, inst : Listings]

(* The engine has what the list says, or has a command for it under way,    *)
(* and every row is one the editor can show. *)
EditorInv ==
  scene = "scripts" =>
    /\ instances \in [Ids -> Listings] /\ engine \in [Ids -> Listings]
    /\ staged \in [Ids -> {None} \cup Editor!Rows]
    /\ metas \in BOOLEAN
    /\ sent \in Seq(Command)
    /\ Editor!EngineFollows

LEMMA RowsAreListings == Editor!Rows \subseteq Listings
BY DEF Editor!Rows, Listings

LEMMA RowsMade ==
  ASSUME NEW inst \in Listings, inst # None, metas \in BOOLEAN
  PROVE  Editor!staged_from_instance(inst) \in Editor!Rows
<1>1. inst.inputs \in {None} \cup Editor!Inputs /\ inst.outputs \in {None} \cup Editor!Outputs
      /\ inst.enabled \in BOOLEAN
  BY DEF Listings
<1>. QED
  BY <1>1 DEF Editor!staged_from_instance, Editor!Shown, Editor!Rows, Editor!Inputs, Editor!Outputs

LEMMA RowsFilled ==
  ASSUME NEW inst \in Listings, inst # None, NEW row \in Editor!Rows, metas \in BOOLEAN
  PROVE  /\ Editor!Backfilled(inst, row) \in Editor!Rows
         /\ metas /\ inst.outputs = None => Editor!Backfilled(inst, row).outputs # "absent"
BY DEF Editor!Backfilled, Editor!Rows, Editor!Inputs, Editor!Outputs

LEMMA RowsEnsured ==
  ASSUME instances \in [Ids -> Listings], staged \in [Ids -> {None} \cup Editor!Rows],
         metas \in BOOLEAN, NEW i \in Ids
  PROVE  /\ Editor!Ensured[i] \in {None} \cup Editor!Rows
         /\ instances[i] # None =>
              /\ Editor!Ensured[i] \in Editor!Rows
              /\ metas /\ instances[i].outputs = None => Editor!Ensured[i].outputs # "absent"
<1>1. CASE instances[i] = None
  BY <1>1 DEF Editor!Ensured
<1>2. CASE instances[i] # None
  <2>. DEFINE row == IF staged[i] = None THEN Editor!staged_from_instance(instances[i]) ELSE staged[i]
  <2>1. Editor!Ensured[i] = Editor!Backfilled(instances[i], row)
    BY <1>2 DEF Editor!Ensured
  <2>2. instances[i] \in Listings
    OBVIOUS
  <2>3. row \in Editor!Rows
    BY <1>2, <2>2, RowsMade
  <2>. HIDE DEF row
  <2>. QED
    BY <1>2, <2>1, <2>2, <2>3, RowsFilled
<1>. QED
  BY <1>1, <1>2

LEMMA RowsDrawn ==
  ASSUME instances \in [Ids -> Listings], staged \in [Ids -> {None} \cup Editor!Rows],
         metas \in BOOLEAN
  PROVE  Editor!Drawn \in [Ids -> {None} \cup Editor!Rows] /\ Editor!DefaultsShown
<1>1. ASSUME NEW i \in Ids
      PROVE  /\ Editor!Drawn[i] \in {None} \cup Editor!Rows
             /\ instances[i] # None /\ metas /\ instances[i].outputs = None =>
                  Editor!Drawn[i].outputs # "absent"
  <2>1. /\ Editor!Ensured[i] \in {None} \cup Editor!Rows
        /\ instances[i] # None =>
             /\ Editor!Ensured[i] \in Editor!Rows
             /\ metas /\ instances[i].outputs = None => Editor!Ensured[i].outputs # "absent"
    BY RowsEnsured
  <2>2. CASE Editor!Drawn[i] = Editor!Ensured[i]
    BY <2>1, <2>2
  <2>3. CASE Editor!Drawn[i] # Editor!Ensured[i]
    <3>1. /\ Editor!Ensured[i] # None
          /\ Editor!Drawn[i] = [Editor!Ensured[i] EXCEPT !.inputs = "blank"]
      BY <2>3 DEF Editor!Drawn
    <3>2. Editor!Drawn[i] \in Editor!Rows /\ Editor!Drawn[i].outputs = Editor!Ensured[i].outputs
      BY <2>1, <3>1 DEF Editor!Rows, Editor!Inputs
    <3>. QED
      BY <2>1, <3>2
  <2>. QED
    BY <2>2, <2>3
<1>. QED
  BY <1>1 DEF Editor!Drawn, Editor!DefaultsShown

LEMMA EditorInvInit == Init => EditorInv
<1>. SUFFICES ASSUME Init, scene = "scripts" PROVE EditorInv
  BY DEF EditorInv
<1>1. Editor!Init
  BY DEF Init
<1>2. instances \in [Ids -> Listings] /\ engine = instances
  BY <1>1, EditorAssumption DEF Editor!Init
<1>3. sent \in Seq(Command) /\ DOMAIN sent = {}
  BY <1>1 DEF Editor!Init
<1>. QED
  BY <1>1, <1>2, <1>3 DEF EditorInv, Editor!Init, Editor!EngineFollows

(* What is told to the list is told to the engine. *)
LEMMA Telling ==
  ASSUME instances \in [Ids -> Listings], sent \in Seq(Command), Editor!EngineFollows,
         NEW cmd \in Command, Editor!apply_panel_command(cmd), engine' = engine
  PROVE  instances' \in [Ids -> Listings] /\ sent' \in Seq(Command) /\ Editor!EngineFollows'
<1>1. cmd.id \in Ids /\ cmd.inst \in Listings
  BY DEF Command
<1>2. /\ instances' = [instances EXCEPT ![cmd.id] = cmd.inst]
      /\ sent' = Append(sent, cmd)
  BY DEF Editor!apply_panel_command, Editor!Applied
<1>3. instances' \in [Ids -> Listings] /\ sent' \in Seq(Command)
  BY <1>1, <1>2
<1>4. /\ Len(sent) \in Nat /\ DOMAIN sent = 1 .. Len(sent)
      /\ DOMAIN sent' = 1 .. (Len(sent) + 1)
      /\ sent'[Len(sent) + 1] = cmd
      /\ \A k \in DOMAIN sent : sent'[k] = sent[k] /\ sent[k].id \in Ids
  <2>1. Len(sent) \in Nat /\ DOMAIN sent = 1 .. Len(sent)
    OBVIOUS
  <2>2. /\ Len(sent') = Len(sent) + 1 /\ DOMAIN sent' = 1 .. Len(sent')
        /\ sent'[Len(sent) + 1] = cmd
    BY <1>2, <2>1
  <2>3. \A k \in 1 .. Len(sent) : sent'[k] = sent[k] /\ sent[k] \in Command
    BY <1>2, <2>1
  <2>. QED
    BY <2>1, <2>2, <2>3 DEF Command
<1>5. ASSUME NEW k \in DOMAIN sent', \A m \in DOMAIN sent' : sent'[m].id = sent'[k].id => m <= k
      PROVE  sent'[k].inst = instances'[sent'[k].id]
  <2>1. CASE k = Len(sent) + 1
    BY <1>1, <1>2, <1>4, <2>1
  <2>2. CASE k \in DOMAIN sent
    <3>1. sent[k].id # cmd.id
      BY <1>4, <1>5, <2>2
    <3>2. Editor!Newest(k)
      BY <1>4, <1>5, <2>2 DEF Editor!Newest
    <3>3. sent[k].inst = instances[sent[k].id]
      BY <2>2, <3>2 DEF Editor!EngineFollows
    <3>. QED
      BY <1>2, <1>4, <2>2, <3>1, <3>3
  <2>. QED
    BY <1>4, <2>1, <2>2
<1>6. ASSUME NEW i \in Ids, \A k \in DOMAIN sent' : sent'[k].id # i
      PROVE  engine'[i] = instances'[i]
  <2>1. cmd.id # i /\ \A k \in DOMAIN sent : sent[k].id # i
    BY <1>4, <1>6
  <2>. QED
    BY <1>2, <2>1 DEF Editor!EngineFollows
<1>. QED
  BY <1>3, <1>5, <1>6 DEF Editor!EngineFollows, Editor!Newest

(* The engine takes the oldest command. *)
LEMMA Taking ==
  ASSUME instances \in [Ids -> Listings], engine \in [Ids -> Listings],
         sent \in Seq(Command), Editor!EngineFollows, Editor!Take
  PROVE  engine' \in [Ids -> Listings] /\ sent' \in Seq(Command) /\ Editor!EngineFollows'
<1>1. /\ Len(sent) \in Nat \ {0} /\ DOMAIN sent = 1 .. Len(sent) /\ sent' = Tail(sent)
      /\ engine' = [engine EXCEPT ![sent[1].id] = sent[1].inst] /\ instances' = instances
  <2>1. sent # <<>> /\ sent' = Tail(sent) /\ engine' = Editor!Applied(engine, Head(sent))
        /\ instances' = instances
    BY DEF Editor!Take
  <2>2. Len(sent) \in Nat \ {0} /\ DOMAIN sent = 1 .. Len(sent) /\ Head(sent) = sent[1]
    BY <2>1
  <2>. QED
    BY <2>1, <2>2 DEF Editor!Applied
<1>2. sent[1].id \in Ids /\ sent[1].inst \in Listings
  <2>1. sent[1] \in Command
    BY <1>1
  <2>. QED
    BY <2>1 DEF Command
<1>3. /\ sent' \in Seq(Command) /\ DOMAIN sent' = 1 .. (Len(sent) - 1)
      /\ \A k \in DOMAIN sent' : sent'[k] = sent[k + 1]
  <2>1. sent # <<>>
    BY <1>1
  <2>. QED
    BY <1>1, <2>1
<1>4. ASSUME NEW k \in DOMAIN sent', \A m \in DOMAIN sent' : sent'[m].id = sent'[k].id => m <= k
      PROVE  sent'[k].inst = instances'[sent'[k].id]
  <2>1. ASSUME NEW m \in DOMAIN sent, sent[m].id = sent[k + 1].id PROVE m <= k + 1
    <3>1. CASE m = 1
      BY <1>1, <1>3, <3>1
    <3>2. CASE m # 1
      <4>1. m - 1 \in DOMAIN sent' /\ sent'[m - 1] = sent[m]
        BY <1>1, <1>3, <3>2
      <4>2. m - 1 <= k
        BY <1>3, <1>4, <2>1, <4>1
      <4>. QED
        BY <1>1, <1>3, <4>2
    <3>. QED
      BY <3>1, <3>2
  <2>2. k + 1 \in DOMAIN sent
    BY <1>1, <1>3
  <2>3. Editor!Newest(k + 1)
    BY <2>1 DEF Editor!Newest
  <2>. QED
    BY <1>1, <1>3, <2>2, <2>3 DEF Editor!EngineFollows
<1>5. ASSUME NEW i \in Ids, \A k \in DOMAIN sent' : sent'[k].id # i
      PROVE  engine'[i] = instances'[i]
  <2>1. \A m \in DOMAIN sent : m # 1 => sent[m].id # i
    <3>. SUFFICES ASSUME NEW m \in DOMAIN sent, m # 1 PROVE sent[m].id # i
      OBVIOUS
    <3>1. m - 1 \in DOMAIN sent' /\ sent'[m - 1] = sent[m]
      BY <1>1, <1>3
    <3>. QED
      BY <1>5, <3>1
  <2>2. CASE sent[1].id = i
    <3>1. 1 \in DOMAIN sent /\ Editor!Newest(1)
      BY <1>1, <2>1, <2>2 DEF Editor!Newest
    <3>. QED
      BY <1>1, <2>2, <3>1 DEF Editor!EngineFollows
  <2>3. CASE sent[1].id # i
    <3>1. \A m \in DOMAIN sent : sent[m].id # i
      BY <2>1, <2>3
    <3>. QED
      BY <1>1, <1>2, <2>3, <3>1 DEF Editor!EngineFollows
  <2>. QED
    BY <2>2, <2>3
<1>6. engine' \in [Ids -> Listings]
  BY <1>1, <1>2
<1>. QED
  BY <1>3, <1>4, <1>5, <1>6 DEF Editor!EngineFollows, Editor!Newest

LEMMA EditorInvStep == EditorInv /\ [Next]_vars => EditorInv'
<1>. SUFFICES ASSUME EditorInv, [Next]_vars, scene = "scripts" PROVE EditorInv'
  BY SceneStays DEF EditorInv
<1>1. /\ instances \in [Ids -> Listings] /\ engine \in [Ids -> Listings]
      /\ staged \in [Ids -> {None} \cup Editor!Rows]
      /\ metas \in BOOLEAN
      /\ sent \in Seq(Command)
      /\ Editor!EngineFollows
  BY DEF EditorInv
<1>2. Editor!Drawn \in [Ids -> {None} \cup Editor!Rows]
  BY <1>1, RowsDrawn
<1>3. ASSUME NEW i \in Ids, Editor!Row(i) PROVE Editor!Drawn[i] \in Editor!Rows
  BY <1>2, <1>3 DEF Editor!Row
<1>4. ASSUME UNCHANGED <<instances, engine, sent>>, metas' \in BOOLEAN,
             staged' \in [Ids -> {None} \cup Editor!Rows]
      PROVE  EditorInv'
  BY <1>1, <1>4 DEF EditorInv, Editor!EngineFollows, Editor!Newest
<1>5. ASSUME NEW cmd \in Command, Editor!apply_panel_command(cmd), engine' = engine,
             metas' = metas, staged' \in [Ids -> {None} \cup Editor!Rows]
      PROVE  EditorInv'
  BY <1>1, <1>5, Telling DEF EditorInv
<1>6. CASE UNCHANGED vars
  BY <1>1, <1>4, <1>6 DEF vars, editor
<1>7. CASE Editor!Next
  <2>1. ASSUME NEW i, Editor!OpenEditor(i) PROVE EditorInv'
    BY <1>1, <1>4, <2>1 DEF Editor!OpenEditor
  <2>2. ASSUME NEW i \in Ids, NEW v \in Editor!Inputs, Editor!EditInput(i, v) PROVE EditorInv'
    <3>1. [Editor!Drawn[i] EXCEPT !.inputs = v] \in Editor!Rows
      BY <1>3, <2>2 DEF Editor!EditInput, Editor!Rows
    <3>2. staged' = [Editor!Drawn EXCEPT ![i] = [Editor!Drawn[i] EXCEPT !.inputs = v]]
      BY <1>2, <2>2 DEF Editor!EditInput
    <3>. QED
      BY <1>1, <1>2, <1>4, <2>2, <3>1, <3>2 DEF Editor!EditInput
  <2>3. ASSUME NEW i \in Ids, Editor!EditOutput(i) \/ Editor!SelectScript(i) PROVE EditorInv'
    <3>1. \A o \in Editor!Outputs : [Editor!Drawn[i] EXCEPT !.outputs = o] \in Editor!Rows
      BY <1>3, <2>3 DEF Editor!EditOutput, Editor!SelectScript, Editor!Rows
    <3>2. \E o \in Editor!Outputs :
            staged' = [Editor!Drawn EXCEPT ![i] = [Editor!Drawn[i] EXCEPT !.outputs = o]]
      BY <1>2, <2>3 DEF Editor!EditOutput, Editor!SelectScript, Editor!Outputs
    <3>. QED
      BY <1>1, <1>2, <1>4, <2>3, <3>1, <3>2 DEF Editor!EditOutput, Editor!SelectScript
  <2>4. ASSUME NEW i \in Ids, Editor!Toggle(i) PROVE EditorInv'
    <3>1. [Editor!Drawn[i] EXCEPT !.enabled = ~@] \in Editor!Rows
      BY <1>3, <2>4 DEF Editor!Toggle, Editor!Rows
    <3>2. staged' = [Editor!Drawn EXCEPT ![i] = [Editor!Drawn[i] EXCEPT !.enabled = ~@]]
      BY <1>2, <2>4 DEF Editor!Toggle
    <3>3. staged' \in [Ids -> {None} \cup Editor!Rows] /\ staged'[i] \in Editor!Rows
      BY <1>2, <3>1, <3>2
    <3>4. [id |-> i, inst |-> staged'[i]] \in Command
      BY <3>3, RowsAreListings DEF Command
    <3>. QED
      BY <1>5, <2>4, <3>3, <3>4 DEF Editor!Toggle
  <2>5. ASSUME NEW i \in Ids, Editor!Apply(i) PROVE EditorInv'
    <3>1. [id |-> i, inst |-> Editor!Drawn[i]] \in Command
      BY <1>3, <2>5, RowsAreListings DEF Editor!Apply, Command
    <3>. QED
      BY <1>2, <1>5, <2>5, <3>1 DEF Editor!Apply
  <2>6. ASSUME NEW i \in Ids, Editor!RemoveInstance(i) PROVE EditorInv'
    <3>1. [id |-> i, inst |-> None] \in Command
      BY DEF Command, Listings
    <3>2. staged' \in [Ids -> {None} \cup Editor!Rows]
      BY <1>2, <2>6 DEF Editor!RemoveInstance
    <3>. QED
      BY <1>5, <2>6, <3>1, <3>2 DEF Editor!RemoveInstance
  <2>7. ASSUME NEW i \in Ids, Editor!Add(i) PROVE EditorInv'
    <3>1. [inputs |-> "blank", outputs |-> "default", enabled |-> TRUE] \in Editor!Rows
      BY DEF Editor!Rows, Editor!Inputs, Editor!Outputs
    <3>. QED
      BY <1>1, <1>2, <1>4, <2>7, <3>1 DEF Editor!Add
  <2>8. CASE Editor!Peek
    BY <1>1, <1>4, <2>8 DEF Editor!Peek
  <2>9. CASE Editor!Take
    BY <1>1, <2>9, Taking DEF EditorInv, Editor!Take
  <2>. QED
    BY <1>7, <2>1, <2>2, <2>3, <2>4, <2>5, <2>6, <2>7, <2>8, <2>9 DEF Editor!Next
<1>. QED
  BY <1>6, <1>7 DEF Next

(* For any instances and any number of commands under way: what the engine  *)
(* runs, once it has taken them, is what the list that is saved says, and   *)
(* the editor shows the defaults an instance runs with. *)
THEOREM EditorTellsTheEngine ==
  FairSpec => [](scene = "scripts" => Editor!EngineFollows /\ Editor!DefaultsShown)
<1>1. EditorInv => (scene = "scripts" => Editor!EngineFollows /\ Editor!DefaultsShown)
  BY RowsDrawn DEF EditorInv
<1>. QED
  BY <1>1, EditorInvInit, EditorInvStep, FairIsSafe, PTL DEF SafeSpec

-----------------------------------------------------------------------------
(* The panels of a screen. *)

Bindings == [name : Names, bound : BOOLEAN, color : {"own", "auto", "picked"}]
Built ==
  [type : DOMAIN ArityOf \cup {"placeholder", "unknown"}, orig : Seq(Entries), setting : {0, 1},
   colors : SUBSET Names, hidden : SUBSET Names, chans : Seq(Bindings)]
Saveable == {e \in Entries : Proper(e)}

(* What a panel says of itself is what can be saved: an ErrorPanel is its   *)
(* entry; a line has a picked colour if and only if one is remembered, and  *)
(* what is bound to a configured name was found. *)
Refused(p) == \E e \in Entries : ~e.ok /\ p = Content!Build(e, Configured)
Binding(b, colors) ==
  /\ b.name \in Configured => b.bound
  /\ (b.color = "picked") <=> b.name \in colors
Lines(p) == {p.chans[k].name : k \in DOMAIN p.chans}
Coherent(p) ==
  /\ p.orig = <<>> /\ p.type # "unknown"
  /\ p.type \in DOMAIN ArityOf /\ ArityOf[p.type] = "pair" => p.chans # <<>>
  /\ \A k \in DOMAIN p.chans : Binding(p.chans[k], p.colors)
  /\ p.type \notin Recolors => p.colors = {}
  /\ p.type \in Recolors =>
       /\ p.colors \subseteq Lines(p)
       /\ \A j, k \in DOMAIN p.chans : p.chans[j].name = p.chans[k].name => j = k
Panes == {p \in Built : Refused(p) \/ Coherent(p)}

ScreenInv ==
  scene = "panels" =>
    /\ Configured \subseteq known /\ known \subseteq Configured \cup Dynamic
    /\ discovered \subseteq Dynamic /\ snapshot \subseteq Dynamic
    /\ file \in Seq(Saveable) /\ panels \in Seq(Panes)

LEMMA NamesFound ==
  ASSUME NEW reg, NEW n \in Names
  PROVE  /\ Content!bind(n, reg) \in Bindings
         /\ Content!bind(n, reg).name = n
         /\ Content!bind(n, reg).bound <=> n \in reg
         /\ Content!bind(n, reg).color # "picked"
<1>. DEFINE color == IF n \in reg \cap Coloured THEN "own" ELSE "auto"
            bound == n \in reg
<1>1. Content!bind(n, reg) = [name |-> n, bound |-> bound, color |-> color]
  BY DEF Content!bind
<1>2. bound \in BOOLEAN /\ color \in {"own", "auto"} /\ (bound <=> n \in reg)
  OBVIOUS
<1>. HIDE DEF bound, color
<1>. QED
  BY <1>1, <1>2 DEF Bindings

LEMMA LinesPainted ==
  ASSUME NEW b \in Bindings, b.color # "picked", NEW colors
  PROVE  /\ Content!Repainted(b, colors) \in Bindings
         /\ Content!Repainted(b, colors).name = b.name
         /\ Content!Repainted(b, colors).bound = b.bound
         /\ Content!Repainted(b, colors).color = "picked" <=> b.name \in colors
BY DEF Content!Repainted, Bindings

(* A channel of a panel that is built. *)
LEMMA ChannelsBuilt ==
  ASSUME NEW reg, NEW e \in Entries, e.ok
  PROVE  LET chans == Content!Build(e, reg).chans
         IN /\ chans \in Seq(Bindings) /\ Len(chans) = Len(e.names) /\ DOMAIN chans = DOMAIN e.names
            /\ \A k \in DOMAIN chans :
                 /\ chans[k].name = e.names[k] /\ (chans[k].bound <=> e.names[k] \in reg)
                 /\ chans[k].color = "picked" <=> e.names[k] \in e.colors
<1>. DEFINE chans == Content!Build(e, reg).chans
<1>1. e.names \in Seq(Names)
  BY DEF Entries
<1>2. Len(e.names) \in Nat /\ DOMAIN e.names = 1 .. Len(e.names)
      /\ \A k \in DOMAIN e.names : e.names[k] \in Names
  BY <1>1
<1>3. chans = [k \in DOMAIN e.names |-> Content!Repainted(Content!bind(e.names[k], reg), e.colors)]
  BY DEF Content!Build
<1>. HIDE DEF chans
<1>4. ASSUME NEW k \in DOMAIN e.names
      PROVE  /\ chans[k] \in Bindings
             /\ chans[k].name = e.names[k] /\ (chans[k].bound <=> e.names[k] \in reg)
             /\ chans[k].color = "picked" <=> e.names[k] \in e.colors
  <2>. DEFINE b == Content!bind(e.names[k], reg)
  <2>1. b \in Bindings /\ b.name = e.names[k] /\ (b.bound <=> e.names[k] \in reg) /\ b.color # "picked"
    BY <1>2, NamesFound
  <2>. HIDE DEF b
  <2>2. chans[k] = Content!Repainted(b, e.colors)
    BY <1>3 DEF b
  <2>. QED
    BY <2>1, <2>2, LinesPainted
<1>5. DOMAIN chans = 1 .. Len(e.names)
  BY <1>2, <1>3
<1>6. chans \in [1 .. Len(e.names) -> Bindings]
  BY <1>2, <1>3, <1>4
<1>7. chans \in Seq(Bindings) /\ Len(chans) = Len(e.names)
  BY <1>2, <1>6
<1>. QED
  BY <1>2, <1>4, <1>5, <1>7 DEF chans

LEMMA EntryParts ==
  ASSUME NEW e \in Entries
  PROVE  /\ e.type \in DOMAIN ArityOf \cup {"placeholder", "unknown"} /\ e.setting \in {0, 1}
         /\ e.colors \subseteq Names /\ e.names \in Seq(Names) /\ e.ok \in BOOLEAN
BY DEF Entries

LEMMA PanelsBuilt ==
  ASSUME NEW reg, Configured \subseteq reg, NEW e \in Saveable
  PROVE  Content!Build(e, reg) \in Panes
<1>. DEFINE p == Content!Build(e, reg)
<1>1. e \in Entries /\ Proper(e)
  BY DEF Saveable
<1>2. CASE ~e.ok
  <2>1. p = Content!Build(e, Configured)
    BY <1>2 DEF Content!Build
  <2>2. /\ p.type = e.type /\ p.orig = <<e>> /\ p.setting = e.setting
        /\ p.colors = e.colors /\ p.hidden = {} /\ p.chans = <<>>
        /\ p = [type |-> p.type, orig |-> p.orig, setting |-> p.setting,
                colors |-> p.colors, hidden |-> p.hidden, chans |-> p.chans]
    BY <1>2 DEF Content!Build
  <2>3. <<e>> \in Seq(Entries) /\ <<>> \in Seq(Bindings)
    BY <1>1
  <2>4. p \in Built
    BY <1>1, <2>2, <2>3, EntryParts DEF Built
  <2>. QED
    BY <1>1, <1>2, <2>1, <2>4 DEF Panes, Refused
<1>3. CASE e.ok
  <2>1. /\ p.type = e.type /\ p.orig = <<>> /\ p.setting = e.setting
        /\ p.colors = e.colors /\ p.hidden = {}
        /\ p = [type |-> p.type, orig |-> p.orig, setting |-> p.setting,
                colors |-> p.colors, hidden |-> p.hidden, chans |-> p.chans]
    BY <1>3 DEF Content!Build
  <2>2. /\ p.chans \in Seq(Bindings) /\ Len(p.chans) = Len(e.names)
        /\ DOMAIN p.chans = DOMAIN e.names
        /\ \A k \in DOMAIN p.chans :
             /\ p.chans[k].name = e.names[k] /\ (p.chans[k].bound <=> e.names[k] \in reg)
             /\ p.chans[k].color = "picked" <=> e.names[k] \in e.colors
    BY <1>1, <1>3, ChannelsBuilt
  <2>. HIDE DEF p
  <2>3. p \in Built
    <3>1. <<>> \in Seq(Entries)
      OBVIOUS
    <3>2. e.type \in DOMAIN ArityOf \cup {"placeholder", "unknown"} /\ e.setting \in {0, 1}
          /\ e.colors \subseteq Names
      BY <1>1, EntryParts
    <3>. QED
      BY <2>1, <2>2, <3>1, <3>2 DEF Built
  <2>4. \A k \in DOMAIN p.chans : Binding(p.chans[k], p.colors)
    BY <2>1, <2>2 DEF Binding
  <2>5. p.type \in DOMAIN ArityOf /\ ArityOf[p.type] = "pair" => p.chans # <<>>
    BY <1>1, <1>3, <2>1, <2>2, EntryParts DEF Proper
  <2>6. ASSUME p.type \in Recolors
        PROVE  /\ p.colors \subseteq Lines(p)
               /\ \A j, k \in DOMAIN p.chans : p.chans[j].name = p.chans[k].name => j = k
    BY <1>1, <1>3, <2>1, <2>2, <2>6 DEF Proper, Lines
  <2>7. Coherent(p)
    BY <1>1, <1>3, <2>1, <2>4, <2>5, <2>6 DEF Proper, Coherent
  <2>. QED
    BY <2>3, <2>7 DEF Panes, p
<1>4. e.ok \in BOOLEAN
  BY <1>1, EntryParts
<1>. QED
  BY <1>2, <1>3, <1>4

LEMMA PanelParts ==
  ASSUME NEW p \in Built
  PROVE  /\ p.type \in DOMAIN ArityOf \cup {"placeholder", "unknown"} /\ p.setting \in {0, 1}
         /\ p.colors \subseteq Names /\ p.hidden \subseteq Names
         /\ p.orig \in Seq(Entries) /\ p.chans \in Seq(Bindings)
         /\ Len(p.chans) \in Nat /\ DOMAIN p.chans = 1 .. Len(p.chans)
         /\ \A k \in DOMAIN p.chans : p.chans[k] \in Bindings /\ p.chans[k].name \in Names
<1>1. p.chans \in Seq(Bindings)
  BY DEF Built
<1>2. Len(p.chans) \in Nat /\ DOMAIN p.chans = 1 .. Len(p.chans)
      /\ \A k \in DOMAIN p.chans : p.chans[k] \in Bindings
  BY <1>1
<1>. QED
  BY <1>1, <1>2 DEF Built, Bindings

LEMMA PanelsSaved == ASSUME NEW p \in Panes PROVE Content!Serialize(p) \in Saveable
<1>1. p \in Built
  BY DEF Panes
<1>2. CASE Refused(p)
  <2>1. PICK e \in Entries : ~e.ok /\ p = Content!Build(e, Configured)
    BY <1>2 DEF Refused
  <2>2. p.orig = <<e>>
    BY <2>1 DEF Content!Build
  <2>3. p.orig # <<>> /\ p.orig[1] = e
    BY <2>2
  <2>. QED
    BY <2>1, <2>3 DEF Content!Serialize, Content!Broken, Saveable, Proper
<1>3. CASE Coherent(p)
  <2>. DEFINE names == [k \in DOMAIN p.chans |-> p.chans[k].name]
              e == Content!Serialize(p)
  <2>1. e = [type |-> p.type, names |-> names, colors |-> p.colors, setting |-> p.setting, ok |-> TRUE]
    BY <1>3 DEF Coherent, Content!Serialize, Content!Broken
  <2>2. Len(p.chans) \in Nat /\ names \in [1 .. Len(p.chans) -> Names]
    BY <1>1, PanelParts
  <2>3. names \in Seq(Names) /\ Len(names) = Len(p.chans) /\ DOMAIN names = DOMAIN p.chans
        /\ \A k \in DOMAIN names : names[k] = p.chans[k].name
    BY <1>1, <2>2, PanelParts
  <2>4. p.chans # <<>> => names # <<>>
    BY <2>3
  <2>. HIDE DEF names
  <2>5. e \in Entries
    BY <1>1, <2>1, <2>3, PanelParts DEF Entries
  <2>6. {names[k] : k \in DOMAIN names} = Lines(p)
    BY <2>3 DEF Lines
  <2>7. Proper(e)
    BY <1>3, <2>1, <2>3, <2>4, <2>6 DEF Proper, Coherent
  <2>. QED
    BY <2>5, <2>7 DEF Saveable
<1>. QED
  BY <1>2, <1>3 DEF Panes

(* What would be loaded is what is there. *)
LEMMA PanelsReadBack ==
  ASSUME NEW reg, NEW p \in Panes
  PROVE  LET q == Content!Build(Content!Serialize(p), reg)
         IN /\ q.type = p.type /\ q.setting = p.setting /\ Content!Serialize(q) = Content!Serialize(p)
            /\ \A k \in DOMAIN p.chans :
                 (p.chans[k].color = "picked") = (q.chans[k].color = "picked")
<1>. DEFINE e == Content!Serialize(p)
            q == Content!Build(e, reg)
<1>1. p \in Built /\ e \in Entries
  BY PanelsSaved DEF Panes, Saveable
<1>2. CASE Refused(p)
  <2>1. PICK f \in Entries : ~f.ok /\ p = Content!Build(f, Configured)
    BY <1>2 DEF Refused
  <2>2. p.orig = <<f>> /\ p.type = f.type /\ p.setting = f.setting /\ p.chans = <<>>
    BY <2>1 DEF Content!Build
  <2>3. p.orig # <<>> /\ p.orig[1] = f
    BY <2>2
  <2>4. e = f
    BY <2>3 DEF Content!Serialize, Content!Broken
  <2>5. q = p
    BY <2>1, <2>4 DEF Content!Build
  <2>. HIDE DEF q, e
  <2>. QED
    BY <2>5 DEF q, e
<1>3. CASE Coherent(p)
  <2>. DEFINE names == [k \in DOMAIN p.chans |-> p.chans[k].name]
  <2>1. e = [type |-> p.type, names |-> names, colors |-> p.colors, setting |-> p.setting, ok |-> TRUE]
    BY <1>3 DEF Coherent, Content!Serialize, Content!Broken
  <2>2. e.ok /\ e.names = names /\ e.colors = p.colors /\ e.type = p.type /\ e.setting = p.setting
    BY <2>1
  <2>3. /\ DOMAIN q.chans = DOMAIN p.chans
        /\ \A k \in DOMAIN p.chans :
             /\ q.chans[k].name = p.chans[k].name
             /\ q.chans[k].color = "picked" <=> p.chans[k].name \in p.colors
    <3>. HIDE DEF e
    <3>1. /\ DOMAIN q.chans = DOMAIN e.names
          /\ \A k \in DOMAIN q.chans :
               /\ q.chans[k].name = e.names[k]
               /\ q.chans[k].color = "picked" <=> e.names[k] \in e.colors
      BY <1>1, <2>2, ChannelsBuilt
    <3>. QED
      BY <2>2, <3>1
  <2>4. q.type = p.type /\ q.setting = p.setting /\ q.colors = p.colors /\ q.orig = <<>>
    BY <2>2 DEF Content!Build
  <2>5. Content!Serialize(q) = [type |-> q.type, names |-> [k \in DOMAIN q.chans |-> q.chans[k].name],
                                colors |-> q.colors, setting |-> q.setting, ok |-> TRUE]
    BY <2>4 DEF Content!Serialize, Content!Broken
  <2>6. \A k \in DOMAIN p.chans : (p.chans[k].color = "picked") <=> p.chans[k].name \in p.colors
    BY <1>3 DEF Coherent, Binding
  <2>. HIDE DEF q, e
  <2>7. [k \in DOMAIN q.chans |-> q.chans[k].name] = names
    BY <2>3
  <2>8. Content!Serialize(q) = e
    BY <2>1, <2>4, <2>5, <2>7
  <2>9. \A k \in DOMAIN p.chans : (p.chans[k].color = "picked") = (q.chans[k].color = "picked")
    BY <2>3, <2>6
  <2>. QED
    BY <2>4, <2>8, <2>9 DEF q, e
<1>. QED
  BY <1>2, <1>3 DEF Panes

(* A panel with other channels, or other colours for them. *)
LEMMA Refilled ==
  ASSUME NEW p \in Panes, Coherent(p), NEW q,
         q = [type |-> p.type, orig |-> p.orig, setting |-> q.setting, colors |-> q.colors,
              hidden |-> q.hidden, chans |-> q.chans],
         q.setting \in {0, 1}, q.colors \subseteq Names, q.hidden \subseteq Names,
         q.chans \in Seq(Bindings),
         p.type \in DOMAIN ArityOf /\ ArityOf[p.type] = "pair" => q.chans # <<>>,
         \A k \in DOMAIN q.chans : Binding(q.chans[k], q.colors),
         p.type \notin Recolors => q.colors = {},
         p.type \in Recolors =>
           /\ q.colors \subseteq Lines(q)
           /\ \A j, k \in DOMAIN q.chans : q.chans[j].name = q.chans[k].name => j = k
  PROVE  q \in Panes
<1>1. q.type = p.type /\ q.orig = p.orig
  OBVIOUS
<1>2. p \in Built
  BY DEF Panes
<1>3. q \in Built
  BY <1>2, PanelParts DEF Built
<1>4. Coherent(q)
  BY <1>1 DEF Coherent
<1>. QED
  BY <1>3, <1>4 DEF Panes

LEMMA ChannelsDropped ==
  ASSUME NEW p \in Panes, NEW n \in Configured \cup Dynamic, NEW reg, n \in reg
  PROVE  Content!drop_channel(p, n, reg) \in Panes
<1>. DEFINE b == Content!bind(n, reg)
            q == Content!drop_channel(p, n, reg)
<1>1. p \in Built
  BY DEF Panes
<1>2. b \in Bindings /\ b.name = n /\ b.bound /\ b.color # "picked" /\ n \in Names
  BY NamesFound DEF Names
<1>3. CASE Content!Broken(p) \/ p.type = "placeholder"
  BY <1>3 DEF Content!drop_channel
<1>4. CASE ~Content!Broken(p) /\ p.type # "placeholder"
  <2>1. Coherent(p)
    <3>1. ASSUME Refused(p) PROVE p.orig # <<>>
      BY <3>1 DEF Refused, Content!Build
    <3>. QED
      BY <1>4, <3>1 DEF Panes, Content!Broken
  <2>2. p.type \in DOMAIN ArityOf /\ ArityOf[p.type] \in {"many", "one", "pair"}
    BY <1>1, <1>4, <2>1, PanelParts, ScreensAssumption DEF Coherent
  <2>3. /\ p.type \notin Recolors => p.colors = {}
        /\ p.type \in Recolors => ArityOf[p.type] = "many"
        /\ \A k \in DOMAIN p.chans : Binding(p.chans[k], p.colors)
    BY <2>1, ScreensAssumption DEF Coherent
  <2>4. CASE ArityOf[p.type] = "many"
    <3>1. q = Content!drop_on_many(p, n, reg)
      BY <1>4, <2>4 DEF Content!drop_channel
    <3>2. CASE \E k \in DOMAIN p.chans : p.chans[k].name = n
      BY <3>1, <3>2 DEF Content!drop_on_many
    <3>3. CASE ~\E k \in DOMAIN p.chans : p.chans[k].name = n
      <4>1. q = [p EXCEPT !.chans = Append(p.chans, b)]
        BY <3>1, <3>3 DEF Content!drop_on_many
      <4>2. /\ q = [type |-> p.type, orig |-> p.orig, setting |-> q.setting, colors |-> q.colors,
                    hidden |-> q.hidden, chans |-> q.chans]
            /\ q.setting = p.setting /\ q.colors = p.colors /\ q.hidden = p.hidden
            /\ q.chans = Append(p.chans, b)
        BY <1>1, <4>1 DEF Built
      <4>. HIDE DEF q, b
      <4>3. /\ q.chans \in Seq(Bindings) /\ q.chans # <<>>
            /\ DOMAIN q.chans = 1 .. (Len(p.chans) + 1) /\ q.chans[Len(p.chans) + 1] = b
            /\ \A k \in DOMAIN p.chans : q.chans[k] = p.chans[k]
        <5>. DEFINE s == p.chans
        <5>1. s \in Seq(Bindings) /\ Len(s) \in Nat /\ DOMAIN s = 1 .. Len(s)
          BY <1>1, PanelParts
        <5>. HIDE DEF s
        <5>2. /\ Append(s, b) \in Seq(Bindings) /\ Len(Append(s, b)) = Len(s) + 1
              /\ Append(s, b) # <<>> /\ Append(s, b)[Len(s) + 1] = b
              /\ \A k \in 1 .. Len(s) : Append(s, b)[k] = s[k]
          BY <1>2, <5>1
        <5>3. DOMAIN Append(s, b) = 1 .. (Len(s) + 1)
          BY <5>1
        <5>. QED
          BY <4>2, <5>1, <5>2, <5>3 DEF s
      <4>4. p.colors \subseteq Names /\ Len(p.chans) \in Nat /\ DOMAIN p.chans = 1 .. Len(p.chans)
        BY <1>1, PanelParts
      <4>5. n \notin p.colors
        BY <2>1, <3>3 DEF Coherent, Lines
      <4>6. \A k \in DOMAIN q.chans : Binding(q.chans[k], q.colors)
        BY <1>2, <2>3, <4>2, <4>3, <4>4, <4>5 DEF Binding
      <4>7. ASSUME p.type \in Recolors
            PROVE  /\ q.colors \subseteq Lines(q)
                   /\ \A j, k \in DOMAIN q.chans : q.chans[j].name = q.chans[k].name => j = k
        <5>1. p.colors \subseteq Lines(p)
              /\ \A j, k \in DOMAIN p.chans : p.chans[j].name = p.chans[k].name => j = k
          BY <2>1, <4>7 DEF Coherent
        <5>2. Lines(p) \subseteq Lines(q)
          <6>1. \A k \in DOMAIN p.chans : k \in DOMAIN q.chans /\ q.chans[k].name = p.chans[k].name
            BY <4>3, <4>4
          <6>. QED
            BY <6>1 DEF Lines
        <5>3. \A k \in DOMAIN q.chans : k \in DOMAIN p.chans \/ k = Len(p.chans) + 1
          BY <4>3, <4>4
        <5>. QED
          BY <1>2, <3>3, <4>2, <4>3, <5>1, <5>2, <5>3
      <4>8. q \in Panes
        BY <1>1, <2>1, <2>3, <4>2, <4>3, <4>6, <4>7, PanelParts, Refilled
      <4>. QED
        BY <4>8 DEF q
    <3>. QED
      BY <3>2, <3>3
  <2>5. CASE ArityOf[p.type] # "many"
    <3>. DEFINE taken == IF ArityOf[p.type] = "one" THEN <<b>> ELSE <<b, p.chans[1]>>
    <3>1. q = [p EXCEPT !.chans = taken]
      BY <1>4, <2>2, <2>5 DEF Content!drop_channel, Content!drop_on_one, Content!drop_on_pair
    <3>2. /\ q = [type |-> p.type, orig |-> p.orig, setting |-> q.setting, colors |-> q.colors,
                  hidden |-> q.hidden, chans |-> q.chans]
          /\ q.setting = p.setting /\ q.colors = p.colors /\ q.hidden = p.hidden
          /\ q.chans = taken
      BY <1>1, <3>1 DEF Built
    <3>3. p.type \notin Recolors /\ p.colors = {}
      BY <2>3, <2>5
    <3>4. ArityOf[p.type] = "pair" => 1 \in DOMAIN p.chans
      <4>1. ArityOf[p.type] = "pair" => p.chans # <<>>
        BY <2>1, <2>2 DEF Coherent
      <4>2. p.chans \in Seq(Bindings)
        BY <1>1, PanelParts
      <4>. QED
        BY <4>1, <4>2
    <3>5. /\ taken \in Seq(Bindings) /\ taken # <<>>
          /\ \A k \in DOMAIN taken : taken[k] = b \/ (1 \in DOMAIN p.chans /\ taken[k] = p.chans[1])
      <4>1. CASE ArityOf[p.type] = "one"
        BY <1>2, <4>1
      <4>2. CASE ArityOf[p.type] = "pair"
        <5>1. p.chans[1] \in Bindings /\ 1 \in DOMAIN p.chans
          BY <1>1, <3>4, <4>2, PanelParts
        <5>2. taken = <<b, p.chans[1]>>
          BY <4>2
        <5>. HIDE DEF taken, b
        <5>. QED
          BY <1>2, <5>1, <5>2
      <4>. QED
        BY <2>2, <2>5, <4>1, <4>2
    <3>. HIDE DEF taken, q, b
    <3>6. \A k \in DOMAIN q.chans : Binding(q.chans[k], q.colors)
      BY <1>2, <2>3, <3>2, <3>3, <3>5 DEF Binding
    <3>7. q \in Panes
      BY <1>1, <2>1, <3>2, <3>3, <3>5, <3>6, PanelParts, Refilled
    <3>. QED
      BY <3>7 DEF q
  <2>. QED
    BY <2>4, <2>5
<1>. QED
  BY <1>3, <1>4

LEMMA Resolved ==
  ASSUME NEW raw, NEW seen, seen \subseteq Configured \cup Dynamic
  PROVE  Content!Resolve(raw, seen) \subseteq Configured \cup Dynamic
BY ScreensAssumption DEF Content!Resolve

LEMMA NamesDropped ==
  ASSUME NEW p \in Panes, NEW raw, NEW seen, seen \subseteq Configured \cup Dynamic,
         NEW reg, Content!Resolve(raw, seen) \subseteq reg
  PROVE  Content!drop_raw(p, raw, seen, reg) \in Panes
<1>1. CASE Content!Resolve(raw, seen) = {}
  BY <1>1 DEF Content!drop_raw
<1>2. CASE Content!Resolve(raw, seen) # {}
  <2>. DEFINE n == CHOOSE n \in Content!Resolve(raw, seen) : TRUE
  <2>1. n \in Content!Resolve(raw, seen)
    BY <1>2
  <2>. HIDE DEF n
  <2>2. Content!drop_channel(p, n, reg) \in Panes
    BY <2>1, Resolved, ChannelsDropped
  <2>. QED
    BY <1>2, <2>2 DEF Content!drop_raw, n
<1>. QED
  BY <1>1, <1>2

(* A binding that is looked up again keeps its name. *)
LEMMA LookedUpAgain ==
  ASSUME NEW b \in Bindings, b.name \in Configured => b.bound,
         NEW reg, reg \subseteq Configured \cup Dynamic
  PROVE  LET c == Content!refresh_binding(b, reg)
         IN /\ c \in Bindings /\ c.name = b.name /\ (b.bound => c.bound)
            /\ c = b \/ (~b.bound /\ c.bound /\ c.color # "picked")
<1>. DEFINE c == Content!refresh_binding(b, reg)
<1>1. b.name \in Names
  BY DEF Bindings
<1>2. CASE b.bound \/ b.name = None \/ Content!Resolve(b.name, reg) = {}
  BY <1>2 DEF Content!refresh_binding
<1>3. CASE ~(b.bound \/ b.name = None \/ Content!Resolve(b.name, reg) = {})
  <2>1. b.name \notin DOMAIN ChannelOf
    BY <1>1, <1>3, ScreensAssumption DEF Names
  <2>2. Content!Resolve(b.name, reg) = {b.name} /\ b.name \in reg
    BY <1>3, <2>1 DEF Content!Resolve
  <2>3. c = Content!bind(b.name, reg)
    BY <1>3, <2>2 DEF Content!refresh_binding
  <2>. HIDE DEF c
  <2>4. c \in Bindings /\ c.name = b.name /\ c.bound /\ c.color # "picked"
    BY <1>1, <2>2, <2>3, NamesFound
  <2>. QED
    BY <1>3, <2>4 DEF c
<1>. QED
  BY <1>2, <1>3

LEMMA PanelsRebound ==
  ASSUME NEW p \in Panes, NEW reg, reg \subseteq Configured \cup Dynamic
  PROVE  Content!Rebound(p, reg) \in Panes
<1>. DEFINE q == Content!Rebound(p, reg)
            looked == [k \in DOMAIN p.chans |-> Content!refresh_binding(p.chans[k], reg)]
            line(k) == IF p.type \in Recolors /\ looked[k].bound /\ ~p.chans[k].bound
                       THEN Content!Repainted(looked[k], p.colors) ELSE looked[k]
            lines == [k \in DOMAIN p.chans |-> line(k)]
<1>1. p \in Built
  BY DEF Panes
<1>2. q = [p EXCEPT !.chans = lines]
  BY <1>1 DEF Content!Rebound, Content!refresh_bindings, Built
<1>3. CASE Refused(p)
  <2>1. p.chans = <<>>
    BY <1>3 DEF Refused, Content!Build
  <2>2. lines = p.chans
    BY <2>1
  <2>3. q = p
    BY <1>1, <1>2, <2>2 DEF Built
  <2>. QED
    BY <2>3
<1>4. CASE Coherent(p)
  <2>1. /\ p.type \notin Recolors => p.colors = {}
        /\ \A k \in DOMAIN p.chans : Binding(p.chans[k], p.colors)
    BY <1>4 DEF Coherent
  <2>2. ASSUME NEW k \in DOMAIN p.chans
        PROVE  lines[k] \in Bindings /\ lines[k].name = p.chans[k].name /\ Binding(lines[k], p.colors)
    <3>1. p.chans[k] \in Bindings /\ Binding(p.chans[k], p.colors)
      BY <1>1, <2>1, PanelParts
    <3>2. /\ looked[k] \in Bindings /\ looked[k].name = p.chans[k].name
          /\ p.chans[k].bound => looked[k].bound
          /\ looked[k] = p.chans[k]
             \/ (~p.chans[k].bound /\ looked[k].bound /\ looked[k].color # "picked")
      BY <3>1, LookedUpAgain DEF Binding
    <3>3. lines[k] = line(k)
      OBVIOUS
    <3>. HIDE DEF lines, looked
    <3>4. CASE p.type \in Recolors /\ looked[k].bound /\ ~p.chans[k].bound
      <4>1. lines[k] = Content!Repainted(looked[k], p.colors)
        BY <3>3, <3>4
      <4>2. CASE looked[k] = p.chans[k]
        BY <3>4, <4>2
      <4>3. CASE looked[k].color # "picked"
        BY <3>1, <3>2, <3>4, <4>1, <4>3, LinesPainted DEF Binding
      <4>. QED
        BY <3>2, <4>2, <4>3
    <3>5. CASE ~(p.type \in Recolors /\ looked[k].bound /\ ~p.chans[k].bound)
      <4>1. lines[k] = looked[k]
        BY <3>3, <3>5
      <4>. QED
        BY <2>1, <3>1, <3>2, <3>5, <4>1 DEF Binding
    <3>. QED
      BY <3>4, <3>5
  <2>3. Len(p.chans) \in Nat /\ DOMAIN p.chans = 1 .. Len(p.chans)
    BY <1>1, PanelParts
  <2>4. lines \in Seq(Bindings) /\ DOMAIN lines = DOMAIN p.chans
    <3>1. DOMAIN lines = DOMAIN p.chans /\ lines \in [1 .. Len(p.chans) -> Bindings]
      BY <2>2, <2>3
    <3>. HIDE DEF lines
    <3>. QED
      BY <2>3, <3>1
  <2>. HIDE DEF lines
  <2>5. /\ q = [type |-> p.type, orig |-> p.orig, setting |-> q.setting, colors |-> q.colors,
                hidden |-> q.hidden, chans |-> q.chans]
        /\ q.setting = p.setting /\ q.colors = p.colors /\ q.hidden = p.hidden
        /\ q.chans = lines
    BY <1>1, <1>2 DEF Built
  <2>. HIDE DEF q
  <2>6. p.chans # <<>> => lines # <<>>
    <3>1. p.chans # <<>> => 1 \in DOMAIN p.chans
      BY <1>1, PanelParts
    <3>2. lines = <<>> => DOMAIN lines = {}
      OBVIOUS
    <3>. QED
      BY <2>4, <3>1, <3>2
  <2>7. p.type \in DOMAIN ArityOf /\ ArityOf[p.type] = "pair" => q.chans # <<>>
    BY <1>4, <2>5, <2>6 DEF Coherent
  <2>8. Lines(q) = Lines(p)
    BY <2>2, <2>4, <2>5 DEF Lines
  <2>9. p.type \in Recolors =>
          /\ q.colors \subseteq Lines(q)
          /\ \A j, k \in DOMAIN q.chans : q.chans[j].name = q.chans[k].name => j = k
    BY <1>4, <2>2, <2>4, <2>5, <2>8 DEF Coherent
  <2>10. \A k \in DOMAIN q.chans : Binding(q.chans[k], q.colors)
    BY <2>2, <2>4, <2>5
  <2>11. q \in Panes
    BY <1>1, <1>4, <2>1, <2>4, <2>5, <2>7, <2>9, <2>10, PanelParts, Refilled
  <2>. QED
    BY <2>11 DEF q
<1>. QED
  BY <1>3, <1>4 DEF Panes

LEMMA ColorPicked ==
  ASSUME NEW p \in Panes, NEW k \in DOMAIN p.chans
  PROVE  /\ p.type \in Recolors =>
              [p EXCEPT !.chans[k].color = "picked", !.colors = @ \cup {p.chans[k].name}] \in Panes
         /\ p.type \in Recolors =>
              [p EXCEPT !.chans[k].color = "auto", !.colors = @ \ {p.chans[k].name}] \in Panes
         /\ [p EXCEPT !.hidden = Content!SymDiff(@, {p.chans[k].name})] \in Panes
<1>1. p \in Built
  BY DEF Panes
<1>2. Coherent(p)
  <2>1. ASSUME Refused(p) PROVE p.chans = <<>>
    BY <2>1 DEF Refused, Content!Build
  <2>. QED
    BY <2>1 DEF Panes
<1>3. /\ p.chans[k] \in Bindings /\ p.chans[k].name \in Names
      /\ p.colors \subseteq Names /\ p.hidden \subseteq Names /\ p.setting \in {0, 1}
      /\ p.chans \in Seq(Bindings) /\ Len(p.chans) \in Nat /\ DOMAIN p.chans = 1 .. Len(p.chans)
  BY <1>1, PanelParts
<1>4. ASSUME p.type \in Recolors, NEW color \in {"auto", "picked"}, NEW colors \in SUBSET Names,
             colors \subseteq Lines(p),
             color = "picked" <=> p.chans[k].name \in colors,
             \A n \in Names \ {p.chans[k].name} : n \in colors <=> n \in p.colors
      PROVE  [p EXCEPT !.chans[k].color = color, !.colors = colors] \in Panes
  <2>. DEFINE c == [p.chans[k] EXCEPT !.color = color]
              chans == [p.chans EXCEPT ![k] = c]
              q == [p EXCEPT !.chans[k].color = color, !.colors = colors]
  <2>1. c \in Bindings /\ c.name = p.chans[k].name /\ c.bound = p.chans[k].bound /\ c.color = color
    BY <1>3 DEF Bindings
  <2>2. /\ q = [type |-> p.type, orig |-> p.orig, setting |-> q.setting, colors |-> q.colors,
                hidden |-> q.hidden, chans |-> q.chans]
        /\ q.setting = p.setting /\ q.colors = colors /\ q.hidden = p.hidden /\ q.chans = chans
    <3>1. q = [p EXCEPT !.chans = chans, !.colors = colors]
      BY <1>1, <1>3 DEF Built, Bindings
    <3>. HIDE DEF q, chans
    <3>. QED
      BY <1>1, <3>1 DEF Built
  <2>. HIDE DEF q, c
  <2>3. chans \in Seq(Bindings) /\ DOMAIN chans = DOMAIN p.chans /\ chans[k] = c
        /\ \A j \in DOMAIN chans : j # k => chans[j] = p.chans[j]
    BY <1>3, <2>1
  <2>. HIDE DEF chans
  <2>4. /\ \A j \in DOMAIN p.chans : chans[j].name = p.chans[j].name
        /\ \A i, j \in DOMAIN p.chans : p.chans[i].name = p.chans[j].name => i = j
        /\ \A j \in DOMAIN p.chans : Binding(p.chans[j], p.colors) /\ p.chans[j].name \in Names
    BY <1>1, <1>2, <1>4, <2>1, <2>3, PanelParts DEF Coherent
  <2>5. Lines(q) = Lines(p)
    BY <2>2, <2>3, <2>4 DEF Lines
  <2>6. ASSUME NEW j \in DOMAIN chans PROVE Binding(chans[j], colors)
    <3>1. CASE j = k
      BY <1>4, <2>1, <2>3, <2>4, <3>1 DEF Binding
    <3>2. CASE j # k
      <4>1. p.chans[j].name \in Names \ {p.chans[k].name}
        BY <2>3, <2>4, <3>2
      <4>. QED
        BY <1>4, <2>3, <2>4, <3>2, <4>1 DEF Binding
    <3>. QED
      BY <3>1, <3>2
  <2>7. ArityOf[p.type] = "many"
    BY <1>4, ScreensAssumption
  <2>8. q \in Panes
    BY <1>2, <1>3, <1>4, <2>2, <2>3, <2>4, <2>5, <2>6, <2>7, Refilled
  <2>. QED
    BY <2>8 DEF q
<1>5. p.colors \subseteq Lines(p) \/ p.type \notin Recolors
  BY <1>2 DEF Coherent
<1>6. p.chans[k].name \in Lines(p)
  BY DEF Lines
<1>7. ASSUME p.type \in Recolors
      PROVE  [p EXCEPT !.chans[k].color = "picked", !.colors = @ \cup {p.chans[k].name}] \in Panes
  <2>. DEFINE colors == p.colors \cup {p.chans[k].name}
  <2>1. colors \in SUBSET Names /\ colors \subseteq Lines(p) /\ p.chans[k].name \in colors
        /\ \A n \in Names \ {p.chans[k].name} : n \in colors <=> n \in p.colors
    BY <1>3, <1>5, <1>6, <1>7
  <2>. HIDE DEF colors
  <2>2. [p EXCEPT !.chans[k].color = "picked", !.colors = colors] \in Panes
    BY <1>4, <1>7, <2>1
  <2>. QED
    BY <2>2 DEF colors
<1>8. ASSUME p.type \in Recolors
      PROVE  [p EXCEPT !.chans[k].color = "auto", !.colors = @ \ {p.chans[k].name}] \in Panes
  <2>. DEFINE colors == p.colors \ {p.chans[k].name}
  <2>1. colors \in SUBSET Names /\ colors \subseteq Lines(p) /\ p.chans[k].name \notin colors
        /\ \A n \in Names \ {p.chans[k].name} : n \in colors <=> n \in p.colors
    BY <1>3, <1>5, <1>8
  <2>. HIDE DEF colors
  <2>2. [p EXCEPT !.chans[k].color = "auto", !.colors = colors] \in Panes
    BY <1>4, <1>8, <2>1
  <2>. QED
    BY <2>2 DEF colors
<1>9. [p EXCEPT !.hidden = Content!SymDiff(@, {p.chans[k].name})] \in Panes
  <2>. DEFINE hidden == Content!SymDiff(p.hidden, {p.chans[k].name})
              q == [p EXCEPT !.hidden = hidden]
  <2>1. hidden \subseteq Names
    BY <1>3 DEF Content!SymDiff
  <2>2. /\ q = [type |-> p.type, orig |-> p.orig, setting |-> q.setting, colors |-> q.colors,
                hidden |-> q.hidden, chans |-> q.chans]
        /\ q.setting = p.setting /\ q.colors = p.colors /\ q.hidden = hidden /\ q.chans = p.chans
    BY <1>1 DEF Built
  <2>. HIDE DEF hidden, q
  <2>3. Lines(q) = Lines(p)
    BY <2>2 DEF Lines
  <2>4. /\ p.type \in DOMAIN ArityOf /\ ArityOf[p.type] = "pair" => q.chans # <<>>
        /\ \A j \in DOMAIN q.chans : Binding(q.chans[j], q.colors)
        /\ p.type \notin Recolors => q.colors = {}
        /\ p.type \in Recolors =>
             /\ q.colors \subseteq Lines(q)
             /\ \A i, j \in DOMAIN q.chans : q.chans[i].name = q.chans[j].name => i = j
    BY <1>2, <2>2, <2>3 DEF Coherent
  <2>5. q \in Panes
    BY <1>2, <1>3, <2>1, <2>2, <2>4, Refilled
  <2>. QED
    BY <2>5 DEF hidden, q
<1>. QED
  BY <1>7, <1>8, <1>9

LEMMA ChannelRemoved ==
  ASSUME NEW p \in Panes, NEW k \in DOMAIN p.chans, p.type \in Recolors
  PROVE  Content!WithoutChannel(p, k) \in Panes
<1>. DEFINE n == p.chans[k].name
            chans == Content!RemoveAt(p.chans, k)
            q == Content!WithoutChannel(p, k)
<1>1. p \in Built
  BY DEF Panes
<1>2. Coherent(p)
  <2>1. ASSUME Refused(p) PROVE p.chans = <<>>
    BY <2>1 DEF Refused, Content!Build
  <2>. QED
    BY <2>1 DEF Panes
<1>3. /\ p.chans[k] \in Bindings /\ n \in Names
      /\ p.colors \subseteq Names /\ p.hidden \subseteq Names /\ p.setting \in {0, 1}
      /\ p.chans \in Seq(Bindings) /\ Len(p.chans) \in Nat /\ DOMAIN p.chans = 1 .. Len(p.chans)
  BY <1>1, PanelParts
<1>4. /\ q = [type |-> p.type, orig |-> p.orig, setting |-> q.setting, colors |-> q.colors,
              hidden |-> q.hidden, chans |-> q.chans]
      /\ q.setting = p.setting /\ q.colors = p.colors \ {n} /\ q.hidden = p.hidden \ {n}
      /\ q.chans = chans
  <2>1. q = [p EXCEPT !.chans = chans, !.hidden = p.hidden \ {n}, !.colors = p.colors \ {n}]
    BY <1>1 DEF Built, Content!WithoutChannel
  <2>. HIDE DEF q, chans, n
  <2>. QED
    BY <1>1, <2>1 DEF Built
<1>. HIDE DEF q
<1>5. /\ chans \in Seq(Bindings) /\ DOMAIN chans = 1 .. (Len(p.chans) - 1)
      /\ \A j \in 1 .. (Len(p.chans) - 1) : chans[j] = p.chans[IF j < k THEN j ELSE j + 1]
  BY <1>3, OneRemoved DEF Content!RemoveAt
<1>. HIDE DEF chans
<1>6. ASSUME NEW j \in DOMAIN chans
      PROVE  LET i == IF j < k THEN j ELSE j + 1
             IN i \in DOMAIN p.chans /\ i # k /\ chans[j] = p.chans[i]
  BY <1>3, <1>5
<1>7. /\ \A i \in DOMAIN p.chans : Binding(p.chans[i], p.colors)
      /\ p.colors \subseteq Lines(p)
      /\ \A i, j \in DOMAIN p.chans : p.chans[i].name = p.chans[j].name => i = j
      /\ ArityOf[p.type] = "many"
  BY <1>2, ScreensAssumption DEF Coherent
<1>8. \A j \in DOMAIN q.chans : Binding(q.chans[j], q.colors)
  BY <1>4, <1>6, <1>7 DEF Binding
<1>9. \A i, j \in DOMAIN q.chans : q.chans[i].name = q.chans[j].name => i = j
  <2>. SUFFICES ASSUME NEW i \in DOMAIN chans, NEW j \in DOMAIN chans, chans[i].name = chans[j].name
                PROVE  i = j
    BY <1>4
  <2>1. (IF i < k THEN i ELSE i + 1) = (IF j < k THEN j ELSE j + 1)
    BY <1>6, <1>7
  <2>. QED
    BY <1>3, <1>5, <2>1
<1>10. q.colors \subseteq Lines(q)
  <2>. SUFFICES ASSUME NEW x \in p.colors, x # n PROVE \E j \in DOMAIN chans : chans[j].name = x
    BY <1>4 DEF Lines
  <2>1. PICK i \in DOMAIN p.chans : p.chans[i].name = x
    BY <1>7 DEF Lines
  <2>2. CASE i < k
    BY <1>3, <1>5, <2>1, <2>2
  <2>3. CASE i > k
    <3>1. i - 1 \in DOMAIN chans /\ ~(i - 1 < k) /\ (i - 1) + 1 = i
      BY <1>3, <1>5, <2>3
    <3>. QED
      BY <1>5, <2>1, <3>1
  <2>. QED
    BY <1>3, <2>1, <2>2, <2>3
<1>11. q \in Panes
  BY <1>2, <1>3, <1>4, <1>5, <1>7, <1>8, <1>9, <1>10, Refilled
<1>. QED
  BY <1>11 DEF q

LEMMA PanelConfigured ==
  ASSUME NEW p \in Panes, ~Content!Broken(p)
  PROVE  [p EXCEPT !.setting = 1 - @] \in Panes
<1>. DEFINE q == [p EXCEPT !.setting = 1 - @]
<1>1. p \in Built
  BY DEF Panes
<1>2. Coherent(p)
  <2>1. ASSUME Refused(p) PROVE p.orig # <<>>
    BY <2>1 DEF Refused, Content!Build
  <2>. QED
    BY <2>1 DEF Panes, Content!Broken
<1>3. /\ q = [type |-> p.type, orig |-> p.orig, setting |-> q.setting, colors |-> q.colors,
              hidden |-> q.hidden, chans |-> q.chans]
      /\ q.setting = 1 - p.setting /\ q.colors = p.colors /\ q.hidden = p.hidden
      /\ q.chans = p.chans
  BY <1>1 DEF Built
<1>. HIDE DEF q
<1>4. p.setting \in {0, 1} /\ p.colors \subseteq Names /\ p.hidden \subseteq Names
      /\ p.chans \in Seq(Bindings)
  BY <1>1, PanelParts
<1>5. q.setting \in {0, 1}
  BY <1>3, <1>4
<1>6. q \in Panes
  <2>1. Lines(q) = Lines(p)
    BY <1>3 DEF Lines
  <2>2. /\ p.type \in DOMAIN ArityOf /\ ArityOf[p.type] = "pair" => q.chans # <<>>
        /\ \A j \in DOMAIN q.chans : Binding(q.chans[j], q.colors)
        /\ p.type \notin Recolors => q.colors = {}
        /\ p.type \in Recolors =>
             /\ q.colors \subseteq Lines(q)
             /\ \A i, j \in DOMAIN q.chans : q.chans[i].name = q.chans[j].name => i = j
    BY <1>2, <1>3, <2>1 DEF Coherent
  <2>. QED
    BY <1>2, <1>3, <1>4, <1>5, <2>2, Refilled
<1>. QED
  BY <1>6 DEF q

LEMMA EntriesMade ==
  /\ Content!Undefined \in Saveable
  /\ \A type \in DOMAIN ArityOf :
       /\ Content!Entry(type, Content!Blank(type)) \in Saveable
       /\ \A n, m \in Names :
            \A picks \in {<<n>>, <<n, m>>} :
              n # m \/ picks = <<n>> =>
                Content!build_panel_entry(type, picks) \subseteq Saveable
<1>1. "placeholder" \notin Recolors /\ "placeholder" \notin DOMAIN ArityOf
  BY ScreensAssumption
<1>2. Content!Undefined \in Saveable
  BY <1>1 DEF Content!Undefined, Saveable, Entries, Proper
<1>3. ASSUME NEW type \in DOMAIN ArityOf, NEW names \in Seq(Names),
             ArityOf[type] = "pair" => names # <<>>,
             \A j, k \in DOMAIN names : names[j] = names[k] => j = k
      PROVE  Content!Entry(type, names) \in Saveable
  <2>1. type # "unknown"
    BY ScreensAssumption
  <2>. QED
    BY <1>3, <2>1 DEF Content!Entry, Saveable, Entries, Proper
<1>4. ASSUME NEW type \in DOMAIN ArityOf
      PROVE  Content!Entry(type, Content!Blank(type)) \in Saveable
  <2>1. ArityOf[type] \in {"many", "one", "pair"} /\ type # "unknown"
    BY ScreensAssumption
  <2>2. type \in Recolors => Content!Blank(type) = <<>>
    BY ScreensAssumption DEF Content!Blank
  <2>3. Content!Blank(type) \in Seq(Names) /\ (ArityOf[type] = "pair" => Content!Blank(type) # <<>>)
    <3>1. CASE ArityOf[type] = "many"
      BY <3>1 DEF Content!Blank
    <3>2. CASE ArityOf[type] = "one"
      BY <3>2 DEF Content!Blank, Names
    <3>3. CASE ArityOf[type] = "pair"
      BY <3>3 DEF Content!Blank, Names
    <3>. QED
      BY <2>1, <3>1, <3>2, <3>3
  <2>. HIDE DEF Content!Blank
  <2>. QED
    BY <2>1, <2>2, <2>3 DEF Content!Entry, Saveable, Entries, Proper
<1>5. ASSUME NEW type \in DOMAIN ArityOf, NEW n \in Names, NEW m \in Names,
             NEW picks \in {<<n>>, <<n, m>>}, n # m \/ picks = <<n>>
      PROVE  Content!build_panel_entry(type, picks) \subseteq Saveable
  <2>1. /\ picks \in Seq(Names) /\ picks # <<>>
        /\ \A j, k \in DOMAIN picks : picks[j] = picks[k] => j = k
    <3>1. CASE picks = <<n>>
      BY <3>1
    <3>2. CASE picks = <<n, m>> /\ n # m
      BY <3>2
    <3>. QED
      BY <1>5, <3>1, <3>2
  <2>2. Content!Entry(type, picks) \in Saveable
    BY <1>3, <2>1
  <2>. QED
    BY <2>2 DEF Content!build_panel_entry
<1>. QED
  BY <1>2, <1>4, <1>5

LEMMA ScreenBuilt ==
  ASSUME NEW entries \in Seq(Saveable), NEW reg, Configured \subseteq reg
  PROVE  Content!Built(entries, reg) \in Seq(Panes)
<1>1. Len(entries) \in Nat /\ DOMAIN entries = 1 .. Len(entries)
      /\ \A i \in DOMAIN entries : entries[i] \in Saveable
  OBVIOUS
<1>2. Content!Built(entries, reg) \in [1 .. Len(entries) -> Panes]
  BY <1>1, PanelsBuilt DEF Content!Built
<1>. QED
  BY <1>1, <1>2

LEMMA ScreenSaved ==
  ASSUME panels \in Seq(Panes)
  PROVE  Content!Saved \in Seq(Saveable)
<1>1. Len(panels) \in Nat /\ DOMAIN panels = 1 .. Len(panels)
      /\ \A i \in DOMAIN panels : panels[i] \in Panes
  OBVIOUS
<1>2. Content!Saved \in [1 .. Len(panels) -> Saveable]
  BY <1>1, PanelsSaved DEF Content!Saved
<1>. QED
  BY <1>1, <1>2

LEMMA ScreenRebound ==
  ASSUME panels \in Seq(Panes), NEW reg, reg \subseteq Configured \cup Dynamic
  PROVE  [i \in DOMAIN panels |-> Content!Rebound(panels[i], reg)] \in Seq(Panes)
<1>1. Len(panels) \in Nat /\ DOMAIN panels = 1 .. Len(panels)
      /\ \A i \in DOMAIN panels : panels[i] \in Panes
  OBVIOUS
<1>2. [i \in DOMAIN panels |-> Content!Rebound(panels[i], reg)] \in [1 .. Len(panels) -> Panes]
  BY <1>1, PanelsRebound
<1>. QED
  BY <1>1, <1>2

LEMMA ScreenInvInit == Init => ScreenInv
<1>. SUFFICES ASSUME Init, scene = "panels" PROVE ScreenInv
  BY DEF ScreenInv
<1>1. Content!Init
  BY DEF Init
<1>2. file \in Seq(Saveable)
  <2>1. file \in Seq(Entries) /\ \A i \in DOMAIN file : Proper(file[i])
    BY <1>1, ScreensAssumption DEF Content!Init
  <2>2. Len(file) \in Nat /\ file \in [1 .. Len(file) -> Saveable]
    BY <2>1 DEF Saveable
  <2>. QED
    BY <2>2
<1>. QED
  BY <1>1, <1>2, ScreenBuilt DEF Content!Init, ScreenInv

LEMMA ScreenInvStep == ScreenInv /\ [Next]_vars => ScreenInv'
<1>. SUFFICES ASSUME ScreenInv, [Next]_vars, scene = "panels" PROVE ScreenInv'
  BY SceneStays DEF ScreenInv
<1>1. /\ Configured \subseteq known /\ known \subseteq Configured \cup Dynamic
      /\ discovered \subseteq Dynamic /\ snapshot \subseteq Dynamic
      /\ file \in Seq(Saveable) /\ panels \in Seq(Panes)
  BY DEF ScreenInv
<1>2. /\ Len(panels) \in Nat /\ DOMAIN panels = 1 .. Len(panels)
      /\ \A i \in DOMAIN panels : panels[i] \in Panes
  BY <1>1
<1>3. CASE UNCHANGED vars
  BY <1>1, <1>3 DEF vars, content, ScreenInv
<1>4. ASSUME NEW i \in DOMAIN panels, NEW p \in Panes, panels' = [panels EXCEPT ![i] = p],
             UNCHANGED <<known, discovered, snapshot, source, file>>
      PROVE  ScreenInv'
  <2>1. panels' \in Seq(Panes)
    BY <1>1, <1>4
  <2>. QED
    BY <1>1, <1>4, <2>1 DEF ScreenInv
<1>5. ASSUME NEW e \in Saveable, panels' = Append(panels, Content!Build(e, known)),
             UNCHANGED <<known, discovered, snapshot, source, file>>
      PROVE  ScreenInv'
  <2>1. Content!Build(e, known) \in Panes
    BY <1>1, PanelsBuilt
  <2>2. panels' \in Seq(Panes)
    BY <1>1, <1>5, <2>1
  <2>. QED
    BY <1>1, <1>5, <2>2 DEF ScreenInv
<1>6. ASSUME known' = known, discovered' \subseteq Dynamic, snapshot' \subseteq Dynamic,
             file' \in Seq(Saveable), panels' \in Seq(Panes)
      PROVE  ScreenInv'
  BY <1>1, <1>6 DEF ScreenInv
<1>7. ASSUME NEW seen, seen \subseteq Configured \cup Dynamic, known' = known \cup seen,
             discovered' \subseteq Dynamic, snapshot' \subseteq Dynamic,
             file' = file, panels' \in Seq(Panes)
      PROVE  ScreenInv'
  BY <1>1, <1>7 DEF ScreenInv
<1>8. CASE Content!AddAt
  BY <1>5, <1>8, EntriesMade DEF Content!AddAt
<1>9. ASSUME NEW type \in DOMAIN ArityOf, NEW n \in known, NEW m \in known,
             Content!AddPanel(type, <<n>>) \/ (n # m /\ Content!AddPanel(type, <<n, m>>))
      PROVE  ScreenInv'
  <2>1. n \in Names /\ m \in Names
    BY <1>1 DEF Names
  <2>2. PICK picks \in {<<n>>, <<n, m>>} :
          Content!AddPanel(type, picks) /\ (n # m \/ picks = <<n>>)
    BY <1>9
  <2>3. Content!build_panel_entry(type, picks) \subseteq Saveable
    BY <2>1, <2>2, EntriesMade
  <2>. QED
    BY <1>5, <2>2, <2>3 DEF Content!AddPanel
<1>10. ASSUME NEW i \in DOMAIN panels, Content!Delete(i) PROVE ScreenInv'
  <2>1. panels' \in Seq(Panes)
    BY <1>1, <1>2, <1>10, OneRemoved DEF Content!Delete, Content!RemoveAt
  <2>. QED
    BY <1>1, <1>6, <1>10, <2>1 DEF Content!Delete
<1>11. ASSUME NEW i \in DOMAIN panels, Content!Configure(i) PROVE ScreenInv'
  <2>. DEFINE p == [panels[i] EXCEPT !.setting = 1 - @]
  <2>1. p \in Panes
    BY <1>2, <1>11, PanelConfigured DEF Content!Configure
  <2>2. panels' = [panels EXCEPT ![i] = p]
    BY <1>11 DEF Content!Configure
  <2>. HIDE DEF p
  <2>. QED
    BY <1>4, <1>11, <2>1, <2>2 DEF Content!Configure
<1>12. ASSUME NEW i \in DOMAIN panels, NEW type \in DOMAIN ArityOf, Content!Define(i, type)
       PROVE  ScreenInv'
  <2>1. Content!Build(Content!Entry(type, Content!Blank(type)), known) \in Panes
    BY <1>1, EntriesMade, PanelsBuilt
  <2>. QED
    BY <1>4, <1>12, <2>1 DEF Content!Define
<1>13. ASSUME NEW i \in DOMAIN panels, NEW raw, NEW other, Content!Drop(i, raw, other)
       PROVE  ScreenInv'
  <2>. DEFINE seen == Content!Resolve(raw, Content!Seen) \cup Content!Resolve(other, Content!Seen)
              first == Content!drop_raw(panels[i], raw, Content!Seen, known')
              second == Content!drop_raw(first, other, Content!Seen, known')
  <2>1. Content!Seen \subseteq Configured \cup Dynamic
    BY <1>1 DEF Content!Seen
  <2>2. known' = known \cup seen /\ panels' = [panels EXCEPT ![i] = second]
        /\ UNCHANGED <<discovered, snapshot, source, file>>
    BY <1>13 DEF Content!Drop
  <2>3. seen \subseteq Configured \cup Dynamic
    BY <2>1, Resolved
  <2>4. first \in Panes
    BY <1>2, <2>1, <2>2, NamesDropped
  <2>5. second \in Panes
    <3>. HIDE DEF first
    <3>. QED
      BY <2>1, <2>2, <2>4, NamesDropped
  <2>. HIDE DEF seen, second
  <2>6. panels' \in Seq(Panes)
    BY <1>1, <2>2, <2>5
  <2>. QED
    BY <1>1, <1>7, <2>2, <2>3, <2>6
<1>14. ASSUME NEW i \in DOMAIN panels, NEW k \in DOMAIN panels[i].chans,
              \/ Content!PickColor(i, k) \/ Content!AutomaticColor(i, k)
              \/ Content!RemoveChannel(i, k) \/ Content!ToggleHidden(i, k)
       PROVE  ScreenInv'
  <2>. DEFINE p == panels[i]
  <2>1. p \in Panes /\ k \in DOMAIN p.chans
    BY <1>2
  <2>2. CASE Content!PickColor(i, k)
    <3>. DEFINE q == [p EXCEPT !.chans[k].color = "picked", !.colors = @ \cup {p.chans[k].name}]
    <3>1. q \in Panes
      BY <2>1, <2>2, ColorPicked DEF Content!PickColor
    <3>2. panels' = [panels EXCEPT ![i] = q]
      BY <2>2 DEF Content!PickColor
    <3>. HIDE DEF q
    <3>. QED
      BY <1>4, <2>2, <3>1, <3>2 DEF Content!PickColor
  <2>3. CASE Content!AutomaticColor(i, k)
    <3>. DEFINE q == [p EXCEPT !.chans[k].color = "auto", !.colors = @ \ {p.chans[k].name}]
    <3>1. q \in Panes
      BY <2>1, <2>3, ColorPicked DEF Content!AutomaticColor
    <3>2. panels' = [panels EXCEPT ![i] = q]
      BY <2>3 DEF Content!AutomaticColor
    <3>. HIDE DEF q
    <3>. QED
      BY <1>4, <2>3, <3>1, <3>2 DEF Content!AutomaticColor
  <2>4. CASE Content!RemoveChannel(i, k)
    BY <1>4, <2>1, <2>4, ChannelRemoved DEF Content!RemoveChannel
  <2>5. CASE Content!ToggleHidden(i, k)
    <3>. DEFINE q == [p EXCEPT !.hidden = Content!SymDiff(@, {p.chans[k].name})]
    <3>1. q \in Panes
      BY <2>1, ColorPicked
    <3>2. panels' = [panels EXCEPT ![i] = q]
      BY <2>5 DEF Content!ToggleHidden
    <3>. HIDE DEF q
    <3>. QED
      BY <1>4, <2>5, <3>1, <3>2 DEF Content!ToggleHidden
  <2>. QED
    BY <1>14, <2>2, <2>3, <2>4, <2>5
<1>15. ASSUME NEW n \in Dynamic, Content!Discover(n) \/ Content!Register(n) \/ Content!OpenReplay({n})
       PROVE  ScreenInv'
  <2>1. CASE Content!Discover(n)
    BY <1>1, <1>6, <2>1 DEF Content!Discover
  <2>2. CASE Content!Register(n)
    BY <1>1, <1>7, <2>2 DEF Content!Register
  <2>3. CASE Content!OpenReplay({n})
    <3>1. known' = known \cup {n} /\ known' \subseteq Configured \cup Dynamic
      BY <1>1, <2>3 DEF Content!OpenReplay
    <3>2. panels' \in Seq(Panes)
      BY <1>1, <2>3, <3>1, ScreenRebound DEF Content!OpenReplay
    <3>. QED
      BY <1>1, <1>7, <2>3, <3>1, <3>2 DEF Content!OpenReplay
  <2>. QED
    BY <1>15, <2>1, <2>2, <2>3
<1>16. CASE Content!ToggleSource
  BY <1>1, <1>6, <1>16 DEF Content!ToggleSource
<1>17. CASE Content!Refresh
  <2>. DEFINE waiting == UNION {Content!Unresolved(panels[i]) : i \in DOMAIN panels}
              seen == UNION {Content!Resolve(n, known \cup snapshot') : n \in waiting}
  <2>1. snapshot' = discovered /\ known' = known \cup seen
        /\ panels' = [i \in DOMAIN panels |-> Content!Rebound(panels[i], known')]
        /\ UNCHANGED <<discovered, source, file>>
    BY <1>17 DEF Content!Refresh
  <2>. HIDE DEF waiting
  <2>2. seen \subseteq Configured \cup Dynamic
    BY <1>1, <2>1, Resolved
  <2>. HIDE DEF seen
  <2>3. panels' \in Seq(Panes)
    BY <1>1, <2>1, <2>2, ScreenRebound
  <2>. QED
    BY <1>1, <1>7, <2>1, <2>2, <2>3
<1>18. CASE Content!Save
  BY <1>1, <1>6, <1>18, ScreenSaved DEF Content!Save
<1>19. CASE Content!Load
  BY <1>1, <1>6, <1>19, ScreenBuilt DEF Content!Load
<1>20. CASE Content!Restart
  <2>1. file' \in Seq(Saveable)
    BY <1>1, <1>20, ScreenSaved DEF Content!Restart
  <2>2. panels' \in Seq(Panes)
    BY <1>20, <2>1, ScreenBuilt DEF Content!Restart
  <2>. QED
    BY <1>20, <2>1, <2>2 DEF Content!Restart, ScreenInv
<1>21. CASE Content!Next
  BY <1>8, <1>9, <1>10, <1>11, <1>12, <1>13, <1>14, <1>15, <1>16, <1>17, <1>18, <1>19, <1>20, <1>21
  DEF Content!Next
<1>. QED
  BY <1>3, <1>21 DEF Next

(* For any screens and any channels that come and go: what is on a screen   *)
(* is what a save and a load would give, and so are the colours picked.     *)
THEOREM ScreensAreKept == FairSpec => [](scene = "panels" => Content!PanelsKept)
<1>1. ScreenInv => (scene = "panels" => Content!PanelsKept)
  <2>. SUFFICES ASSUME ScreenInv, scene = "panels" PROVE Content!PanelsKept
    OBVIOUS
  <2>1. \A i \in DOMAIN panels : panels[i] \in Panes
    BY DEF ScreenInv
  <2>. QED
    BY <2>1, PanelsReadBack DEF Content!PanelsKept
<1>. QED
  BY <1>1, ScreenInvInit, ScreenInvStep, FairIsSafe, PTL DEF SafeSpec

-----------------------------------------------------------------------------
(* Sequences arranged by keys. *)

Keyed(key) ==
  /\ IsFiniteSet(DOMAIN key) /\ key \in [DOMAIN key -> Int]
  /\ \A k, l \in DOMAIN key : key[k] = key[l] => k = l

(* The ranks of the places are 1 up to their number, in the order of the    *)
(* keys. *)
LEMMA Ranks ==
  ASSUME NEW key, Keyed(key)
  PROVE  LET C == Cardinality(DOMAIN key) IN
         /\ C \in Nat
         /\ \A k \in DOMAIN key : Rank(key, k) \in 1..C
         /\ \A k, l \in DOMAIN key : key[k] < key[l] => Rank(key, k) < Rank(key, l)
         /\ \A r \in 1..C : \E k \in DOMAIN key : Rank(key, k) = r
<1>. DEFINE K == DOMAIN key
            C == Cardinality(K)
            Upto(k) == {j \in K : key[j] <= key[k]}
<1>1. IsFiniteSet(K) /\ C \in Nat
  BY FS_CardinalityType DEF Keyed
<1>2. /\ \A k \in K : key[k] \in Int
      /\ \A k, l \in K : key[k] = key[l] => k = l
  BY DEF Keyed
<1>3. \A k \in K : /\ IsFiniteSet(Upto(k)) /\ Rank(key, k) = Cardinality(Upto(k))
                   /\ Rank(key, k) \in Nat /\ Rank(key, k) <= C
  <2>. TAKE k \in K
  <2>1. Upto(k) \in SUBSET K
    OBVIOUS
  <2>. QED
    BY <1>1, <2>1, FS_Subset, FS_CardinalityType DEF Rank
<1>4. ASSUME NEW k \in K PROVE Rank(key, k) \in 1..C
  <2>1. k \in Upto(k)
    BY <1>2
  <2>2. Cardinality(Upto(k)) # 0
    <3>. HIDE DEF Upto
    <3>. QED
      BY <1>3, <2>1, FS_EmptySet
  <2>3. Rank(key, k) \in Nat /\ Rank(key, k) <= C /\ Rank(key, k) # 0
    BY <1>3, <2>2
  <2>. QED
    BY <1>1, <2>3
<1>5. ASSUME NEW k \in K, NEW l \in K, key[k] < key[l] PROVE Rank(key, k) < Rank(key, l)
  <2>1. Upto(k) \in SUBSET Upto(l)
    <3>1. \A j \in K : key[j] <= key[k] => key[j] <= key[l]
      BY <1>2, <1>5
    <3>. QED
      BY <3>1
  <2>2. l \in Upto(l) /\ l \notin Upto(k)
    BY <1>2, <1>5
  <2>3. Cardinality(Upto(k)) <= Cardinality(Upto(l)) /\ Cardinality(Upto(k)) # Cardinality(Upto(l))
    <3>1. IsFiniteSet(Upto(l))
      BY <1>3
    <3>. HIDE DEF Upto
    <3>. QED
      BY <2>1, <2>2, <3>1, FS_Subset
  <2>4. Rank(key, k) \in Nat /\ Rank(key, l) \in Nat
    BY <1>3
  <2>5. Rank(key, k) = Cardinality(Upto(k)) /\ Rank(key, l) = Cardinality(Upto(l))
    BY <1>3
  <2>. HIDE DEF Upto
  <2>. QED
    BY <2>3, <2>4, <2>5
<1>. HIDE DEF C, Upto, K
<1>6. ASSUME NEW r \in 1..C PROVE \E k \in K : Rank(key, k) = r
  <2>. DEFINE f == [k \in K |-> Rank(key, k)]
  <2>1. f \in [K -> 1..C]
    BY <1>4
  <2>2. ASSUME NEW k \in K, NEW l \in K, f[k] = f[l] PROVE k = l
    <3>1. /\ Rank(key, k) = Rank(key, l) /\ Rank(key, k) \in Nat /\ Rank(key, l) \in Nat
          /\ key[k] \in Int /\ key[l] \in Int
      BY <1>2, <1>3, <2>2
    <3>2. ~(key[k] < key[l]) /\ ~(key[l] < key[k])
      BY <1>5, <3>1
    <3>3. key[k] = key[l]
      BY <3>1, <3>2
    <3>. QED
      BY <1>2, <3>3
  <2>3. f \in Injection(K, 1..C)
    <3>. HIDE DEF f
    <3>. QED
      BY <2>1, <2>2, Fun_IsInj
  <2>4. IsFiniteSet(1..C) /\ Cardinality(1..C) = C
    <3>1. 1 \in Int /\ C \in Int /\ (C < 1 => C = 0) /\ C - 1 + 1 = C
      BY <1>1
    <3>. QED
      BY <3>1, FS_Interval
  <2>5. f \in Surjection(K, 1..C)
    <3>. HIDE DEF f
    <3>. QED
      BY <1>1, <2>3, <2>4, FS_Injection DEF C
  <2>. QED
    BY <2>5 DEF Surjection
<1>. QED
  BY <1>1, <1>4, <1>5, <1>6 DEF C, K

(* Place f[r] of s is drawn at r; every place with a key is drawn.          *)
Draws(f, s, key) ==
  LET C == Cardinality(DOMAIN key) IN
  /\ C \in Nat /\ f \in [1..C -> DOMAIN key]
  /\ Arranged(s, key) = [r \in 1..C |-> s[f[r]]]
  /\ \A r, q \in 1..C : r < q => key[f[r]] < key[f[q]]
  /\ \A k \in DOMAIN key : \E r \in 1..C : f[r] = k

LEMMA Arranging ==
  ASSUME NEW s, NEW key, Keyed(key)
  PROVE  \E f : Draws(f, s, key)
<1>. DEFINE K == DOMAIN key
            C == Cardinality(K)
            at(r) == CHOOSE k \in K : Rank(key, k) = r
            f == [r \in 1..C |-> at(r)]
<1>1. /\ C \in Nat
      /\ \A k \in K : Rank(key, k) \in 1..C
      /\ \A k, l \in K : key[k] < key[l] => Rank(key, k) < Rank(key, l)
      /\ \A r \in 1..C : \E k \in K : Rank(key, k) = r
  BY Ranks
<1>2. /\ \A k \in K : key[k] \in Int
      /\ \A k, l \in K : key[k] = key[l] => k = l
  BY DEF Keyed
<1>3. Arranged(s, key) = [r \in 1..C |-> s[at(r)]]
  BY DEF Arranged
<1>4. ASSUME NEW k \in K, NEW l \in K PROVE Rank(key, k) < Rank(key, l) => key[k] < key[l]
  <2>1. key[k] \in Int /\ key[l] \in Int /\ Rank(key, k) \in Int /\ Rank(key, l) \in Int
    BY <1>1, <1>2
  <2>2. key[k] = key[l] => Rank(key, k) = Rank(key, l)
    BY <1>2
  <2>3. key[l] < key[k] => Rank(key, l) < Rank(key, k)
    BY <1>1
  <2>. QED
    BY <2>1, <2>2, <2>3
<1>5. \A r \in 1..C : at(r) \in K /\ Rank(key, at(r)) = r
  BY <1>1
<1>. HIDE DEF at
<1>6. \A k \in K : at(Rank(key, k)) = k
  <2>. TAKE k \in K
  <2>1. at(Rank(key, k)) \in K /\ Rank(key, at(Rank(key, k))) = Rank(key, k)
    BY <1>1, <1>5
  <2>2. key[at(Rank(key, k))] \in Int /\ key[k] \in Int
    BY <1>2, <2>1
  <2>3. ~(Rank(key, k) < Rank(key, k))
    BY <1>1
  <2>4. ~(key[at(Rank(key, k))] < key[k]) /\ ~(key[k] < key[at(Rank(key, k))])
    BY <1>1, <2>1, <2>3
  <2>5. key[at(Rank(key, k))] = key[k]
    BY <2>2, <2>4
  <2>. QED
    BY <1>2, <2>1, <2>5
<1>. HIDE DEF K, C
<1>7. f \in [1..C -> K] /\ \A r \in 1..C : f[r] = at(r)
  BY <1>5
<1>8. Arranged(s, key) = [r \in 1..C |-> s[f[r]]]
  BY <1>3, <1>7
<1>9. ASSUME NEW r \in 1..C, NEW q \in 1..C, r < q PROVE key[f[r]] < key[f[q]]
  BY <1>4, <1>5, <1>7, <1>9
<1>10. \A k \in K : \E r \in 1..C : f[r] = k
  BY <1>1, <1>6, <1>7
<1>. HIDE DEF f
<1>. QED
  BY <1>1, <1>7, <1>8, <1>9, <1>10 DEF Draws, K, C

(* What is picked stands in the order it stood in, and is all there is at   *)
(* the places. *)
Picks(f, s, at) ==
  LET C == Cardinality(at) IN
  /\ C \in Nat /\ f \in [1..C -> at]
  /\ Picked(s, at) = [r \in 1..C |-> s[f[r]]]
  /\ \A r, q \in 1..C : r < q => f[r] < f[q]
  /\ \A k \in at : \E r \in 1..C : f[r] = k

LEMMA Picking ==
  ASSUME NEW s, NEW n \in Nat, NEW at \in SUBSET (1..n)
  PROVE  \E f : Picks(f, s, at)
<1>. DEFINE key == [k \in at |-> k]
<1>1. IsFiniteSet(at)
  <2>1. 1 \in Int /\ n \in Int
    OBVIOUS
  <2>2. IsFiniteSet(1..n)
    BY <2>1, FS_Interval, Zenon
  <2>. QED
    BY <2>2, FS_Subset
<1>2. DOMAIN key = at /\ \A k \in at : key[k] = k
  OBVIOUS
<1>3. \A k \in at : k \in Int
  OBVIOUS
<1>4. key \in [at -> Int]
  BY <1>3
<1>5. Picked(s, at) = Arranged(s, key)
  BY DEF Picked
<1>. HIDE DEF key
<1>6. Keyed(key)
  BY <1>1, <1>2, <1>4 DEF Keyed
<1>7. PICK f : Draws(f, s, key)
  BY <1>6, Arranging
<1>8. /\ Cardinality(at) \in Nat /\ f \in [1..Cardinality(at) -> at]
      /\ Arranged(s, key) = [r \in 1..Cardinality(at) |-> s[f[r]]]
      /\ \A r, q \in 1..Cardinality(at) : r < q => key[f[r]] < key[f[q]]
      /\ \A k \in at : \E r \in 1..Cardinality(at) : f[r] = k
  BY <1>2, <1>7, Zenon DEF Draws
<1>9. \A r, q \in 1..Cardinality(at) : r < q => f[r] < f[q]
  <2>1. \A r \in 1..Cardinality(at) : key[f[r]] = f[r]
    BY <1>2, <1>8, Zenon
  <2>. QED
    BY <1>8, <2>1, Zenon
<1>10. Picks(f, s, at)
  BY <1>5, <1>8, <1>9, Zenon DEF Picks
<1>. QED
  BY <1>10

(* Of a sequence of which every element is picked nothing is missing.       *)
LEMMA PickingAll ==
  ASSUME NEW S, NEW s \in Seq(S)
  PROVE  Picked(s, 1..Len(s)) = s
<1>. DEFINE n == Len(s)
            at == 1..n
            key == [k \in at |-> k]
<1>1. n \in Nat
  OBVIOUS
<1>. HIDE DEF n
<1>2. Cardinality(at) = n /\ DOMAIN key = at
  <2>1. 1 \in Int /\ n \in Int /\ (1 > n => n = 0) /\ n - 1 + 1 = n
    BY <1>1
  <2>. QED
    BY <2>1, FS_Interval, Zenon
<1>3. \A k \in at : Rank(key, k) = k
  <2>. TAKE k \in at
  <2>1. {j \in DOMAIN key : key[j] <= key[k]} = 1..k
    BY <1>1
  <2>2. 1 \in Int /\ k \in Int /\ ~(1 > k) /\ k - 1 + 1 = k
    BY <1>1
  <2>3. Cardinality(1..k) = k
    BY <2>2, FS_Interval, Zenon
  <2>. QED
    BY <2>1, <2>3 DEF Rank
<1>. HIDE DEF key
<1>4. \A r \in 1..n : (CHOOSE k \in at : Rank(key, k) = r) = r
  BY <1>3
<1>5. Picked(s, at) = [r \in 1..n |-> s[CHOOSE k \in at : Rank(key, k) = r]]
  <2>1. Picked(s, at) = Arranged(s, key)
    BY DEF Picked, key
  <2>2. Arranged(s, key) = [r \in 1..Cardinality(at) |-> s[CHOOSE k \in at : Rank(key, k) = r]]
    BY <1>2 DEF Arranged
  <2>. QED
    BY <1>2, <2>1, <2>2
<1>6. Picked(s, at) = [r \in 1..n |-> s[r]]
  BY <1>4, <1>5
<1>7. s = [r \in 1..Len(s) |-> s[r]]
  OBVIOUS
<1>. QED
  BY <1>6, <1>7, Zenon DEF n

LEMMA PickedIsSeq ==
  ASSUME NEW S, NEW s, NEW n \in Nat, NEW at \in SUBSET (1..n), \A i \in at : s[i] \in S
  PROVE  Picked(s, at) \in Seq(S)
<1>1. PICK f : Picks(f, s, at)
  BY Picking
<1>2. \A r \in 1..Cardinality(at) : s[f[r]] \in S
  BY <1>1 DEF Picks
<1>. QED
  BY <1>1, <1>2 DEF Picks

-----------------------------------------------------------------------------
(* What panels remember. *)

Labels        == (Words \ {""}) \cup {None}
Spans         == Int \cup {None}
Bases         == Words \cup {None}
Maps(K)       == UNION {[D -> Words] : D \in SUBSET K}
ThresholdRows == [value : Int, color : Words]
StateRows     == [match : Words, label : Labels, color : Words]

Waveforms ==
  [type : {"waveform"}, channels : Seq(Words), label : Labels, span : Spans, cursors : BOOLEAN,
   dots : BOOLEAN, y_unit : Words, colors : Maps(Words)]
StateGraphs ==
  [type : {"state_graph"}, channels : {<<c>> : c \in Words}, label : Labels, states : Maps(Int),
   span : Spans, colors : Maps(Int), aliases : UNION {[D -> Words \ {""}] : D \in SUBSET Int}]
Numerics ==
  [type : {"numeric"}, channels : {<<c>> : c \in Words}, label : Labels, unit : Words,
   thresholds : Seq(ThresholdRows), base : Bases]
Gauges ==
  {g \in [type : {"gauge"}, channels : {<<c>> : c \in Words}, label : Labels, min : Int, max : Int,
          style : {"bar", "vertical", "led", "arc"}, thresholds : Seq(ThresholdRows),
          base : Bases] : g.max > g.min}
Statuses ==
  [type : {"status"}, channels : {<<c>> : c \in Words}, label : Labels, states : Seq(StateRows)]
Spectra ==
  [type : {"spectrum"}, channels : {<<c>> : c \in Words}, label : Labels, fft_size : Shown!Pow2,
   hann : BOOLEAN]
Logs ==
  [type : {"log"}, channels : Seq(Words), label : Labels, max_lines : Nat \ {0}, filter : Words]
Scatters ==
  [type : {"xy_scatter"}, label : Labels, span : Spans,
   channels : {<<x, y>> : x \in Words, y \in Words}]

Remembered ==
  UNION {Waveforms, StateGraphs, Numerics, Gauges, Statuses, Spectra, Logs, Scatters}

ViewInv == scene = "settings" => view \in Remembered

LEMMA ShownPicks == \A s, at : Shown!Picked(s, at) = Picked(s, at)
BY DEF Shown!Picked, Shown!Arranged, Shown!Rank, Shown!Cardinality, Picked, Arranged, Rank, Cardinality

(* A list of which the wrong elements are left out has none, and one        *)
(* without wrong elements is read as it is. *)
LEMMA Filtered ==
  ASSUME NEW S, NEW T, NEW s \in Seq(S), NEW at, at = {i \in DOMAIN s : s[i] \in T}
  PROVE  /\ Shown!Picked(s, at) \in Seq(T)
         /\ s \in Seq(T) => Shown!Picked(s, at) = s
<1>1. Len(s) \in Nat /\ DOMAIN s = 1..Len(s)
  OBVIOUS
<1>2. at \in SUBSET (1..Len(s)) /\ \A i \in at : s[i] \in T
  BY <1>1
<1>3. Picked(s, at) \in Seq(T)
  BY <1>1, <1>2, PickedIsSeq
<1>4. ASSUME s \in Seq(T) PROVE Picked(s, at) = s
  <2>1. at = 1..Len(s)
    BY <1>1, <1>4, ElementOfSeq
  <2>. QED
    BY <2>1, PickingAll
<1>. QED
  BY <1>3, <1>4, ShownPicks

LEMMA ListRead ==
  ASSUME NEW t, NEW key, Held(t, key, Seq(Words \cup {Wrong}))
  PROVE  /\ Shown!opt_str_array(t, key) \in Seq(Words)
         /\ Shown!inner(t, key) \in Seq(Words) => Shown!opt_str_array(t, key) = Shown!inner(t, key)
<1>. DEFINE s == Shown!inner(t, key)
            at == {i \in DOMAIN s : s[i] # Wrong}
<1>1. s \in Seq(Words \cup {Wrong})
  BY EmptySeq DEF Held, Shown!inner
<1>. HIDE DEF s
<1>2. at = {i \in DOMAIN s : s[i] \in Words}
  <2>1. \A i \in DOMAIN s : s[i] \in Words \cup {Wrong}
    BY <1>1, ElementOfSeq
  <2>. QED
    BY <2>1, SettingsAssumption
<1>3. Shown!opt_str_array(t, key) = Shown!Picked(s, at)
  BY DEF Shown!opt_str_array, Shown!Where, s
<1>. HIDE DEF at
<1>4. Shown!Picked(s, at) \in Seq(Words) /\ (s \in Seq(Words) => Shown!Picked(s, at) = s)
  BY <1>1, <1>2, Filtered
<1>. QED
  BY <1>3, <1>4 DEF s

LEMMA ThresholdsRead ==
  ASSUME NEW t, Held(t, "thresholds", Seq([value : Int \cup {Wrong}, color : Words \cup {Wrong}]))
  PROVE  /\ Shown!thresholds_from(t) \in Seq(ThresholdRows)
         /\ Shown!inner(t, "thresholds") \in Seq(ThresholdRows) =>
              Shown!thresholds_from(t) = Shown!inner(t, "thresholds")
<1>. DEFINE R == [value : Int \cup {Wrong}, color : Words \cup {Wrong}]
            s == Shown!inner(t, "thresholds")
            at == {i \in DOMAIN s : s[i].value # Wrong /\ s[i].color # Wrong}
<1>1. s \in Seq(R)
  BY EmptySeq DEF Held, Shown!inner
<1>2. \A r \in R : r.value # Wrong /\ r.color # Wrong <=> r \in ThresholdRows
  BY SettingsAssumption DEF ThresholdRows
<1>. HIDE DEF s, R
<1>3. at = {i \in DOMAIN s : s[i] \in ThresholdRows}
  <2>1. \A i \in DOMAIN s : s[i] \in R
    BY <1>1, ElementOfSeq
  <2>. QED
    BY <1>2, <2>1
<1>4. Shown!thresholds_from(t) = Shown!Picked(s, at)
  BY DEF Shown!thresholds_from, Shown!Where, s
<1>. HIDE DEF at
<1>5. /\ Shown!Picked(s, at) \in Seq(ThresholdRows)
      /\ s \in Seq(ThresholdRows) => Shown!Picked(s, at) = s
  BY <1>1, <1>3, Filtered
<1>. QED
  BY <1>4, <1>5 DEF s

FileRows == [match : Words \cup {Wrong}, label : Words \cup {Wrong, None}, color : Words \cup {Wrong}]

LEMMA StatesRead ==
  ASSUME NEW t, Held(t, "states", Seq(FileRows))
  PROVE  /\ Shown!states_from(t) \in Seq(StateRows)
         /\ Shown!inner(t, "states") \in Seq(StateRows) =>
              Shown!states_from(t) = Shown!inner(t, "states")
<1>. DEFINE T == [match : Words, label : Words \cup {Wrong, None}, color : Words]
            s == Shown!inner(t, "states")
            at == {i \in DOMAIN s : s[i].match # Wrong /\ s[i].color # Wrong}
            rows == Shown!Picked(s, at)
            Cleaned(r) == [r EXCEPT !.label = IF @ \in {"", Wrong} THEN None ELSE @]
<1>1. s \in Seq(FileRows)
  BY EmptySeq DEF Held, Shown!inner
<1>2. \A r \in FileRows : r.match # Wrong /\ r.color # Wrong <=> r \in T
  BY SettingsAssumption DEF FileRows
<1>3. \A r \in T : Cleaned(r) \in StateRows
  BY SettingsAssumption DEF StateRows, Labels
<1>4. \A r \in StateRows : r \in T /\ Cleaned(r) = r
  <2>. TAKE r \in StateRows
  <2>1. r.label \in Labels /\ r = [match |-> r.match, label |-> r.label, color |-> r.color]
    BY DEF StateRows
  <2>2. r.label \notin {"", Wrong}
    BY <2>1, SettingsAssumption DEF Labels
  <2>3. r \in T
    BY DEF StateRows, Labels
  <2>. QED
    BY <2>1, <2>2, <2>3
<1>. HIDE DEF s, T, Cleaned
<1>5. at = {i \in DOMAIN s : s[i] \in T}
  <2>1. \A i \in DOMAIN s : s[i] \in FileRows
    BY <1>1, ElementOfSeq
  <2>. QED
    BY <1>2, <2>1
<1>6. Shown!states_from(t) = [k \in DOMAIN rows |-> Cleaned(rows[k])]
  BY DEF Shown!states_from, Shown!Where, s, Cleaned
<1>. HIDE DEF at
<1>7. rows \in Seq(T) /\ (s \in Seq(T) => rows = s)
  BY <1>1, <1>5, Filtered
<1>. HIDE DEF rows
<1>8. Shown!states_from(t) \in Seq(StateRows)
  <2>1. \A k \in DOMAIN rows : Cleaned(rows[k]) \in StateRows
    BY <1>3, <1>7, ElementOfSeq
  <2>2. DOMAIN rows = 1..Len(rows) /\ Len(rows) \in Nat
    BY <1>7
  <2>. QED
    BY <1>6, <2>1, <2>2
<1>9. ASSUME s \in Seq(StateRows) PROVE Shown!states_from(t) = s
  <2>1. \A k \in 1..Len(s) : s[k] \in StateRows
    BY <1>9, ElementOfSeq
  <2>2. s \in Seq(T)
    <3>1. \A k \in 1..Len(s) : s[k] \in T
      BY <1>4, <2>1
    <3>2. s = [k \in 1..Len(s) |-> s[k]] /\ Len(s) \in Nat
      BY <1>9
    <3>. QED
      BY <3>1, <3>2
  <2>3. rows = s
    BY <1>7, <2>2
  <2>4. Shown!states_from(t) = [k \in 1..Len(s) |-> Cleaned(s[k])]
    BY <1>6, <1>9, <2>3
  <2>5. \A k \in 1..Len(s) : Cleaned(s[k]) = s[k]
    BY <1>4, <2>1
  <2>6. s = [k \in 1..Len(s) |-> s[k]]
    BY <1>9
  <2>. QED
    BY <2>4, <2>5, <2>6
<1>. QED
  BY <1>8, <1>9 DEF s

(* What is read back of an entry that was written, or left out since it     *)
(* said nothing. *)
LEMMA Lookup ==
  ASSUME NEW r, NEW d, NEW key \in DOMAIN r, NEW default, r[key] # Wrong
  PROVE  Shown!opt(Shown!Written(r, d), key, default) =
           IF key \in DOMAIN d /\ r[key] = d[key] THEN default ELSE r[key]
BY DEF Shown!opt, Shown!Written

LEMMA InnerLookup ==
  ASSUME NEW r, NEW d, NEW key \in DOMAIN r
  PROVE  Shown!inner(Shown!Written(r, d), key) =
           IF key \in DOMAIN d /\ r[key] = d[key] THEN <<>> ELSE r[key]
BY DEF Shown!inner, Shown!Written

LEMMA LabelRead ==
  ASSUME NEW t, Held(t, "label", Words \cup {Wrong})
  PROVE  Shown!opt_label(t) \in Labels
BY SettingsAssumption DEF Held, Shown!opt_label, Shown!opt, Labels

LEMMA LabelReadBack ==
  ASSUME NEW r, NEW d, "label" \in DOMAIN r, "label" \in DOMAIN d, d["label"] = None,
         r["label"] \in Labels
  PROVE  Shown!opt_label(Shown!Written(r, d)) = r["label"]
<1>1. r["label"] # Wrong /\ r["label"] # ""
  BY SettingsAssumption DEF Labels
<1>2. Shown!opt(Shown!Written(r, d), "label", "") = IF r["label"] = None THEN "" ELSE r["label"]
  <2>1. Shown!opt(Shown!Written(r, d), "label", "") =
          IF "label" \in DOMAIN d /\ r["label"] = d["label"] THEN "" ELSE r["label"]
    BY <1>1 DEF Shown!opt, Shown!Written
  <2>. QED
    BY <2>1, Zenon
<1>. QED
  BY <1>1, <1>2 DEF Shown!opt_label

(* A table of which the wrong entries are left out.                         *)
LEMMA MapRead ==
  ASSUME NEW t, NEW key, NEW K, HeldMap(t, key, K)
  PROVE  /\ Shown!Parsed(t, key) \in Maps(K)
         /\ DOMAIN Shown!Parsed(t, key) \subseteq DOMAIN Shown!inner(t, key)
<1>. DEFINE m == Shown!inner(t, key)
            D == {x \in DOMAIN m : m[x] # Wrong}
<1>1. DOMAIN m \subseteq K /\ \A k \in DOMAIN m : m[k] \in Words \cup {Wrong}
  BY DEF HeldMap, MapTo, Shown!inner
<1>. HIDE DEF m
<1>2. D \in SUBSET K /\ \A k \in D : m[k] \in Words
  BY <1>1
<1>3. Shown!Parsed(t, key) = [k \in D |-> m[k]]
  BY DEF Shown!Parsed, m
<1>. HIDE DEF D
<1>4. Shown!Parsed(t, key) \in [D -> Words]
  BY <1>2, <1>3
<1>5. D \subseteq DOMAIN m
  BY DEF D
<1>. QED
  BY <1>2, <1>3, <1>4, <1>5 DEF Maps, m

-----------------------------------------------------------------------------
(* A table without wrong entries is read as it is.                          *)
LEMMA MapReadBack ==
  ASSUME NEW r, NEW d, NEW key, key \in DOMAIN r, key \in DOMAIN d, d[key] = <<>>,
         NEW K, r[key] \in Maps(K)
  PROVE  Shown!Parsed(Shown!Written(r, d), key) = r[key]
<1>. DEFINE m == Shown!inner(Shown!Written(r, d), key)
<1>1. m = r[key]
  BY DEF Shown!inner, Shown!Written
<1>2. Shown!Parsed(Shown!Written(r, d), key) = [k \in {x \in DOMAIN m : m[x] # Wrong} |-> m[k]]
  BY DEF Shown!Parsed
<1>. HIDE DEF m
<1>3. PICK D \in SUBSET K : m \in [D -> Words]
  BY <1>1 DEF Maps
<1>4. {x \in DOMAIN m : m[x] # Wrong} = DOMAIN m
  BY <1>3, SettingsAssumption
<1>5. [k \in DOMAIN m |-> m[k]] = m
  BY <1>3
<1>. QED
  BY <1>1, <1>2, <1>4, <1>5

LEMMA NumberRead ==
  ASSUME NEW t, NEW key, NEW default \in Int, Held(t, key, Int \cup {Wrong})
  PROVE  Shown!opt(t, key, default) \in Int
<1>1. key \in DOMAIN t /\ t[key] # Wrong => t[key] \in Int
  BY DEF Held
<1>. QED
  BY <1>1 DEF Shown!opt

LEMMA WaveformBuilt ==
  ASSUME NEW t, Readable("waveform", t)
  PROVE  Shown!waveform_ctor(t) \subseteq Waveforms
<1>1. Shown!opt_str_array(t, "channels") \in Seq(Words) /\ Shown!opt_label(t) \in Labels
  BY ListRead, LabelRead DEF Readable
<1>2. Shown!Parsed(t, "colors") \in Maps(Words)
  BY MapRead DEF Readable
<1>3. /\ Shown!opt(t, "time_window_s", None) \in Spans
      /\ Shown!opt(t, "cursors", FALSE) \in BOOLEAN /\ Shown!opt(t, "dots", FALSE) \in BOOLEAN
      /\ Shown!opt(t, "y_unit", "") \in Words
  BY SettingsAssumption DEF Readable, Held, Shown!opt, Spans
<1>. DEFINE p == [type |-> "waveform", channels |-> Shown!opt_str_array(t, "channels"),
                  label |-> Shown!opt_label(t), span |-> Shown!opt(t, "time_window_s", None),
                  cursors |-> Shown!opt(t, "cursors", FALSE), dots |-> Shown!opt(t, "dots", FALSE),
                  y_unit |-> Shown!opt(t, "y_unit", ""), colors |-> Shown!Parsed(t, "colors")]
<1>4. p \in Waveforms
  BY <1>1, <1>2, <1>3 DEF Waveforms
<1>5. Shown!waveform_ctor(t) = {p}
  BY DEF Shown!waveform_ctor
<1>. QED
  BY <1>4, <1>5

LEMMA WaveformKept ==
  ASSUME NEW p \in Waveforms
  PROVE  Shown!waveform_ctor(Shown!waveform_serialize(p)) = {p}
<1>. DEFINE r == [channels |-> p.channels, time_window_s |-> p.span, cursors |-> p.cursors,
                  dots |-> p.dots, y_unit |-> p.y_unit, colors |-> p.colors, label |-> p.label]
            d == [time_window_s |-> None, y_unit |-> "", colors |-> <<>>, label |-> None]
            t == Shown!Written(r, d)
<1>1. Shown!waveform_serialize(p) = t
  BY DEF Shown!waveform_serialize
<1>2. /\ p.channels \in Seq(Words) /\ p.label \in Labels /\ p.span \in Spans
      /\ p.cursors \in BOOLEAN /\ p.dots \in BOOLEAN /\ p.y_unit \in Words
      /\ p.colors \in Maps(Words)
      /\ p = [type |-> "waveform", channels |-> p.channels, label |-> p.label, span |-> p.span,
              cursors |-> p.cursors, dots |-> p.dots, y_unit |-> p.y_unit, colors |-> p.colors]
  BY DEF Waveforms
<1>3. /\ r["channels"] = p.channels /\ r["time_window_s"] = p.span /\ r["cursors"] = p.cursors
      /\ r["dots"] = p.dots /\ r["y_unit"] = p.y_unit /\ r["colors"] = p.colors
      /\ r["label"] = p.label
      /\ DOMAIN r = {"channels", "time_window_s", "cursors", "dots", "y_unit", "colors", "label"}
  OBVIOUS
<1>4. /\ d["time_window_s"] = None /\ d["y_unit"] = "" /\ d["colors"] = <<>> /\ d["label"] = None
      /\ DOMAIN d = {"time_window_s", "y_unit", "colors", "label"}
  OBVIOUS
<1>. HIDE DEF r, d
<1>5. Shown!opt(t, "time_window_s", None) = p.span
  BY <1>2, <1>3, <1>4, SettingsAssumption DEF Shown!opt, Shown!Written, Spans
<1>6. /\ Shown!opt(t, "cursors", FALSE) = p.cursors /\ Shown!opt(t, "dots", FALSE) = p.dots
  BY <1>2, <1>3, <1>4, SettingsAssumption DEF Shown!opt, Shown!Written
<1>7. Shown!opt(t, "y_unit", "") = p.y_unit
  BY <1>2, <1>3, <1>4, SettingsAssumption DEF Shown!opt, Shown!Written
<1>8. Shown!opt_label(t) = p.label
  BY <1>2, <1>3, <1>4, LabelReadBack
<1>9. Shown!Parsed(t, "colors") = p.colors
  <2>1. /\ "colors" \in DOMAIN r /\ "colors" \in DOMAIN d /\ d["colors"] = <<>>
        /\ r["colors"] \in Maps(Words)
    BY <1>2, <1>3, <1>4
  <2>. QED
    BY <1>3, <2>1, MapReadBack
<1>10. Shown!opt_str_array(t, "channels") = p.channels
  <2>1. Shown!inner(t, "channels") = p.channels
    BY <1>3, <1>4 DEF Shown!inner, Shown!Written
  <2>2. p.channels \in Seq(Words \cup {Wrong})
    BY <1>2
  <2>3. Held(t, "channels", Seq(Words \cup {Wrong}))
    BY <2>1, <2>2 DEF Held, Shown!inner
  <2>. QED
    BY <1>2, <2>1, <2>3, ListRead
<1>. HIDE DEF t
<1>. QED
  BY <1>1, <1>2, <1>5, <1>6, <1>7, <1>8, <1>9, <1>10 DEF Shown!waveform_ctor

LEMMA LabelTyped ==
  \A x \in Texts : \A default : (IF x \in Blanks \/ x = default THEN None ELSE x) \in Labels
BY SettingsAssumption DEF Labels

LEMMA WaveformEdited ==
  ASSUME NEW p \in Waveforms
  PROVE  Shown!waveform_ui(p) \subseteq Waveforms
<1>1. ASSUME NEW l \in Labels PROVE [p EXCEPT !.label = l] \in Waveforms
  BY DEF Waveforms
<1>2. ASSUME NEW default PROVE Shown!label_config_row(p, default) \subseteq Waveforms
  BY <1>1, LabelTyped DEF Shown!label_config_row
<1>3. ASSUME NEW n \in Spans PROVE [p EXCEPT !.span = n] \in Waveforms
  BY DEF Waveforms
<1>4. Shown!window_config_row(p) \subseteq Waveforms
  BY <1>3, SettingsAssumption DEF Shown!window_config_row, Spans
<1>5. ASSUME NEW x \in Texts PROVE [p EXCEPT !.y_unit = x] \in Waveforms
  BY SettingsAssumption DEF Waveforms
<1>6. [p EXCEPT !.cursors = ~@] \in Waveforms /\ [p EXCEPT !.dots = ~@] \in Waveforms
  BY DEF Waveforms
<1>. QED
  BY <1>2, <1>4, <1>5, <1>6 DEF Shown!waveform_ui

-----------------------------------------------------------------------------
LEMMA ScatterBuilt ==
  ASSUME NEW t, Readable("xy_scatter", t)
  PROVE  Shown!xy_scatter_ctor(t) \subseteq Scatters
<1>. DEFINE span == Shown!opt(t, "time_window_s", None)
            x == Shown!opt(t, "x_channel", "")
            y == Shown!opt(t, "y_channel", "")
            l == Shown!opt_label(t)
            p == [type |-> "xy_scatter", label |-> l, span |-> span, channels |-> <<x, y>>]
<1>1. l \in Labels
  BY LabelRead DEF Readable
<1>2. span \in Spans /\ x \in Words /\ y \in Words
  BY SettingsAssumption DEF Readable, Held, Shown!opt, Spans
<1>3. Shown!xy_scatter_ctor(t) = {p}
  BY DEF Shown!xy_scatter_ctor
<1>. HIDE DEF span, x, y, l
<1>4. p \in Scatters
  BY <1>1, <1>2 DEF Scatters
<1>. QED
  BY <1>3, <1>4

LEMMA ScatterKept ==
  ASSUME NEW p \in Scatters
  PROVE  Shown!xy_scatter_ctor(Shown!xy_scatter_serialize(p)) = {p}
<1>. DEFINE r == [x_channel |-> p.channels[1], y_channel |-> p.channels[2],
                  time_window_s |-> p.span, label |-> p.label]
            d == [time_window_s |-> None, label |-> None]
            t == Shown!Written(r, d)
<1>1. Shown!xy_scatter_serialize(p) = t
  BY DEF Shown!xy_scatter_serialize
<1>2. PICK x \in Words, y \in Words : p.channels = <<x, y>>
  BY DEF Scatters
<1>3. /\ p.label \in Labels /\ p.span \in Spans /\ p.channels[1] = x /\ p.channels[2] = y
      /\ p = [type |-> "xy_scatter", label |-> p.label, span |-> p.span, channels |-> <<x, y>>]
  BY <1>2 DEF Scatters
<1>4. /\ r["x_channel"] = x /\ r["y_channel"] = y /\ r["time_window_s"] = p.span
      /\ r["label"] = p.label /\ DOMAIN r = {"x_channel", "y_channel", "time_window_s", "label"}
  BY <1>3
<1>5. /\ d["time_window_s"] = None /\ d["label"] = None /\ DOMAIN d = {"time_window_s", "label"}
  OBVIOUS
<1>. HIDE DEF r, d
<1>6. Shown!opt(t, "time_window_s", None) = p.span
  BY <1>3, <1>4, <1>5, SettingsAssumption DEF Shown!opt, Shown!Written, Spans
<1>7. Shown!opt(t, "x_channel", "") = x /\ Shown!opt(t, "y_channel", "") = y
  BY <1>4, <1>5, SettingsAssumption DEF Shown!opt, Shown!Written
<1>8. Shown!opt_label(t) = p.label
  BY <1>3, <1>4, <1>5, LabelReadBack
<1>. HIDE DEF t
<1>. QED
  BY <1>1, <1>3, <1>6, <1>7, <1>8 DEF Shown!xy_scatter_ctor

LEMMA ScatterEdited ==
  ASSUME NEW p \in Scatters
  PROVE  Shown!xy_scatter_ui(p) \subseteq Scatters
<1>1. ASSUME NEW l \in Labels PROVE [p EXCEPT !.label = l] \in Scatters
  BY DEF Scatters
<1>2. ASSUME NEW default PROVE Shown!label_config_row(p, default) \subseteq Scatters
  BY <1>1, LabelTyped DEF Shown!label_config_row
<1>3. ASSUME NEW n \in Spans PROVE [p EXCEPT !.span = n] \in Scatters
  BY DEF Scatters
<1>4. Shown!window_config_row(p) \subseteq Scatters
  BY <1>3, SettingsAssumption DEF Shown!window_config_row, Spans
<1>. QED
  BY <1>2, <1>4 DEF Shown!xy_scatter_ui

-----------------------------------------------------------------------------
LEMMA LogBuilt ==
  ASSUME NEW t, Readable("log", t)
  PROVE  Shown!log_ctor(t) \subseteq Logs
<1>. DEFINE lines == IF Shown!opt(t, "max_lines", 500) < 1 THEN 1 ELSE Shown!opt(t, "max_lines", 500)
            p == [type |-> "log", channels |-> Shown!opt_str_array(t, "channels"),
                  label |-> Shown!opt_label(t), max_lines |-> lines, filter |-> ""]
<1>1. Shown!opt_str_array(t, "channels") \in Seq(Words) /\ Shown!opt_label(t) \in Labels
  BY ListRead, LabelRead DEF Readable
<1>2. Shown!opt(t, "max_lines", 500) \in Int
  <2>1. Held(t, "max_lines", Int \cup {Wrong})
    BY DEF Readable
  <2>. QED
    BY <2>1, NumberRead
<1>3. lines \in Nat \ {0}
  BY <1>2
<1>4. p \in Logs
  BY <1>1, <1>3, SettingsAssumption DEF Logs
<1>5. Shown!log_ctor(t) = {p}
  BY DEF Shown!log_ctor
<1>. QED
  BY <1>4, <1>5

LEMMA LogKept ==
  ASSUME NEW p \in Logs
  PROVE  Shown!log_ctor(Shown!log_serialize(p)) = {[p EXCEPT !.filter = ""]}
<1>. DEFINE r == [channels |-> p.channels, max_lines |-> p.max_lines, label |-> p.label]
            d == [label |-> None]
            t == Shown!Written(r, d)
<1>1. Shown!log_serialize(p) = t
  BY DEF Shown!log_serialize
<1>2. p.channels \in Seq(Words) /\ p.label \in Labels /\ p.max_lines \in Nat \ {0}
  BY DEF Logs
<1>3. /\ r["channels"] = p.channels /\ r["max_lines"] = p.max_lines /\ r["label"] = p.label
      /\ DOMAIN r = {"channels", "max_lines", "label"}
  OBVIOUS
<1>4. d["label"] = None /\ DOMAIN d = {"label"}
  OBVIOUS
<1>. HIDE DEF r, d
<1>5. Shown!opt(t, "max_lines", 500) = p.max_lines
  <2>1. p.max_lines # Wrong
    <3>1. p.max_lines \in Int
      BY <1>2
    <3>. QED
      BY <3>1, SettingsAssumption
  <2>. QED
    BY <1>3, <1>4, <2>1 DEF Shown!opt, Shown!Written
<1>6. Shown!opt_label(t) = p.label
  BY <1>2, <1>3, <1>4, LabelReadBack
<1>7. Shown!opt_str_array(t, "channels") = p.channels
  <2>1. Shown!inner(t, "channels") = p.channels
    BY <1>3, <1>4 DEF Shown!inner, Shown!Written
  <2>2. p.channels \in Seq(Words \cup {Wrong})
    BY <1>2
  <2>3. Held(t, "channels", Seq(Words \cup {Wrong}))
    BY <2>1, <2>2 DEF Held, Shown!inner
  <2>. QED
    BY <1>2, <2>1, <2>3, ListRead
<1>8. ~(p.max_lines < 1)
  <2>1. p.max_lines \in Nat \ {0}
    BY <1>2
  <2>. QED
    BY <2>1
<1>9. [p EXCEPT !.filter = ""] = [type |-> "log", channels |-> p.channels, label |-> p.label,
                                  max_lines |-> p.max_lines, filter |-> ""]
  <2>. DEFINE q == [p EXCEPT !.filter = ""]
  <2>1. q \in Logs
    BY SettingsAssumption DEF Logs
  <2>2. q.channels = p.channels /\ q.label = p.label /\ q.max_lines = p.max_lines /\ q.filter = ""
    BY DEF Logs
  <2>. HIDE DEF q
  <2>3. q = [type |-> "log", channels |-> q.channels, label |-> q.label,
             max_lines |-> q.max_lines, filter |-> q.filter]
    BY <2>1 DEF Logs
  <2>4. q = [type |-> "log", channels |-> p.channels, label |-> p.label,
             max_lines |-> p.max_lines, filter |-> ""]
    BY <2>2, <2>3, Zenon
  <2>5. [p EXCEPT !.filter = ""] = q
    BY DEF q
  <2>. QED
    BY <2>4, <2>5, Zenon
<1>. HIDE DEF t
<1>. QED
  BY <1>1, <1>5, <1>6, <1>7, <1>8, <1>9 DEF Shown!log_ctor

LEMMA LogEdited ==
  ASSUME NEW p \in Logs
  PROVE  Shown!log_ui(p) \subseteq Logs
<1>1. ASSUME NEW l \in Labels PROVE [p EXCEPT !.label = l] \in Logs
  BY DEF Logs
<1>2. ASSUME NEW default PROVE Shown!label_config_row(p, default) \subseteq Logs
  BY <1>1, LabelTyped DEF Shown!label_config_row
<1>3. ASSUME NEW x \in Texts PROVE [p EXCEPT !.filter = x] \in Logs
  BY SettingsAssumption DEF Logs
<1>4. ASSUME NEW n \in Numbers, n >= 1 PROVE [p EXCEPT !.max_lines = n] \in Logs
  <2>1. n \in Int
    BY SettingsAssumption
  <2>2. n \in Nat \ {0}
    BY <1>4, <2>1
  <2>. QED
    BY <2>2 DEF Logs
<1>. QED
  BY <1>2, <1>3, <1>4 DEF Shown!log_ui

-----------------------------------------------------------------------------
LEMMA RowsKept ==
  ASSUME NEW S, NEW s \in Seq(S), NEW r \in S
  PROVE  /\ \A i \in DOMAIN s : Shown!ReplaceAt(s, i, r) \in Seq(S)
         /\ \A i \in DOMAIN s : Shown!RemoveAt(s, i) \in Seq(S)
         /\ Append(s, r) \in Seq(S)
<1>1. ASSUME NEW i \in DOMAIN s PROVE Shown!ReplaceAt(s, i, r) \in Seq(S)
  BY DEF Shown!ReplaceAt
<1>2. ASSUME NEW i \in DOMAIN s PROVE Shown!RemoveAt(s, i) \in Seq(S)
  <2>1. i \in 1..Len(s)
    OBVIOUS
  <2>. QED
    BY <2>1, OneRemoved DEF Shown!RemoveAt
<1>. QED
  BY <1>1, <1>2

(* The settings of thresholds.                                              *)
LEMMA ThresholdsEdited ==
  ASSUME NEW p, p.thresholds \in Seq(ThresholdRows),
         NEW q \in Shown!thresholds_ui(p)
  PROVE  \/ \E rows \in Seq(ThresholdRows) : q = [p EXCEPT !.thresholds = rows]
         \/ \E base \in Bases : q = [p EXCEPT !.base = base]
<1>. DEFINE s == p.thresholds
            edits(r) == {[r EXCEPT !.value = n] : n \in Numbers} \cup {[r EXCEPT !.color = c] : c \in Hues}
            fresh == [value |-> 0, color |-> "yellow"]
            changed(i) == {Shown!ReplaceAt(s, i, r) : r \in edits(s[i])} \cup {Shown!RemoveAt(s, i)}
            longer == {Append(s, fresh) : x \in {y \in {1} : Len(s) < MaxRows}}
            lists == (UNION {changed(i) : i \in DOMAIN s}) \cup longer
            bases == {None, "gray"} \cup IF p.base = None THEN {} ELSE Hues
<1>1. Shown!thresholds_ui(p) =
        {[p EXCEPT !.thresholds = rows] : rows \in lists} \cup {[p EXCEPT !.base = c] : c \in bases}
  BY DEF Shown!thresholds_ui, Shown!Rows
<1>2. \A i \in DOMAIN s : s[i] \in ThresholdRows
  BY ElementOfSeq
<1>3. \A r \in ThresholdRows : edits(r) \subseteq ThresholdRows
  BY SettingsAssumption DEF ThresholdRows
<1>4. fresh \in ThresholdRows
  <2>1. "yellow" \in Words
    BY SettingsAssumption
  <2>. QED
    BY <2>1 DEF ThresholdRows
<1>. HIDE DEF edits, fresh
<1>5. lists \subseteq Seq(ThresholdRows)
  <2>1. \A i \in DOMAIN s : \A r \in edits(s[i]) : Shown!ReplaceAt(s, i, r) \in Seq(ThresholdRows)
    BY <1>2, <1>3, RowsKept
  <2>2. \A i \in DOMAIN s : Shown!RemoveAt(s, i) \in Seq(ThresholdRows)
    BY <1>4, RowsKept
  <2>3. Append(s, fresh) \in Seq(ThresholdRows)
    BY <1>4
  <2>. HIDE DEF s
  <2>4. \A i \in DOMAIN s : changed(i) \subseteq Seq(ThresholdRows)
    BY <2>1, <2>2
  <2>5. longer \subseteq Seq(ThresholdRows)
    BY <2>3
  <2>. HIDE DEF changed, longer
  <2>. QED
    BY <2>4, <2>5
<1>6. bases \subseteq Bases
  BY SettingsAssumption DEF Bases
<1>. HIDE DEF lists, bases
<1>. QED
  BY <1>1, <1>5, <1>6

LEMMA StatesEdited ==
  ASSUME NEW p, p.states \in Seq(StateRows), NEW q \in Shown!states_ui(p)
  PROVE  \E rows \in Seq(StateRows) : q = [p EXCEPT !.states = rows]
<1>. DEFINE s == p.states
            edits(r) ==
              {[r EXCEPT !.match = x] : x \in Texts} \cup {[r EXCEPT !.color = c] : c \in Hues}
              \cup {[r EXCEPT !.label = IF x \in Blanks THEN None ELSE x] : x \in Texts}
            fresh == [match |-> "", label |-> None, color |-> "gray"]
            changed(i) == {Shown!ReplaceAt(s, i, r) : r \in edits(s[i])} \cup {Shown!RemoveAt(s, i)}
            longer == {Append(s, fresh) : x \in {y \in {1} : Len(s) < MaxRows}}
            lists == (UNION {changed(i) : i \in DOMAIN s}) \cup longer
<1>1. Shown!states_ui(p) = {[p EXCEPT !.states = rows] : rows \in lists}
  BY DEF Shown!states_ui, Shown!Rows
<1>2. \A i \in DOMAIN s : s[i] \in StateRows
  BY ElementOfSeq
<1>3. \A r \in StateRows : edits(r) \subseteq StateRows
  <2>. TAKE r \in StateRows
  <2>1. \A x \in Texts : [r EXCEPT !.match = x] \in StateRows
    BY SettingsAssumption DEF StateRows
  <2>2. \A c \in Hues : [r EXCEPT !.color = c] \in StateRows
    BY SettingsAssumption DEF StateRows
  <2>3. \A x \in Texts : (IF x \in Blanks THEN None ELSE x) \in Labels
    BY SettingsAssumption DEF Labels
  <2>4. \A l \in Labels : [r EXCEPT !.label = l] \in StateRows
    BY DEF StateRows
  <2>. QED
    BY <2>1, <2>2, <2>3, <2>4
<1>4. fresh \in StateRows
  BY SettingsAssumption DEF StateRows, Labels
<1>. HIDE DEF edits, fresh
<1>5. lists \subseteq Seq(StateRows)
  <2>1. \A i \in DOMAIN s : \A r \in edits(s[i]) : Shown!ReplaceAt(s, i, r) \in Seq(StateRows)
    BY <1>2, <1>3, RowsKept
  <2>2. \A i \in DOMAIN s : Shown!RemoveAt(s, i) \in Seq(StateRows)
    BY <1>4, RowsKept
  <2>3. Append(s, fresh) \in Seq(StateRows)
    BY <1>4
  <2>. HIDE DEF s
  <2>4. \A i \in DOMAIN s : changed(i) \subseteq Seq(StateRows)
    BY <2>1, <2>2
  <2>5. longer \subseteq Seq(StateRows)
    BY <2>3
  <2>. HIDE DEF changed, longer
  <2>. QED
    BY <2>4, <2>5
<1>. HIDE DEF lists
<1>. QED
  BY <1>1, <1>5

(* Thresholds that are read back. *)
LEMMA ThresholdsReadBack ==
  ASSUME NEW r, NEW d, "thresholds" \in DOMAIN r, "thresholds" \in DOMAIN d, d["thresholds"] = <<>>,
         r["thresholds"] \in Seq(ThresholdRows)
  PROVE  Shown!thresholds_from(Shown!Written(r, d)) = r["thresholds"]
<1>. DEFINE t == Shown!Written(r, d)
            R == [value : Int \cup {Wrong}, color : Words \cup {Wrong}]
<1>1. Shown!inner(t, "thresholds") = r["thresholds"]
  BY DEF Shown!inner, Shown!Written
<1>2. r["thresholds"] \in Seq(R)
  <2>1. ThresholdRows \subseteq R
    BY DEF ThresholdRows
  <2>. HIDE DEF R
  <2>. QED
    BY <2>1
<1>3. Held(t, "thresholds", Seq(R))
  BY <1>1, <1>2 DEF Held, Shown!inner
<1>. QED
  BY <1>1, <1>3, ThresholdsRead

-----------------------------------------------------------------------------
LEMMA NumericBuilt ==
  ASSUME NEW t, Readable("numeric", t)
  PROVE  Shown!numeric_ctor(t) \subseteq Numerics
<1>. DEFINE c == Shown!opt(t, "channel", "")
            u == Shown!opt(t, "unit", "")
            b == Shown!opt(t, "base_color", None)
            l == Shown!opt_label(t)
            h == Shown!thresholds_from(t)
            p == [type |-> "numeric", channels |-> <<c>>, label |-> l, unit |-> u,
                  thresholds |-> h, base |-> b]
<1>1. l \in Labels /\ h \in Seq(ThresholdRows)
  BY LabelRead, ThresholdsRead DEF Readable
<1>2. c \in Words /\ u \in Words /\ b \in Bases
  BY SettingsAssumption DEF Readable, Held, Shown!opt, Bases
<1>3. Shown!numeric_ctor(t) = {p}
  BY DEF Shown!numeric_ctor
<1>. HIDE DEF c, u, b, l, h
<1>4. p \in Numerics
  BY <1>1, <1>2 DEF Numerics
<1>. QED
  BY <1>3, <1>4

LEMMA NumericKept ==
  ASSUME NEW p \in Numerics
  PROVE  Shown!numeric_ctor(Shown!numeric_serialize(p)) = {p}
<1>. DEFINE r == [channel |-> p.channels[1], label |-> p.label, unit |-> p.unit,
                  thresholds |-> p.thresholds, base_color |-> p.base]
            d == [label |-> None, unit |-> "", thresholds |-> <<>>, base_color |-> None]
            t == Shown!Written(r, d)
<1>1. Shown!numeric_serialize(p) = t
  BY DEF Shown!numeric_serialize
<1>2. PICK c \in Words : p.channels = <<c>>
  BY DEF Numerics
<1>3. /\ p.label \in Labels /\ p.unit \in Words /\ p.thresholds \in Seq(ThresholdRows)
      /\ p.base \in Bases
  BY DEF Numerics
<1>4. /\ r["channel"] = c /\ r["label"] = p.label /\ r["unit"] = p.unit
      /\ r["thresholds"] = p.thresholds /\ r["base_color"] = p.base
      /\ DOMAIN r = {"channel", "label", "unit", "thresholds", "base_color"}
  BY <1>2
<1>5. /\ d["label"] = None /\ d["unit"] = "" /\ d["thresholds"] = <<>> /\ d["base_color"] = None
      /\ DOMAIN d = {"label", "unit", "thresholds", "base_color"}
  OBVIOUS
<1>. HIDE DEF r, d
<1>6. Shown!opt(t, "channel", "") = c /\ Shown!opt(t, "unit", "") = p.unit
  BY <1>3, <1>4, <1>5, SettingsAssumption DEF Shown!opt, Shown!Written
<1>7. Shown!opt(t, "base_color", None) = p.base
  BY <1>3, <1>4, <1>5, SettingsAssumption DEF Shown!opt, Shown!Written, Bases
<1>8. Shown!opt_label(t) = p.label
  BY <1>3, <1>4, <1>5, LabelReadBack
<1>9. Shown!thresholds_from(t) = p.thresholds
  BY <1>3, <1>4, <1>5, ThresholdsReadBack
<1>10. p = [type |-> "numeric", channels |-> <<c>>, label |-> p.label, unit |-> p.unit,
            thresholds |-> p.thresholds, base |-> p.base]
  BY <1>2 DEF Numerics
<1>. HIDE DEF t
<1>. QED
  BY <1>1, <1>6, <1>7, <1>8, <1>9, <1>10 DEF Shown!numeric_ctor

LEMMA NumericEdited ==
  ASSUME NEW p \in Numerics
  PROVE  Shown!numeric_ui(p) \subseteq Numerics
<1>1. ASSUME NEW l \in Labels PROVE [p EXCEPT !.label = l] \in Numerics
  BY DEF Numerics
<1>2. ASSUME NEW default PROVE Shown!label_config_row(p, default) \subseteq Numerics
  BY <1>1, LabelTyped DEF Shown!label_config_row
<1>3. ASSUME NEW x \in Texts PROVE [p EXCEPT !.unit = x] \in Numerics
  BY SettingsAssumption DEF Numerics
<1>4. ASSUME NEW rows \in Seq(ThresholdRows) PROVE [p EXCEPT !.thresholds = rows] \in Numerics
  BY DEF Numerics
<1>5. ASSUME NEW b \in Bases PROVE [p EXCEPT !.base = b] \in Numerics
  BY DEF Numerics
<1>6. Shown!thresholds_ui(p) \subseteq Numerics
  <2>1. p.thresholds \in Seq(ThresholdRows)
    BY DEF Numerics
  <2>. QED
    BY <1>4, <1>5, <2>1, ThresholdsEdited
<1>. QED
  BY <1>2, <1>3, <1>6 DEF Shown!numeric_ui

-----------------------------------------------------------------------------
Styles == {"bar", "vertical", "led", "arc"}
Scales ==
  [type : {"gauge"}, channels : {<<c>> : c \in Words}, label : Labels, min : Int, max : Int,
   style : Styles, thresholds : Seq(ThresholdRows), base : Bases]

LEMMA GaugesAreScales == Gauges = {g \in Scales : g.max > g.min}
BY DEF Gauges, Scales, Styles

LEMMA GaugeBuilt ==
  ASSUME NEW t, Readable("gauge", t)
  PROVE  Shown!gauge_ctor(t) \subseteq Gauges
<1>. DEFINE c == Shown!opt(t, "channel", "")
            l == Shown!opt_label(t)
            lo == Shown!opt(t, "min", 0)
            hi == Shown!opt(t, "max", 100)
            k == Shown!opt(t, "style", "")
            style == IF k \in {"vertical", "led", "arc"} THEN k ELSE "bar"
            h == Shown!thresholds_from(t)
            b == Shown!opt(t, "base_color", None)
            p == [type |-> "gauge", channels |-> <<c>>, label |-> l, min |-> lo, max |-> hi,
                  style |-> style, thresholds |-> h, base |-> b]
<1>1. l \in Labels /\ h \in Seq(ThresholdRows)
  BY LabelRead, ThresholdsRead DEF Readable
<1>2. c \in Words /\ b \in Bases
  BY SettingsAssumption DEF Readable, Held, Shown!opt, Bases
<1>3. lo \in Int /\ hi \in Int
  <2>1. Held(t, "min", Int \cup {Wrong}) /\ Held(t, "max", Int \cup {Wrong})
    BY DEF Readable
  <2>. QED
    BY <2>1, NumberRead
<1>4. style \in Styles
  BY DEF Styles
<1>5. Shown!gauge_ctor(t) = {q \in {p} : q.max > q.min}
  BY DEF Shown!gauge_ctor
<1>. HIDE DEF c, l, lo, hi, style, h, b
<1>6. p \in Scales
  BY <1>1, <1>2, <1>3, <1>4 DEF Scales
<1>. HIDE DEF p
<1>. QED
  BY <1>5, <1>6, GaugesAreScales

LEMMA GaugeKept ==
  ASSUME NEW p \in Gauges
  PROVE  Shown!gauge_ctor(Shown!gauge_serialize(p)) = {p}
<1>. DEFINE r == [channel |-> p.channels[1], min |-> p.min, max |-> p.max, style |-> p.style,
                  label |-> p.label, thresholds |-> p.thresholds, base_color |-> p.base]
            d == [style |-> "bar", label |-> None, thresholds |-> <<>>, base_color |-> None]
            t == Shown!Written(r, d)
            k == Shown!opt(t, "style", "")
            style == IF k \in {"vertical", "led", "arc"} THEN k ELSE "bar"
<1>1. Shown!gauge_serialize(p) = t
  BY DEF Shown!gauge_serialize
<1>2. p \in Scales /\ p.max > p.min
  BY GaugesAreScales
<1>3. PICK c \in Words : p.channels = <<c>>
  BY <1>2 DEF Scales
<1>4. /\ p.label \in Labels /\ p.thresholds \in Seq(ThresholdRows) /\ p.base \in Bases
      /\ p.style \in Styles /\ p.min \in Int /\ p.max \in Int
  BY <1>2 DEF Scales
<1>5. /\ r["channel"] = c /\ r["min"] = p.min /\ r["max"] = p.max /\ r["style"] = p.style
      /\ r["label"] = p.label /\ r["thresholds"] = p.thresholds /\ r["base_color"] = p.base
      /\ DOMAIN r = {"channel", "min", "max", "style", "label", "thresholds", "base_color"}
  BY <1>3
<1>6. /\ d["style"] = "bar" /\ d["label"] = None /\ d["thresholds"] = <<>>
      /\ d["base_color"] = None /\ DOMAIN d = {"style", "label", "thresholds", "base_color"}
  OBVIOUS
<1>. HIDE DEF r, d
<1>7. Shown!opt(t, "channel", "") = c
  BY <1>5, <1>6, SettingsAssumption DEF Shown!opt, Shown!Written
<1>8. Shown!opt(t, "min", 0) = p.min /\ Shown!opt(t, "max", 100) = p.max
  <2>1. p.min # Wrong /\ p.max # Wrong
    BY <1>4, SettingsAssumption
  <2>. QED
    BY <1>5, <1>6, <2>1 DEF Shown!opt, Shown!Written
<1>9. style = p.style
  <2>1. p.style # Wrong
    BY <1>4, SettingsAssumption DEF Styles
  <2>2. k = IF p.style = "bar" THEN "" ELSE p.style
    BY <1>5, <1>6, <2>1 DEF Shown!opt, Shown!Written
  <2>. HIDE DEF k
  <2>. QED
    BY <1>4, <2>2 DEF Styles
<1>10. Shown!opt(t, "base_color", None) = p.base
  BY <1>4, <1>5, <1>6, SettingsAssumption DEF Shown!opt, Shown!Written, Bases
<1>11. Shown!opt_label(t) = p.label
  BY <1>4, <1>5, <1>6, LabelReadBack
<1>12. Shown!thresholds_from(t) = p.thresholds
  BY <1>4, <1>5, <1>6, ThresholdsReadBack
<1>13. p = [type |-> "gauge", channels |-> <<c>>, label |-> p.label, min |-> p.min,
            max |-> p.max, style |-> p.style, thresholds |-> p.thresholds, base |-> p.base]
  BY <1>2, <1>3 DEF Scales
<1>14. Shown!gauge_ctor(t) =
         {q \in {[type |-> "gauge", channels |-> <<Shown!opt(t, "channel", "")>>,
                  label |-> Shown!opt_label(t), min |-> Shown!opt(t, "min", 0),
                  max |-> Shown!opt(t, "max", 100), style |-> style,
                  thresholds |-> Shown!thresholds_from(t),
                  base |-> Shown!opt(t, "base_color", None)]} : q.max > q.min}
  BY DEF Shown!gauge_ctor
<1>. HIDE DEF t, style
<1>15. Shown!gauge_ctor(t) = {q \in {p} : q.max > q.min}
  BY <1>7, <1>8, <1>9, <1>10, <1>11, <1>12, <1>13, <1>14
<1>. QED
  BY <1>1, <1>2, <1>15

LEMMA GaugeEdited ==
  ASSUME NEW p \in Gauges
  PROVE  Shown!gauge_ui(p) \subseteq Gauges
<1>. DEFINE Valid(q) == IF q.max <= q.min THEN [q EXCEPT !.max = q.min + 1] ELSE q
<1>0. p \in Scales /\ p.max > p.min
  BY GaugesAreScales
<1>1. ASSUME NEW l \in Labels PROVE [p EXCEPT !.label = l] \in Gauges
  BY <1>0, GaugesAreScales DEF Scales
<1>2. ASSUME NEW default PROVE Shown!label_config_row(p, default) \subseteq Gauges
  BY <1>1, LabelTyped DEF Shown!label_config_row
<1>3. ASSUME NEW s \in Styles PROVE [p EXCEPT !.style = s] \in Gauges
  BY <1>0, GaugesAreScales DEF Scales
<1>4. ASSUME NEW rows \in Seq(ThresholdRows) PROVE [p EXCEPT !.thresholds = rows] \in Gauges
  BY <1>0, GaugesAreScales DEF Scales
<1>5. ASSUME NEW b \in Bases PROVE [p EXCEPT !.base = b] \in Gauges
  BY <1>0, GaugesAreScales DEF Scales
<1>6. Shown!thresholds_ui(p) \subseteq Gauges
  <2>1. p.thresholds \in Seq(ThresholdRows)
    BY <1>0 DEF Scales
  <2>. QED
    BY <1>4, <1>5, <2>1, ThresholdsEdited
<1>7. ASSUME NEW q \in Scales PROVE Valid(q) \in Gauges
  <2>1. q.min \in Int /\ q.max \in Int
    BY DEF Scales
  <2>2. CASE q.max <= q.min
    <3>. DEFINE m == q.min + 1
    <3>1. m \in Int /\ m > q.min
      BY <2>1
    <3>. HIDE DEF m
    <3>2. [q EXCEPT !.max = m] \in Scales
      BY <3>1 DEF Scales
    <3>3. [q EXCEPT !.max = m].max = m /\ [q EXCEPT !.max = m].min = q.min
      BY DEF Scales
    <3>4. Valid(q) = [q EXCEPT !.max = m]
      BY <2>2 DEF m
    <3>. QED
      BY <3>1, <3>2, <3>3, <3>4, GaugesAreScales
  <2>3. CASE ~(q.max <= q.min)
    BY <2>1, <2>3, GaugesAreScales
  <2>. QED
    BY <2>2, <2>3
<1>. HIDE DEF Valid
<1>8. ASSUME NEW n \in Numbers
      PROVE  Valid([p EXCEPT !.min = n]) \in Gauges /\ Valid([p EXCEPT !.max = n]) \in Gauges
  <2>1. n \in Int
    BY SettingsAssumption
  <2>2. [p EXCEPT !.min = n] \in Scales /\ [p EXCEPT !.max = n] \in Scales
    BY <1>0, <2>1 DEF Scales
  <2>. QED
    BY <1>7, <2>2
<1>9. Shown!gauge_ui(p) =
        Shown!label_config_row(p, p.channels[1])
        \cup {[p EXCEPT !.style = s] : s \in Styles}
        \cup {Valid([p EXCEPT !.min = n]) : n \in Numbers}
        \cup {Valid([p EXCEPT !.max = n]) : n \in Numbers}
        \cup Shown!thresholds_ui(p)
  BY DEF Shown!gauge_ui, Styles, Valid
<1>. QED
  BY <1>2, <1>3, <1>6, <1>8, <1>9

-----------------------------------------------------------------------------
LEMMA StatusBuilt ==
  ASSUME NEW t, Readable("status", t)
  PROVE  Shown!status_ctor(t) \subseteq Statuses
<1>. DEFINE c == Shown!opt(t, "channel", "")
            l == Shown!opt_label(t)
            s == Shown!states_from(t)
            p == [type |-> "status", channels |-> <<c>>, label |-> l, states |-> s]
<1>1. l \in Labels
  BY LabelRead DEF Readable
<1>2. s \in Seq(StateRows)
  BY StatesRead DEF Readable, FileRows
<1>3. c \in Words
  BY SettingsAssumption DEF Readable, Held, Shown!opt
<1>4. Shown!status_ctor(t) = {p}
  BY DEF Shown!status_ctor
<1>. HIDE DEF c, l, s
<1>5. p \in Statuses
  BY <1>1, <1>2, <1>3 DEF Statuses
<1>. QED
  BY <1>4, <1>5

LEMMA StatusKept ==
  ASSUME NEW p \in Statuses
  PROVE  Shown!status_ctor(Shown!status_serialize(p)) = {p}
<1>. DEFINE r == [channel |-> p.channels[1], label |-> p.label, states |-> p.states]
            d == [label |-> None, states |-> <<>>]
            t == Shown!Written(r, d)
<1>1. Shown!status_serialize(p) = t
  BY DEF Shown!status_serialize
<1>2. PICK c \in Words : p.channels = <<c>>
  BY DEF Statuses
<1>3. p.label \in Labels /\ p.states \in Seq(StateRows)
  BY DEF Statuses
<1>4. /\ r["channel"] = c /\ r["label"] = p.label /\ r["states"] = p.states
      /\ DOMAIN r = {"channel", "label", "states"}
  BY <1>2
<1>5. d["label"] = None /\ d["states"] = <<>> /\ DOMAIN d = {"label", "states"}
  OBVIOUS
<1>. HIDE DEF r, d
<1>6. Shown!opt(t, "channel", "") = c
  BY <1>4, <1>5, SettingsAssumption DEF Shown!opt, Shown!Written
<1>7. Shown!opt_label(t) = p.label
  BY <1>3, <1>4, <1>5, LabelReadBack
<1>8. Shown!states_from(t) = p.states
  <2>1. Shown!inner(t, "states") = p.states
    BY <1>4, <1>5 DEF Shown!inner, Shown!Written
  <2>2. p.states \in Seq(FileRows)
    <3>1. StateRows \subseteq FileRows
      BY DEF StateRows, FileRows, Labels
    <3>. QED
      BY <1>3, <3>1
  <2>3. Held(t, "states", Seq(FileRows))
    BY <2>1, <2>2 DEF Held, Shown!inner
  <2>. QED
    BY <1>3, <2>1, <2>3, StatesRead
<1>9. p = [type |-> "status", channels |-> <<c>>, label |-> p.label, states |-> p.states]
  BY <1>2 DEF Statuses
<1>. HIDE DEF t
<1>. QED
  BY <1>1, <1>6, <1>7, <1>8, <1>9 DEF Shown!status_ctor

LEMMA StatusEdited ==
  ASSUME NEW p \in Statuses
  PROVE  Shown!status_ui(p) \subseteq Statuses
<1>1. ASSUME NEW l \in Labels PROVE [p EXCEPT !.label = l] \in Statuses
  BY DEF Statuses
<1>2. ASSUME NEW default PROVE Shown!label_config_row(p, default) \subseteq Statuses
  BY <1>1, LabelTyped DEF Shown!label_config_row
<1>3. ASSUME NEW rows \in Seq(StateRows) PROVE [p EXCEPT !.states = rows] \in Statuses
  BY DEF Statuses
<1>4. p.states \in Seq(StateRows)
  BY DEF Statuses
<1>5. Shown!states_ui(p) \subseteq Statuses
  BY <1>3, <1>4, StatesEdited
<1>. QED
  BY <1>2, <1>5 DEF Shown!status_ui

-----------------------------------------------------------------------------
(* A number that is rounded up to a power of two is one. *)
LEMMA RoundedTyped ==
  ASSUME NEW n \in Int
  PROVE  /\ Shown!Rounded(n) \in Shown!Pow2
         /\ n \in Shown!Pow2 => Shown!Rounded(n) = n
<1>. DEFINE top == 65536
            R == Shown!Rounded(n)
            S == {p \in Shown!Pow2 : p >= n}
<1>1. Shown!Pow2 \subseteq Nat /\ top \in Shown!Pow2 /\ top \in Nat
  BY DEF Shown!Pow2
<1>2. \A p \in Shown!Pow2 : ~(p > top)
  BY DEF Shown!Pow2
<1>3. R = IF n > top THEN top
          ELSE CHOOSE p \in Shown!Pow2 : p >= n /\ \A q \in Shown!Pow2 : q >= n => p <= q
  BY DEF Shown!Rounded
<1>. HIDE DEF top, R
<1>4. CASE n > top
  <2>1. R = top
    BY <1>3, <1>4
  <2>2. n \notin Shown!Pow2
    BY <1>2, <1>4
  <2>. QED
    BY <1>1, <2>1, <2>2 DEF R
<1>5. CASE ~(n > top)
  <2>1. top >= n
    BY <1>1, <1>5
  <2>2. top \in S
    BY <1>1, <2>1
  <2>3. S \subseteq Nat /\ S # {}
    BY <1>1, <2>2
  <2>4. Placed!Min(S) \in S /\ \A y \in S : Placed!Min(S) <= y
    BY <2>3, Smallest
  <2>5. \E p \in Shown!Pow2 : p >= n /\ \A q \in Shown!Pow2 : q >= n => p <= q
    BY <2>4
  <2>6. R \in Shown!Pow2 /\ R >= n /\ \A q \in Shown!Pow2 : q >= n => R <= q
    BY <1>3, <1>5, <2>5
  <2>7. ASSUME n \in Shown!Pow2 PROVE R = n
    <3>1. n >= n
      OBVIOUS
    <3>2. R >= n /\ R <= n
      BY <2>6, <2>7, <3>1
    <3>3. R \in Nat
      BY <1>1, <2>6
    <3>. QED
      BY <3>2, <3>3
  <2>. QED
    BY <2>6, <2>7 DEF R
<1>. QED
  BY <1>4, <1>5

LEMMA SpectrumBuilt ==
  ASSUME NEW t, Readable("spectrum", t)
  PROVE  Shown!spectrum_ctor(t) \subseteq Spectra
<1>. DEFINE c == Shown!opt(t, "channel", "")
            l == Shown!opt_label(t)
            w == Shown!opt(t, "window", "hann")
            n == Shown!Rounded(Shown!opt(t, "fft_size", 1024))
            P(x) == [type |-> "spectrum", channels |-> <<c>>, label |-> l, fft_size |-> n,
                     hann |-> x = "hann"]
<1>1. l \in Labels
  BY LabelRead DEF Readable
<1>2. c \in Words
  BY SettingsAssumption DEF Readable, Held, Shown!opt
<1>3. n \in Shown!Pow2
  <2>1. Held(t, "fft_size", Int \cup {Wrong})
    BY DEF Readable
  <2>2. Shown!opt(t, "fft_size", 1024) \in Int
    BY <2>1, NumberRead
  <2>. QED
    BY <2>2, RoundedTyped
<1>4. Shown!spectrum_ctor(t) = {P(x) : x \in {w} \cap {"hann", "none"}}
  BY DEF Shown!spectrum_ctor
<1>. HIDE DEF c, l, w, n
<1>5. \A x : P(x) \in Spectra
  BY <1>1, <1>2, <1>3 DEF Spectra
<1>. HIDE DEF P
<1>. QED
  BY <1>4, <1>5

LEMMA SpectrumKept ==
  ASSUME NEW p \in Spectra
  PROVE  Shown!spectrum_ctor(Shown!spectrum_serialize(p)) = {p}
<1>. DEFINE r == [channel |-> p.channels[1], fft_size |-> p.fft_size,
                  window |-> IF p.hann THEN "hann" ELSE "none", label |-> p.label]
            d == [label |-> None]
            t == Shown!Written(r, d)
            w == Shown!opt(t, "window", "hann")
            P(x) == [type |-> "spectrum", channels |-> <<Shown!opt(t, "channel", "")>>,
                     label |-> Shown!opt_label(t),
                     fft_size |-> Shown!Rounded(Shown!opt(t, "fft_size", 1024)), hann |-> x = "hann"]
<1>1. Shown!spectrum_serialize(p) = t
  BY DEF Shown!spectrum_serialize
<1>2. PICK c \in Words : p.channels = <<c>>
  BY DEF Spectra
<1>3. p.label \in Labels /\ p.fft_size \in Shown!Pow2 /\ p.hann \in BOOLEAN
  BY DEF Spectra
<1>4. /\ r["channel"] = c /\ r["fft_size"] = p.fft_size /\ r["label"] = p.label
      /\ r["window"] = (IF p.hann THEN "hann" ELSE "none")
      /\ DOMAIN r = {"channel", "fft_size", "window", "label"}
  BY <1>2
<1>5. d["label"] = None /\ DOMAIN d = {"label"}
  OBVIOUS
<1>. HIDE DEF r, d
<1>6. Shown!opt(t, "channel", "") = c
  BY <1>4, <1>5, SettingsAssumption DEF Shown!opt, Shown!Written
<1>7. Shown!Rounded(Shown!opt(t, "fft_size", 1024)) = p.fft_size
  <2>1. p.fft_size \in Int
    BY <1>3 DEF Shown!Pow2
  <2>2. p.fft_size # Wrong
    BY <2>1, SettingsAssumption
  <2>3. Shown!opt(t, "fft_size", 1024) = p.fft_size
    BY <1>4, <1>5, <2>2 DEF Shown!opt, Shown!Written
  <2>. QED
    BY <1>3, <2>1, <2>3, RoundedTyped
<1>8. Shown!opt_label(t) = p.label
  BY <1>3, <1>4, <1>5, LabelReadBack
<1>9. w = (IF p.hann THEN "hann" ELSE "none")
  BY <1>4, <1>5, SettingsAssumption DEF Shown!opt, Shown!Written
<1>10. Shown!spectrum_ctor(t) = {P(x) : x \in {w} \cap {"hann", "none"}}
  BY DEF Shown!spectrum_ctor
<1>. HIDE DEF t, w
<1>11. (w = "hann") = p.hann /\ w \in {"hann", "none"}
  BY <1>3, <1>9
<1>12. p = [type |-> "spectrum", channels |-> <<c>>, label |-> p.label, fft_size |-> p.fft_size,
            hann |-> p.hann]
  BY <1>2 DEF Spectra
<1>13. P(w) = [type |-> "spectrum", channels |-> <<c>>, label |-> p.label,
               fft_size |-> p.fft_size, hann |-> (w = "hann")]
  BY <1>6, <1>7, <1>8, Zenon
<1>. HIDE DEF P
<1>14. P(w) = p
  BY <1>11, <1>12, <1>13, Zenon
<1>. QED
  BY <1>1, <1>10, <1>11, <1>14

LEMMA SpectrumEdited ==
  ASSUME NEW p \in Spectra
  PROVE  Shown!spectrum_ui(p) \subseteq Spectra
<1>1. ASSUME NEW l \in Labels PROVE [p EXCEPT !.label = l] \in Spectra
  BY DEF Spectra
<1>2. ASSUME NEW default PROVE Shown!label_config_row(p, default) \subseteq Spectra
  BY <1>1, LabelTyped DEF Shown!label_config_row
<1>3. ASSUME NEW n \in {256, 1024, 4096, 16384} PROVE [p EXCEPT !.fft_size = n] \in Spectra
  <2>1. n \in Shown!Pow2
    BY DEF Shown!Pow2
  <2>. QED
    BY <2>1 DEF Spectra
<1>4. [p EXCEPT !.hann = ~@] \in Spectra
  BY DEF Spectra
<1>. QED
  BY <1>2, <1>3, <1>4 DEF Shown!spectrum_ui

-----------------------------------------------------------------------------
LEMMA StateGraphBuilt ==
  ASSUME NEW t, Readable("state_graph", t)
  PROVE  Shown!state_graph_ctor(t) \subseteq StateGraphs
<1>. DEFINE c == Shown!opt(t, "channel", "")
            l == Shown!opt_label(t)
            m == Shown!inner(t, "states")
            states == [k \in DOMAIN m |-> IF m[k] = Wrong THEN "" ELSE m[k]]
            span == Shown!opt(t, "time_window_s", None)
            colors == Shown!Parsed(t, "colors")
            raw == Shown!Parsed(t, "aliases")
            aliases == [k \in {x \in DOMAIN raw : raw[x] # ""} |-> raw[k]]
            p == [type |-> "state_graph", channels |-> <<c>>, label |-> l, states |-> states,
                  span |-> span, colors |-> colors, aliases |-> aliases]
<1>1. l \in Labels
  BY LabelRead DEF Readable
<1>2. c \in Words /\ span \in Spans
  BY SettingsAssumption DEF Readable, Held, Shown!opt, Spans
<1>3. colors \in Maps(Int) /\ raw \in Maps(Int)
  BY MapRead DEF Readable
<1>4. DOMAIN m \subseteq Int \cup {Wrong} /\ \A k \in DOMAIN m : m[k] \in Words \cup {Wrong}
  BY DEF Readable, HeldMap, MapTo, Shown!inner
<1>5. Shown!state_graph_ctor(t) = IF Wrong \in DOMAIN m THEN {} ELSE {p}
  BY DEF Shown!state_graph_ctor
<1>. HIDE DEF c, l, m, span, colors, raw
<1>6. aliases \in UNION {[D -> Words \ {""}] : D \in SUBSET Int}
  <2>1. PICK D \in SUBSET Int : raw \in [D -> Words]
    BY <1>3 DEF Maps
  <2>. DEFINE E == {x \in DOMAIN raw : raw[x] # ""}
  <2>2. E \in SUBSET Int /\ \A k \in E : raw[k] \in Words \ {""}
    BY <2>1
  <2>. HIDE DEF E
  <2>3. [k \in E |-> raw[k]] \in [E -> Words \ {""}]
    BY <2>2
  <2>. QED
    BY <2>2, <2>3 DEF E
<1>7. ASSUME Wrong \notin DOMAIN m PROVE states \in Maps(Int)
  <2>1. DOMAIN m \in SUBSET Int
    BY <1>4, <1>7
  <2>2. \A k \in DOMAIN m : (IF m[k] = Wrong THEN "" ELSE m[k]) \in Words
    BY <1>4, SettingsAssumption
  <2>3. states \in [DOMAIN m -> Words]
    BY <2>2
  <2>. QED
    BY <2>1, <2>3 DEF Maps
<1>. HIDE DEF aliases, states
<1>8. Wrong \notin DOMAIN m => p \in StateGraphs
  BY <1>1, <1>2, <1>3, <1>6, <1>7 DEF StateGraphs
<1>. HIDE DEF p
<1>. QED
  BY <1>5, <1>8

LEMMA StateGraphKept ==
  ASSUME NEW p \in StateGraphs
  PROVE  Shown!state_graph_ctor(Shown!state_graph_serialize(p)) = {p}
<1>. DEFINE r == [channel |-> p.channels[1], states |-> p.states, time_window_s |-> p.span,
                  colors |-> p.colors, aliases |-> p.aliases, label |-> p.label]
            d == [states |-> <<>>, time_window_s |-> None, colors |-> <<>>, aliases |-> <<>>,
                  label |-> None]
            t == Shown!Written(r, d)
            m == Shown!inner(t, "states")
            states == [k \in DOMAIN m |-> IF m[k] = Wrong THEN "" ELSE m[k]]
            raw == Shown!Parsed(t, "aliases")
            aliases == [k \in {x \in DOMAIN raw : raw[x] # ""} |-> raw[k]]
<1>1. Shown!state_graph_serialize(p) = t
  BY DEF Shown!state_graph_serialize
<1>2. PICK c \in Words : p.channels = <<c>>
  BY DEF StateGraphs
<1>3. /\ p.label \in Labels /\ p.span \in Spans /\ p.states \in Maps(Int)
      /\ p.colors \in Maps(Int) /\ p.aliases \in UNION {[D -> Words \ {""}] : D \in SUBSET Int}
  BY DEF StateGraphs
<1>4. /\ r["channel"] = c /\ r["states"] = p.states /\ r["time_window_s"] = p.span
      /\ r["colors"] = p.colors /\ r["aliases"] = p.aliases /\ r["label"] = p.label
      /\ DOMAIN r = {"channel", "states", "time_window_s", "colors", "aliases", "label"}
  BY <1>2
<1>5. /\ d["states"] = <<>> /\ d["time_window_s"] = None /\ d["colors"] = <<>>
      /\ d["aliases"] = <<>> /\ d["label"] = None
      /\ DOMAIN d = {"states", "time_window_s", "colors", "aliases", "label"}
  OBVIOUS
<1>6. PICK D \in SUBSET Int : p.aliases \in [D -> Words \ {""}]
  BY <1>3
<1>. HIDE DEF r, d
<1>7. Shown!opt(t, "channel", "") = c
  BY <1>4, <1>5, SettingsAssumption DEF Shown!opt, Shown!Written
<1>8. Shown!opt(t, "time_window_s", None) = p.span
  BY <1>3, <1>4, <1>5, SettingsAssumption DEF Shown!opt, Shown!Written, Spans
<1>9. Shown!opt_label(t) = p.label
  BY <1>3, <1>4, <1>5, LabelReadBack
<1>10. Shown!Parsed(t, "colors") = p.colors
  <2>1. /\ "colors" \in DOMAIN r /\ "colors" \in DOMAIN d /\ d["colors"] = <<>>
        /\ r["colors"] \in Maps(Int)
    BY <1>3, <1>4, <1>5
  <2>. QED
    BY <1>4, <2>1, MapReadBack
<1>11. aliases = p.aliases
  <2>1. /\ "aliases" \in DOMAIN r /\ "aliases" \in DOMAIN d /\ d["aliases"] = <<>>
        /\ r["aliases"] \in Maps(Int)
    <3>1. p.aliases \in [D -> Words]
      BY <1>6
    <3>2. p.aliases \in Maps(Int)
      BY <3>1 DEF Maps
    <3>. QED
      BY <1>4, <1>5, <3>2
  <2>2. raw = p.aliases
    BY <1>4, <2>1, MapReadBack
  <2>. HIDE DEF raw
  <2>3. {x \in DOMAIN raw : raw[x] # ""} = DOMAIN raw
    BY <1>6, <2>2
  <2>4. [k \in DOMAIN raw |-> raw[k]] = raw
    BY <1>6, <2>2
  <2>. QED
    BY <2>2, <2>3, <2>4
<1>12. states = p.states /\ Wrong \notin DOMAIN m
  <2>1. m = p.states
    BY <1>4, <1>5 DEF Shown!inner, Shown!Written
  <2>2. PICK E \in SUBSET Int : p.states \in [E -> Words]
    BY <1>3 DEF Maps
  <2>. HIDE DEF m
  <2>3. \A k \in DOMAIN m : m[k] # Wrong
    BY <2>1, <2>2, SettingsAssumption
  <2>4. [k \in DOMAIN m |-> m[k]] = m
    BY <2>1, <2>2
  <2>5. states = [k \in DOMAIN m |-> m[k]]
    BY <2>3
  <2>6. Wrong \notin DOMAIN m
    BY <2>1, <2>2, SettingsAssumption
  <2>. QED
    BY <2>1, <2>4, <2>5, <2>6
<1>13. p = [type |-> "state_graph", channels |-> <<c>>, label |-> p.label, states |-> p.states,
            span |-> p.span, colors |-> p.colors, aliases |-> p.aliases]
  BY <1>2 DEF StateGraphs
<1>14. Shown!state_graph_ctor(t) =
         IF Wrong \in DOMAIN m THEN {}
         ELSE {[type |-> "state_graph", channels |-> <<Shown!opt(t, "channel", "")>>,
                label |-> Shown!opt_label(t), states |-> states,
                span |-> Shown!opt(t, "time_window_s", None), colors |-> Shown!Parsed(t, "colors"),
                aliases |-> aliases]}
  BY DEF Shown!state_graph_ctor
<1>. HIDE DEF t, states, aliases, m
<1>. QED
  BY <1>1, <1>7, <1>8, <1>9, <1>10, <1>11, <1>12, <1>13, <1>14

LEMMA StateGraphEdited ==
  ASSUME NEW p \in StateGraphs
  PROVE  Shown!state_graph_ui(p) \subseteq StateGraphs
<1>. DEFINE Aliases == UNION {[D -> Words \ {""}] : D \in SUBSET Int}
            Aliased(k, x) == [p EXCEPT !.aliases =
              IF x \in Blanks THEN [j \in DOMAIN @ \ {k} |-> @[j]] ELSE Shown!With(@, k, x)]
<1>1. ASSUME NEW l \in Labels PROVE [p EXCEPT !.label = l] \in StateGraphs
  BY DEF StateGraphs
<1>2. ASSUME NEW default PROVE Shown!label_config_row(p, default) \subseteq StateGraphs
  BY <1>1, LabelTyped DEF Shown!label_config_row
<1>3. ASSUME NEW n \in Spans PROVE [p EXCEPT !.span = n] \in StateGraphs
  BY DEF StateGraphs
<1>4. Shown!window_config_row(p) \subseteq StateGraphs
  BY <1>3, SettingsAssumption DEF Shown!window_config_row, Spans
<1>5. p.states \in Maps(Int) /\ p.colors \in Maps(Int) /\ p.aliases \in Aliases
  BY DEF StateGraphs
<1>6. DOMAIN p.states \subseteq Int
  BY <1>5 DEF Maps
<1>7. ASSUME NEW k \in DOMAIN p.states, NEW c \in Hues
      PROVE  [p EXCEPT !.colors = Shown!With(@, k, c)] \in StateGraphs
  <2>. DEFINE w == Shown!With(p.colors, k, c)
  <2>1. PICK D \in SUBSET Int : p.colors \in [D -> Words]
    BY <1>5 DEF Maps
  <2>2. k \in Int /\ c \in Words
    BY <1>6, SettingsAssumption
  <2>3. w \in [{k} \cup D -> Words]
    BY <2>1, <2>2 DEF Shown!With
  <2>4. {k} \cup D \in SUBSET Int
    BY <2>1, <2>2
  <2>5. w \in Maps(Int)
    BY <2>3, <2>4 DEF Maps
  <2>6. [p EXCEPT !.colors = Shown!With(@, k, c)] = [p EXCEPT !.colors = w]
    OBVIOUS
  <2>. HIDE DEF w
  <2>. QED
    BY <2>5, <2>6 DEF StateGraphs
<1>8. ASSUME NEW k \in DOMAIN p.states, NEW x \in Texts PROVE Aliased(k, x) \in StateGraphs
  <2>. DEFINE a == p.aliases
              w == IF x \in Blanks THEN [j \in DOMAIN a \ {k} |-> a[j]] ELSE Shown!With(a, k, x)
  <2>1. PICK D \in SUBSET Int : a \in [D -> Words \ {""}]
    BY <1>5
  <2>2. k \in Int /\ x \in Words /\ (x \notin Blanks => x # "")
    BY <1>6, SettingsAssumption
  <2>3. Aliased(k, x) = [p EXCEPT !.aliases = w]
    OBVIOUS
  <2>. HIDE DEF a
  <2>4. [j \in DOMAIN a \ {k} |-> a[j]] \in [D \ {k} -> Words \ {""}]
    BY <2>1
  <2>5. x \notin Blanks => Shown!With(a, k, x) \in [{k} \cup D -> Words \ {""}]
    BY <2>1, <2>2 DEF Shown!With
  <2>6. {k} \cup D \in SUBSET Int /\ D \ {k} \in SUBSET Int
    BY <2>1, <2>2
  <2>7. w \in Aliases
    BY <2>4, <2>5, <2>6
  <2>. HIDE DEF w, Aliased
  <2>. QED
    BY <2>3, <2>7 DEF StateGraphs
<1>9. Shown!state_graph_ui(p) =
        Shown!label_config_row(p, p.channels[1]) \cup Shown!window_config_row(p)
        \cup {[p EXCEPT !.colors = Shown!With(@, k, c)] : k \in DOMAIN p.states, c \in Hues}
        \cup {Aliased(k, x) : k \in DOMAIN p.states, x \in Texts}
  BY DEF Shown!state_graph_ui
<1>. HIDE DEF Aliased
<1>. QED
  BY <1>2, <1>4, <1>7, <1>8, <1>9

-----------------------------------------------------------------------------
(* Whatever a file says, a panel that is built remembers what a panel of    *)
(* its type may. *)
LEMMA TablesBuilt ==
  ASSUME NEW type, NEW t, Readable(type, t)
  PROVE  Shown!build(type, t) \subseteq Remembered
<1>1. CASE type = "waveform"
  BY <1>1, WaveformBuilt DEF Shown!build, Remembered
<1>2. CASE type = "state_graph"
  BY <1>2, StateGraphBuilt DEF Shown!build, Remembered
<1>3. CASE type = "numeric"
  BY <1>3, NumericBuilt DEF Shown!build, Remembered
<1>4. CASE type = "gauge"
  BY <1>4, GaugeBuilt DEF Shown!build, Remembered
<1>5. CASE type = "status"
  BY <1>5, StatusBuilt DEF Shown!build, Remembered
<1>6. CASE type = "spectrum"
  BY <1>6, SpectrumBuilt DEF Shown!build, Remembered
<1>7. CASE type = "log"
  BY <1>7, LogBuilt DEF Shown!build, Remembered
<1>8. CASE type = "xy_scatter"
  BY <1>8, ScatterBuilt DEF Shown!build, Remembered
<1>9. CASE type \notin {"waveform", "state_graph", "numeric", "gauge", "status", "spectrum",
                        "log", "xy_scatter"}
  BY <1>9 DEF Shown!build
<1>. QED
  BY <1>1, <1>2, <1>3, <1>4, <1>5, <1>6, <1>7, <1>8, <1>9

LEMMA SettingsEdited ==
  ASSUME NEW p \in Remembered
  PROVE  Shown!config_ui(p) \subseteq Remembered
<1>1. CASE p \in Waveforms
  <2>1. p.type = "waveform"
    BY <1>1 DEF Waveforms
  <2>. QED
    BY <1>1, <2>1, WaveformEdited DEF Shown!config_ui, Remembered
<1>2. CASE p \in StateGraphs
  <2>1. p.type = "state_graph"
    BY <1>2 DEF StateGraphs
  <2>. QED
    BY <1>2, <2>1, StateGraphEdited DEF Shown!config_ui, Remembered
<1>3. CASE p \in Numerics
  <2>1. p.type = "numeric"
    BY <1>3 DEF Numerics
  <2>. QED
    BY <1>3, <2>1, NumericEdited DEF Shown!config_ui, Remembered
<1>4. CASE p \in Gauges
  <2>1. p.type = "gauge"
    BY <1>4 DEF Gauges
  <2>. QED
    BY <1>4, <2>1, GaugeEdited DEF Shown!config_ui, Remembered
<1>5. CASE p \in Statuses
  <2>1. p.type = "status"
    BY <1>5 DEF Statuses
  <2>. QED
    BY <1>5, <2>1, StatusEdited DEF Shown!config_ui, Remembered
<1>6. CASE p \in Spectra
  <2>1. p.type = "spectrum"
    BY <1>6 DEF Spectra
  <2>. QED
    BY <1>6, <2>1, SpectrumEdited DEF Shown!config_ui, Remembered
<1>7. CASE p \in Logs
  <2>1. p.type = "log"
    BY <1>7 DEF Logs
  <2>. QED
    BY <1>7, <2>1, LogEdited DEF Shown!config_ui, Remembered
<1>8. CASE p \in Scatters
  <2>1. p.type = "xy_scatter"
    BY <1>8 DEF Scatters
  <2>. QED
    BY <1>8, <2>1, ScatterEdited DEF Shown!config_ui, Remembered
<1>. QED
  BY <1>1, <1>2, <1>3, <1>4, <1>5, <1>6, <1>7, <1>8 DEF Remembered

LEMMA SettingsReadBack ==
  ASSUME NEW p \in Remembered
  PROVE  /\ Shown!build(p.type, Shown!serialize(p)) =
              {IF p.type = "log" THEN [p EXCEPT !.filter = ""] ELSE p}
         /\ p.type = "log" => [p EXCEPT !.filter = ""] \in Remembered
<1>1. CASE p \in Waveforms
  <2>1. p.type = "waveform"
    BY <1>1 DEF Waveforms
  <2>. QED
    BY <1>1, <2>1, WaveformKept DEF Shown!build, Shown!serialize
<1>2. CASE p \in StateGraphs
  <2>1. p.type = "state_graph"
    BY <1>2 DEF StateGraphs
  <2>. QED
    BY <1>2, <2>1, StateGraphKept DEF Shown!build, Shown!serialize
<1>3. CASE p \in Numerics
  <2>1. p.type = "numeric"
    BY <1>3 DEF Numerics
  <2>. QED
    BY <1>3, <2>1, NumericKept DEF Shown!build, Shown!serialize
<1>4. CASE p \in Gauges
  <2>1. p.type = "gauge"
    BY <1>4 DEF Gauges
  <2>. QED
    BY <1>4, <2>1, GaugeKept DEF Shown!build, Shown!serialize
<1>5. CASE p \in Statuses
  <2>1. p.type = "status"
    BY <1>5 DEF Statuses
  <2>. QED
    BY <1>5, <2>1, StatusKept DEF Shown!build, Shown!serialize
<1>6. CASE p \in Spectra
  <2>1. p.type = "spectrum"
    BY <1>6 DEF Spectra
  <2>. QED
    BY <1>6, <2>1, SpectrumKept DEF Shown!build, Shown!serialize
<1>7. CASE p \in Logs
  <2>1. p.type = "log"
    BY <1>7 DEF Logs
  <2>2. [p EXCEPT !.filter = ""] \in Logs
    BY <1>7, SettingsAssumption DEF Logs
  <2>. QED
    BY <1>7, <2>1, <2>2, LogKept DEF Shown!build, Shown!serialize, Remembered
<1>8. CASE p \in Scatters
  <2>1. p.type = "xy_scatter"
    BY <1>8 DEF Scatters
  <2>. QED
    BY <1>8, <2>1, ScatterKept DEF Shown!build, Shown!serialize
<1>. QED
  BY <1>1, <1>2, <1>3, <1>4, <1>5, <1>6, <1>7, <1>8 DEF Remembered

LEMMA ViewInvInit == Init => ViewInv
<1>. SUFFICES ASSUME Init, scene = "settings" PROVE view \in Remembered
  BY DEF ViewInv
<1>1. Shown!Init
  BY DEF Init
<1>2. PICK type \in DOMAIN Tables : \E t \in Tables[type] : view \in Shown!build(type, t)
  BY <1>1 DEF Shown!Init
<1>3. PICK t \in Tables[type] : view \in Shown!build(type, t)
  BY <1>2
<1>4. Readable(type, t)
  BY SettingsAssumption
<1>. QED
  BY <1>3, <1>4, TablesBuilt

LEMMA ViewInvStep == ViewInv /\ [Next]_vars => ViewInv'
<1>. SUFFICES ASSUME ViewInv, [Next]_vars, scene = "settings" PROVE view' \in Remembered
  BY SceneStays DEF ViewInv
<1>1. view \in Remembered
  BY DEF ViewInv
<1>2. CASE UNCHANGED vars
  BY <1>1, <1>2 DEF vars
<1>3. CASE Shown!Edit
  BY <1>1, <1>3, SettingsEdited DEF Shown!Edit
<1>4. CASE Shown!Reload
  BY <1>1, <1>4, SettingsReadBack DEF Shown!Reload
<1>. QED
  BY <1>2, <1>3, <1>4 DEF Next, Shown!Next

(* For any tables of a layout file, sense or nonsense, and any edits: each  *)
(* type of panel that is saved and loaded has every setting as it was on    *)
(* the screen. *)
THEOREM SettingsAreKept == FairSpec => [](scene = "settings" => Shown!SettingsKept)
<1>1. ViewInv => (scene = "settings" => Shown!SettingsKept)
  BY SettingsReadBack DEF ViewInv, Shown!SettingsKept
<1>. QED
  BY <1>1, ViewInvInit, ViewInvStep, FairIsSafe, PTL DEF SafeSpec

(* Panels and their settings alike are what a save and a load would give.   *)
THEOREM LayoutsAreKept == FairSpec => []PanelsKept
BY ScreensAreKept, SettingsAreKept, PTL DEF PanelsKept

-----------------------------------------------------------------------------
(* The channel tree. *)

Elements(s) == {s[i] : i \in DOMAIN s}
Distinct(s) == \A i, j \in DOMAIN s : s[i] = s[j] => i = j

(* The names are the registry's, as far as a frame has seen them. *)
Follows(names, chosen) ==
  /\ names \in Seq(TreeNames)
  /\ Len(names) <= Len(registry)
  /\ \A i \in 1..Len(names) : names[i] = registry[i]
  /\ chosen \subseteq Elements(registry) \cup topics

TreeInv ==
  scene = "tree" =>
    /\ registry \in Seq(TreeNames) /\ Distinct(registry)
    /\ topics \subseteq Elements(Sorted)
    /\ Follows(listed, selected)
    /\ saved # None => Follows(saved.listed, saved.selected)

LEMMA TreeArranges ==
  ASSUME NEW s, NEW key
  PROVE  Tree!Arranged(s, key) = Arranged(s, key)
BY DEF Tree!Arranged, Arranged, Tree!Rank, Rank, Tree!Cardinality, Cardinality

LEMMA TreePicks ==
  ASSUME NEW s, NEW at
  PROVE  Tree!Picked(s, at) = Picked(s, at)
BY TreeArranges DEF Tree!Picked, Picked

(* A frame lists what is registered. *)
LEMMA ListedIsRegistry ==
  ASSUME registry \in Seq(TreeNames), Follows(listed, selected)
  PROVE  Tree!Listed = registry
<1>1. CASE Len(registry) = Len(listed)
  <2>1. \A i \in 1..Len(listed) : listed[i] = registry[i]
    BY DEF Follows
  <2>2. listed = registry
    <3>1. listed \in Seq(TreeNames)
      BY DEF Follows
    <3>. QED
      BY <1>1, <2>1, <3>1, SeqEqual
  <2>. QED
    BY <1>1, <2>2 DEF Tree!Listed
<1>. QED
  BY <1>1 DEF Tree!Listed

(* The names of a frame: each once, and all of them. *)
LEMMA NamesAssembled ==
  ASSUME registry \in Seq(TreeNames), Distinct(registry), topics \subseteq Elements(Sorted),
         Follows(listed, selected)
  PROVE  /\ Tree!Assembled \in Seq(TreeNames) /\ Distinct(Tree!Assembled)
         /\ Elements(Tree!Assembled) = Elements(registry) \cup topics
<1>. DEFINE fresh == topics \ Elements(registry)
            at == {i \in DOMAIN Sorted : Sorted[i] \in fresh}
            rest == Picked(Sorted, at)
            C == Cardinality(at)
            n == Len(registry)
<1>1. Sorted \in Seq(TreeNames) /\ \A i, j \in DOMAIN Sorted : Sorted[i] = Sorted[j] => i = j
  BY TreeAssumption
<1>2. at \in SUBSET (1..Len(Sorted)) /\ Len(Sorted) \in Nat /\ DOMAIN Sorted = 1..Len(Sorted)
  BY <1>1
<1>3. PICK f : Picks(f, Sorted, at)
  BY <1>2, Picking
<1>4. C \in Nat /\ rest = [r \in 1..C |-> Sorted[f[r]]] /\ f \in [1..C -> at]
      /\ (\A r, q \in 1..C : r < q => f[r] < f[q])
      /\ \A k \in at : \E r \in 1..C : f[r] = k
  BY <1>3 DEF Picks
<1>5. Tree!Assembled = registry \o rest
  <2>1. Tree!ToSet(registry) = Elements(registry)
    BY DEF Tree!ToSet, Elements
  <2>. QED
    BY <2>1, ListedIsRegistry, TreePicks DEF Tree!Assembled
<1>. HIDE DEF C
<1>6. \A r \in 1..C : Sorted[f[r]] \in TreeNames /\ f[r] \in DOMAIN Sorted /\ Sorted[f[r]] \in fresh
  BY <1>1, <1>2, <1>4
<1>7. rest \in Seq(TreeNames) /\ Len(rest) = C /\ \A r \in 1..C : rest[r] = Sorted[f[r]]
  <2>. HIDE DEF rest
  <2>. QED
    BY <1>4, <1>6
<1>8. \A r, q \in 1..C : rest[r] = rest[q] => r = q
  <2>. TAKE r, q \in 1..C
  <2>. HAVE rest[r] = rest[q]
  <2>1. f[r] = f[q]
    BY <1>1, <1>6, <1>7
  <2>2. ~(r < q) /\ ~(q < r)
    <3>1. f[r] \in Nat /\ f[q] \in Nat
      BY <1>2, <1>4
    <3>2. ~(f[r] < f[q]) /\ ~(f[q] < f[r])
      BY <2>1, <3>1
    <3>. QED
      BY <1>4, <3>2
  <2>. QED
    BY <2>2
<1>. HIDE DEF rest, at
<1>9. fresh \subseteq {rest[r] : r \in 1..C}
  <2>. SUFFICES ASSUME NEW t \in fresh PROVE \E r \in 1..C : rest[r] = t
    OBVIOUS
  <2>1. PICK i \in DOMAIN Sorted : Sorted[i] = t
    BY DEF Elements
  <2>2. i \in at
    BY <2>1 DEF at
  <2>. QED
    BY <1>4, <1>7, <2>1, <2>2
<1>10. /\ registry \o rest \in Seq(TreeNames) /\ Len(registry \o rest) = n + C
       /\ \A i \in 1..n + C : (registry \o rest)[i] = IF i <= n THEN registry[i] ELSE rest[i - n]
       /\ n \in Nat /\ DOMAIN (registry \o rest) = 1..n + C
  <2>1. /\ registry \o rest \in Seq(TreeNames) /\ Len(registry \o rest) = Len(registry) + Len(rest)
        /\ \A i \in 1..Len(registry) + Len(rest) :
             (registry \o rest)[i] = IF i <= Len(registry) THEN registry[i] ELSE rest[i - Len(registry)]
    BY <1>7, ConcatProperties, Zenon
  <2>. QED
    BY <1>7, <2>1
<1>. DEFINE names == registry \o rest
<1>11. /\ \A i \in 1..n : i \in 1..n + C /\ names[i] = registry[i] /\ registry[i] \in Elements(registry)
       /\ \A r \in 1..C : n + r \in 1..n + C /\ names[n + r] = rest[r]
  <2>1. DOMAIN registry = 1..n
    OBVIOUS
  <2>2. \A i \in 1..n : i \in 1..n + C /\ i <= n
    BY <1>4, <1>10
  <2>3. \A r \in 1..C : n + r \in 1..n + C /\ ~(n + r <= n) /\ n + r - n = r
    BY <1>4, <1>10
  <2>. QED
    BY <1>10, <2>1, <2>2, <2>3 DEF Elements
<1>12. \A i \in 1..n + C : (i \in 1..n) \/ (i - n \in 1..C /\ i = n + (i - n))
  BY <1>4, <1>10
<1>13. \A r \in 1..C : rest[r] \in fresh
  BY <1>6, <1>7
<1>. HIDE DEF names, n, fresh
<1>14. Distinct(names)
  <2>1. DOMAIN names = 1..n + C
    BY <1>10 DEF names
  <2>2. \A i, j \in 1..n : registry[i] = registry[j] => i = j
    BY DEF Distinct, n
  <2>3. ASSUME NEW i \in 1..n + C, NEW j \in 1..n + C, names[i] = names[j] PROVE i = j
    <3>1. CASE i \in 1..n /\ j \in 1..n
      BY <1>11, <2>2, <2>3, <3>1
    <3>2. CASE i \in 1..n /\ j - n \in 1..C
      <4>1. n + (j - n) = j
        BY <1>4, <1>10
      <4>2. names[j] = rest[j - n] /\ names[j] \in fresh
        BY <1>11, <1>13, <3>2, <4>1
      <4>3. names[i] \in Elements(registry)
        BY <1>11, <3>2
      <4>. QED
        BY <2>3, <4>2, <4>3 DEF fresh
    <3>3. CASE j \in 1..n /\ i - n \in 1..C
      <4>1. n + (i - n) = i
        BY <1>4, <1>10
      <4>2. names[i] = rest[i - n] /\ names[i] \in fresh
        BY <1>11, <1>13, <3>3, <4>1
      <4>3. names[j] \in Elements(registry)
        BY <1>11, <3>3
      <4>. QED
        BY <2>3, <4>2, <4>3 DEF fresh
    <3>4. CASE ~(i \in 1..n) /\ ~(j \in 1..n)
      <4>1. i - n \in 1..C /\ i = n + (i - n) /\ j - n \in 1..C /\ j = n + (j - n)
        BY <1>12, <3>4
      <4>2. rest[i - n] = rest[j - n]
        BY <1>11, <2>3, <4>1
      <4>3. i - n = j - n
        BY <1>8, <4>1, <4>2
      <4>. QED
        BY <4>1, <4>3
    <3>. QED
      BY <1>12, <3>1, <3>2, <3>3, <3>4
  <2>. QED
    BY <2>1, <2>3 DEF Distinct
<1>15. Elements(names) = Elements(registry) \cup topics
  <2>1. DOMAIN names = 1..n + C /\ DOMAIN registry = 1..n
    BY <1>10 DEF names, n
  <2>2. ASSUME NEW i \in 1..n + C PROVE names[i] \in Elements(registry) \cup topics
    <3>1. CASE i \in 1..n
      BY <1>11, <3>1
    <3>2. CASE ~(i \in 1..n)
      <4>1. i - n \in 1..C /\ i = n + (i - n)
        BY <1>12, <3>2
      <4>2. names[i] \in fresh
        BY <1>11, <1>13, <4>1
      <4>. QED
        BY <4>2 DEF fresh
    <3>. QED
      BY <3>1, <3>2
  <2>3. ASSUME NEW t \in Elements(registry) PROVE \E i \in 1..n + C : names[i] = t
    BY <1>11, <2>1 DEF Elements
  <2>4. ASSUME NEW t \in fresh PROVE \E i \in 1..n + C : names[i] = t
    <3>1. PICK r \in 1..C : rest[r] = t
      BY <1>9
    <3>. QED
      BY <1>11, <3>1
  <2>5. topics \subseteq Elements(registry) \cup fresh
    BY DEF fresh
  <2>. QED
    BY <2>1, <2>2, <2>3, <2>4, <2>5 DEF Elements
<1>. QED
  BY <1>5, <1>10, <1>14, <1>15 DEF names

(* A name stands by the first of its group. *)
LEMMA FirstOfGroup ==
  ASSUME NEW names \in Seq(TreeNames), NEW k \in 1..Len(names)
  PROVE  /\ Tree!First(names, k) \in 1..k
         /\ names[Tree!First(names, k)].group = names[k].group
         /\ names[k].group # Alone =>
              \A j \in 1..k : names[j].group = names[k].group => Tree!First(names, k) <= j
<1>. DEFINE S == {j \in 1..k : names[j].group = names[k].group}
<1>1. k \in Nat /\ k \in 1..k
  OBVIOUS
<1>2. S \in SUBSET Nat /\ k \in S
  BY <1>1
<1>3. Tree!Min(S) = Placed!Min(S)
  BY DEF Tree!Min, Placed!Min
<1>4. Tree!Min(S) \in S /\ \A j \in S : Tree!Min(S) <= j
  <2>. HIDE DEF S
  <2>. QED
    BY <1>2, <1>3, Smallest
<1>5. CASE names[k].group = Alone
  BY <1>1, <1>5 DEF Tree!First
<1>6. CASE names[k].group # Alone
  <2>1. Tree!First(names, k) = Tree!Min(S)
    BY <1>6 DEF Tree!First
  <2>. QED
    BY <1>4, <2>1
<1>. QED
  BY <1>5, <1>6

LEMMA GroupHasOneFirst ==
  ASSUME NEW names \in Seq(TreeNames), NEW h \in 1..Len(names), NEW k \in 1..Len(names),
         names[h].group = names[k].group, names[h].group # Alone, h <= k
  PROVE  Tree!First(names, h) = Tree!First(names, k)
<1>. DEFINE a == Tree!First(names, h)
            b == Tree!First(names, k)
<1>1. a \in 1..h /\ names[a].group = names[h].group
      /\ \A j \in 1..h : names[j].group = names[h].group => a <= j
  BY FirstOfGroup
<1>2. b \in 1..k /\ names[b].group = names[k].group
      /\ \A j \in 1..k : names[j].group = names[k].group => b <= j
  BY FirstOfGroup
<1>. HIDE DEF a, b
<1>3. a \in 1..k
  BY <1>1
<1>4. b <= a
  BY <1>1, <1>2, <1>3
<1>5. b \in 1..h
  BY <1>1, <1>2, <1>4
<1>6. a <= b
  BY <1>1, <1>2, <1>5
<1>. QED
  BY <1>1, <1>2, <1>4, <1>6 DEF a, b

(* A place in a later group comes later. *)
LEMMA LaterGroup ==
  ASSUME NEW n \in Nat, NEW a \in 1..n, NEW b \in 1..n, NEW h \in 1..n, NEW k \in 1..n, a < b
  PROVE  a * n + h < b * n + k
<1>1. a * n + n <= b * n
  BY NextCell
<1>2. a * n \in Nat /\ b * n \in Nat
  BY ProductOfNats
<1>. DEFINE x == a * n
            y == b * n
<1>. HIDE DEF x, y
<1>3. x + n <= y /\ x \in Nat /\ y \in Nat
  BY <1>1, <1>2 DEF x, y
<1>4. x + h < y + k
  BY <1>3
<1>. QED
  BY <1>4 DEF x, y

(* The order of the tree: what is assembled, group by group. *)
Grouped(s) ==
  \A i, j \in DOMAIN s :
    s[i].group = s[j].group /\ s[i].group # Alone =>
      \A k \in i .. j : s[k].group = s[i].group

LEMMA NamesOrdered ==
  ASSUME NEW names \in Seq(TreeNames), Distinct(names),
         NEW key, key = [k \in DOMAIN names |-> Tree!First(names, k) * Len(names) + k]
  PROVE  LET order == Arranged(names, key)
         IN /\ order \in Seq(TreeNames) /\ Distinct(order) /\ Grouped(order)
            /\ Elements(order) = Elements(names)
<1>. DEFINE n == Len(names)
            first(k) == Tree!First(names, k)
            order == Arranged(names, key)
            C == Cardinality(DOMAIN key)
<1>1. n \in Nat /\ DOMAIN names = 1..n /\ DOMAIN key = 1..n
      /\ \A k \in 1..n : key[k] = first(k) * n + k /\ names[k] \in TreeNames
  OBVIOUS
<1>2. \A k \in 1..n : first(k) \in 1..n /\ names[first(k)].group = names[k].group
  <2>. TAKE k \in 1..n
  <2>1. first(k) \in 1..k /\ names[first(k)].group = names[k].group
    BY FirstOfGroup
  <2>. QED
    BY <1>1, <2>1
<1>3. \A h, k \in 1..n : names[h].group = names[k].group /\ names[h].group # Alone => first(h) = first(k)
  <2>. TAKE h, k \in 1..n
  <2>1. h <= k \/ k <= h
    BY <1>1
  <2>. QED
    BY <2>1, GroupHasOneFirst
<1>. HIDE DEF n, first
<1>4. \A k \in 1..n : first(k) * n \in Nat /\ key[k] \in Int
  <2>. TAKE k \in 1..n
  <2>1. first(k) \in Nat /\ k \in Nat
    BY <1>1, <1>2
  <2>2. first(k) * n \in Nat
    BY <1>1, <2>1, ProductOfNats
  <2>3. key[k] = first(k) * n + k
    BY <1>1
  <2>. QED
    BY <2>1, <2>2, <2>3
<1>5. \A h, k \in 1..n : first(h) < first(k) => key[h] < key[k]
  BY <1>1, <1>2, LaterGroup
<1>6. \A h, k \in 1..n : first(h) = first(k) => (key[h] <= key[k] <=> h <= k)
  <2>. TAKE h, k \in 1..n
  <2>. HAVE first(h) = first(k)
  <2>. DEFINE x == first(h) * n
  <2>1. key[h] = x + h /\ key[k] = x + k /\ x \in Nat /\ h \in Nat /\ k \in Nat
    BY <1>1, <1>4
  <2>. HIDE DEF x
  <2>. QED
    BY <2>1
<1>7. \A h, k \in 1..n : key[h] = key[k] => h = k
  <2>. TAKE h, k \in 1..n
  <2>. HAVE key[h] = key[k]
  <2>1. key[h] \in Int /\ key[k] \in Int /\ first(h) \in Int /\ first(k) \in Int
    BY <1>1, <1>2, <1>4
  <2>2. ~(first(h) < first(k)) /\ ~(first(k) < first(h))
    <3>1. ~(key[h] < key[k]) /\ ~(key[k] < key[h])
      BY <2>1
    <3>. QED
      BY <1>5, <3>1
  <2>3. first(h) = first(k)
    BY <2>1, <2>2
  <2>4. h <= k /\ k <= h
    <3>1. key[h] <= key[k] /\ key[k] <= key[h]
      BY <2>1
    <3>. QED
      BY <1>6, <2>3, <3>1
  <2>. QED
    BY <1>1, <2>4
<1>8. Keyed(key)
  <2>1. 1 \in Int /\ n \in Int
    BY <1>1
  <2>2. IsFiniteSet(1..n)
    BY <2>1, FS_Interval, Zenon
  <2>3. key = [k \in 1..n |-> key[k]]
    BY <1>1
  <2>4. key \in [1..n -> Int]
    BY <1>4, <2>3
  <2>. QED
    BY <1>1, <1>7, <2>2, <2>4 DEF Keyed
<1>9. PICK g : Draws(g, names, key)
  BY <1>8, Arranging
<1>10. /\ C \in Nat /\ g \in [1..C -> 1..n] /\ order = [r \in 1..C |-> names[g[r]]]
       /\ \A r, q \in 1..C : r < q => key[g[r]] < key[g[q]]
       /\ \A k \in 1..n : \E r \in 1..C : g[r] = k
  BY <1>1, <1>9 DEF Draws
<1>. HIDE DEF order, C
<1>11. /\ DOMAIN order = 1..C /\ \A r \in 1..C : order[r] = names[g[r]] /\ g[r] \in 1..n
  BY <1>10
<1>12. order \in Seq(TreeNames)
  BY <1>1, <1>10
<1>13. Distinct(order)
  <2>. SUFFICES ASSUME NEW r \in 1..C, NEW q \in 1..C, order[r] = order[q] PROVE r = q
    BY <1>11 DEF Distinct
  <2>1. g[r] = g[q]
    BY <1>1, <1>11 DEF Distinct
  <2>2. key[g[r]] \in Int
    BY <1>4, <1>11
  <2>3. ~(r < q) /\ ~(q < r)
    <3>1. ~(key[g[r]] < key[g[q]]) /\ ~(key[g[q]] < key[g[r]])
      BY <2>1, <2>2
    <3>. QED
      BY <1>10, <3>1
  <2>. QED
    BY <1>10, <2>3
<1>14. Elements(order) = Elements(names)
  <2>1. \A r \in 1..C : \E k \in 1..n : order[r] = names[k]
    BY <1>11
  <2>2. \A k \in 1..n : \E r \in 1..C : order[r] = names[k]
    BY <1>10, <1>11
  <2>3. DOMAIN names = 1..n /\ DOMAIN order = 1..C
    BY <1>1, <1>11
  <2>4. Elements(order) = {order[r] : r \in 1..C} /\ Elements(names) = {names[k] : k \in 1..n}
    BY <2>3 DEF Elements
  <2>. QED
    BY <2>1, <2>2, <2>4
<1>15. Grouped(order)
  <2>. SUFFICES ASSUME NEW i \in 1..C, NEW j \in 1..C, order[i].group = order[j].group,
                       order[i].group # Alone, NEW k \in i .. j
                PROVE  order[k].group = order[i].group
    BY <1>11 DEF Grouped
  <2>1. k \in 1..C /\ (i < k \/ i = k) /\ (k < j \/ k = j)
    BY <1>10
  <2>2. first(g[i]) = first(g[j])
    BY <1>3, <1>11
  <2>3. /\ key[g[i]] \in Int /\ key[g[j]] \in Int /\ key[g[k]] \in Int
        /\ first(g[i]) \in Int /\ first(g[k]) \in Int
    <3>1. g[i] \in 1..n /\ g[j] \in 1..n /\ g[k] \in 1..n
      BY <1>11, <2>1
    <3>2. first(g[i]) \in 1..n /\ first(g[k]) \in 1..n
      BY <1>2, <3>1
    <3>3. key[g[i]] \in Int /\ key[g[j]] \in Int /\ key[g[k]] \in Int
      BY <1>4, <3>1
    <3>4. 1..n \subseteq Int
      BY <1>1
    <3>. QED
      BY <3>2, <3>3, <3>4
  <2>4. key[g[i]] <= key[g[k]] /\ key[g[k]] <= key[g[j]]
    <3>1. key[g[i]] < key[g[k]] \/ i = k
      BY <1>10, <2>1
    <3>2. key[g[k]] < key[g[j]] \/ k = j
      BY <1>10, <2>1
    <3>3. key[g[i]] <= key[g[k]]
      BY <2>3, <3>1
    <3>4. key[g[k]] <= key[g[j]]
      BY <2>3, <3>2
    <3>. QED
      BY <3>3, <3>4
  <2>5. ~(key[g[k]] < key[g[i]]) /\ ~(key[g[j]] < key[g[k]])
    BY <2>3, <2>4
  <2>6. ~(first(g[k]) < first(g[i])) /\ ~(first(g[j]) < first(g[k]))
    BY <1>5, <1>11, <2>1, <2>5
  <2>7. first(g[k]) = first(g[i])
    BY <2>2, <2>3, <2>6
  <2>8. /\ names[first(g[k])].group = names[g[k]].group
        /\ names[first(g[i])].group = names[g[i]].group
    BY <1>2, <1>11, <2>1
  <2>. QED
    BY <1>11, <2>1, <2>7, <2>8
<1>. QED
  BY <1>12, <1>13, <1>14, <1>15 DEF order

LEMMA TreeOrdered ==
  ASSUME registry \in Seq(TreeNames), Distinct(registry), topics \subseteq Elements(Sorted),
         Follows(listed, selected)
  PROVE  LET order == Tree!flat_leaf_order
         IN /\ order \in Seq(TreeNames) /\ Distinct(order) /\ Grouped(order)
            /\ Elements(order) = Elements(registry) \cup topics
<1>. DEFINE names == Tree!Assembled
            key == [k \in DOMAIN names |-> Tree!First(names, k) * Len(names) + k]
<1>1. names \in Seq(TreeNames) /\ Distinct(names) /\ Elements(names) = Elements(registry) \cup topics
  BY NamesAssembled
<1>2. Tree!flat_leaf_order = Arranged(names, key)
  BY TreeArranges DEF Tree!flat_leaf_order
<1>. HIDE DEF names
<1>. QED
  BY <1>1, <1>2, NamesOrdered

(* A click and a drag know the names that are shown. *)
LEMMA SelectedIsShown ==
  ASSUME registry \in Seq(TreeNames), Distinct(registry), topics \subseteq Elements(Sorted),
         Follows(listed, selected)
  PROVE  Tree!Kept = selected
<1>1. Tree!ToSet(Tree!flat_leaf_order) = Elements(registry) \cup topics
  BY TreeOrdered DEF Tree!ToSet, Elements
<1>. QED
  BY <1>1 DEF Tree!Kept, Follows

LEMMA DragCarriesSelection ==
  ASSUME NEW order \in Seq(TreeNames), Distinct(order), NEW n \in Elements(order),
         NEW chosen \in SUBSET Elements(order), Tree!Kept = chosen
  PROVE  LET p == Tree!drag_payload(n, order)
         IN /\ Elements(p) = IF n \in chosen THEN chosen ELSE {n}
            /\ \A i, j \in DOMAIN p : i < j => Tree!At(order, p[i]) < Tree!At(order, p[j])
<1>1. CASE n \notin chosen
  <2>1. Tree!drag_payload(n, order) = <<n>>
    BY <1>1 DEF Tree!drag_payload
  <2>2. DOMAIN <<n>> = {1} /\ <<n>>[1] = n
    OBVIOUS
  <2>3. \A i, j \in {1} : ~(i < j)
    OBVIOUS
  <2>. QED
    BY <1>1, <2>1, <2>2, <2>3 DEF Elements
<1>2. CASE n \in chosen
  <2>. DEFINE at == {k \in DOMAIN order : order[k] \in chosen}
              p == Picked(order, at)
              C == Cardinality(at)
  <2>1. Tree!drag_payload(n, order) = p
    BY <1>2, TreePicks DEF Tree!drag_payload
  <2>2. Len(order) \in Nat /\ DOMAIN order = 1..Len(order) /\ at \in SUBSET (1..Len(order))
    OBVIOUS
  <2>3. PICK f : Picks(f, order, at)
    BY <2>2, Picking
  <2>4. C \in Nat /\ p = [r \in 1..C |-> order[f[r]]] /\ f \in [1..C -> at]
        /\ (\A r, q \in 1..C : r < q => f[r] < f[q])
        /\ \A k \in at : \E r \in 1..C : f[r] = k
    BY <2>3 DEF Picks
  <2>5. \A r \in 1..C : f[r] \in DOMAIN order /\ order[f[r]] \in chosen
    BY <2>4
  <2>. HIDE DEF p, C
  <2>6. DOMAIN p = 1..C /\ \A r \in 1..C : p[r] = order[f[r]]
    BY <2>4
  <2>7. \A k \in DOMAIN order : Tree!At(order, order[k]) = k
    BY DEF Distinct, Tree!At
  <2>8. \A r \in 1..C : Tree!At(order, p[r]) = f[r]
    BY <2>5, <2>6, <2>7
  <2>9. \A i, j \in DOMAIN p : i < j => Tree!At(order, p[i]) < Tree!At(order, p[j])
    BY <2>4, <2>6, <2>8
  <2>10. Elements(p) = chosen
    <3>1. \A t \in chosen : \E r \in 1..C : p[r] = t
      <4>. TAKE t \in chosen
      <4>1. PICK k \in DOMAIN order : order[k] = t
        BY DEF Elements
      <4>. QED
        BY <2>4, <2>6, <4>1
    <3>. QED
      BY <2>5, <2>6, <3>1 DEF Elements
  <2>. QED
    BY <1>2, <2>1, <2>9, <2>10
<1>. QED
  BY <1>1, <1>2

LEMMA TreeInvInit == Init => TreeInv
<1>. SUFFICES ASSUME Init, scene = "tree" PROVE TreeInv
  BY DEF TreeInv
<1>1. registry = Initial /\ listed = Initial /\ topics = {} /\ selected = {} /\ saved = None
  BY DEF Init, Tree!Init
<1>2. Initial \in Seq(TreeNames) /\ Distinct(Initial)
  BY TreeAssumption DEF Distinct
<1>3. Len(Initial) <= Len(Initial)
  <2>1. Len(Initial) \in Nat
    BY <1>2
  <2>. QED
    BY <2>1
<1>. QED
  BY <1>1, <1>2, <1>3 DEF TreeInv, Follows

(* The registry and the topics only grow. *)
LEMMA StillFollows ==
  ASSUME NEW names, NEW chosen, Follows(names, chosen), registry \in Seq(TreeNames),
         \/ registry' = registry
         \/ \E n \in TreeNames : registry' = Append(registry, n),
         topics \subseteq topics'
  PROVE  /\ names \in Seq(TreeNames) /\ Len(names) <= Len(registry')
         /\ \A i \in 1..Len(names) : names[i] = registry'[i]
         /\ chosen \subseteq Elements(registry') \cup topics'
<1>1. names \in Seq(TreeNames) /\ Len(names) <= Len(registry) /\ Len(registry) \in Nat
      /\ Len(names) \in Nat
      /\ (\A i \in 1..Len(names) : names[i] = registry[i])
      /\ chosen \subseteq Elements(registry) \cup topics
  BY DEF Follows
<1>2. CASE registry' = registry
  BY <1>1, <1>2
<1>3. ASSUME NEW n \in TreeNames, registry' = Append(registry, n)
      PROVE  /\ Len(names) <= Len(registry')
             /\ \A i \in 1..Len(names) : names[i] = registry'[i]
             /\ Elements(registry) \subseteq Elements(registry')
  <2>1. Len(registry') = Len(registry) + 1 /\ DOMAIN registry' = 1..Len(registry) + 1
        /\ DOMAIN registry = 1..Len(registry)
        /\ \A i \in 1..Len(registry) : registry'[i] = registry[i]
    BY <1>3
  <2>2. \A i \in 1..Len(names) : i \in 1..Len(registry)
    BY <1>1
  <2>3. \A i \in 1..Len(registry) : i \in 1..Len(registry) + 1
    BY <1>1
  <2>4. Elements(registry) \subseteq Elements(registry')
    BY <2>1, <2>3 DEF Elements
  <2>. QED
    BY <1>1, <2>1, <2>2, <2>4
<1>. QED
  BY <1>1, <1>2, <1>3

LEMMA TreeInvStep == TreeInv /\ [Next]_vars => TreeInv'
<1>. SUFFICES ASSUME TreeInv, [Next]_vars, scene = "tree" PROVE TreeInv'
  BY SceneStays DEF TreeInv
<1>1. /\ registry \in Seq(TreeNames) /\ Distinct(registry)
      /\ topics \subseteq Elements(Sorted)
      /\ Follows(listed, selected)
      /\ saved # None => Follows(saved.listed, saved.selected)
  BY DEF TreeInv
<1>2. ASSUME UNCHANGED <<registry, listed, selected, saved>>, topics \subseteq topics',
             topics' \subseteq Elements(Sorted)
      PROVE  TreeInv'
  BY <1>1, <1>2 DEF TreeInv, Follows
<1>3. CASE UNCHANGED vars
  BY <1>1, <1>2, <1>3 DEF vars, tree
<1>4. ASSUME NEW n \in Tree!ToSet(Sorted), Tree!Discover(n) PROVE TreeInv'
  <2>1. n \in Elements(Sorted)
    BY DEF Tree!ToSet, Elements
  <2>. QED
    BY <1>1, <1>2, <1>4, <2>1 DEF Tree!Discover, Tree!tree
<1>5. ASSUME NEW n \in Tree!ToSet(Sorted), Tree!Register(n) PROVE TreeInv'
  <2>1. n \in TreeNames
    BY DEF Tree!ToSet, TreeNames
  <2>2. n \notin Elements(registry) /\ registry' = Append(registry, n)
        /\ UNCHANGED <<topics, listed, selected, saved>>
    BY <1>5 DEF Tree!Register, Tree!Known, Tree!ToSet, Elements, Tree!tree
  <2>3. registry' \in Seq(TreeNames) /\ Distinct(registry')
    <3>1. /\ registry' \in Seq(TreeNames) /\ DOMAIN registry' = 1..Len(registry) + 1
          /\ DOMAIN registry = 1..Len(registry) /\ Len(registry) \in Nat
          /\ registry'[Len(registry) + 1] = n
          /\ \A i \in 1..Len(registry) : registry'[i] = registry[i]
      BY <1>1, <2>1, <2>2
    <3>2. \A i \in 1..Len(registry) + 1 : i \in 1..Len(registry) \/ i = Len(registry) + 1
      BY <3>1
    <3>3. \A i \in 1..Len(registry) : registry[i] # n
      BY <2>2, <3>1 DEF Elements
    <3>. QED
      BY <1>1, <3>1, <3>2, <3>3 DEF Distinct
  <2>4. Follows(listed, selected)'
    BY <1>1, <2>1, <2>2, StillFollows DEF Follows
  <2>5. saved # None => Follows(saved.listed, saved.selected)'
    BY <1>1, <2>1, <2>2, StillFollows DEF Follows
  <2>. QED
    BY <1>1, <2>2, <2>3, <2>4, <2>5 DEF TreeInv
<1>6. ASSUME NEW n, NEW toggle \in BOOLEAN, NEW shift \in BOOLEAN, Tree!Click(n, toggle, shift)
      PROVE  TreeInv'
  <2>. DEFINE order == Tree!flat_leaf_order
              range == IF shift /\ anchor # None THEN Tree!range_between(order, anchor, n) ELSE {}
              all == Elements(registry) \cup topics
  <2>1. order \in Seq(TreeNames) /\ Elements(order) = all
    BY <1>1, TreeOrdered
  <2>2. Tree!Kept = selected /\ selected \subseteq all
    BY <1>1, SelectedIsShown DEF Follows
  <2>3. /\ n \in Tree!ToSet(order)
        /\ Tree!ClickRange(n, toggle, range) \/ Tree!ClickOne(n, toggle)
        /\ listed' = Tree!Listed /\ UNCHANGED <<registry, topics, saved>>
    BY <1>6 DEF Tree!Click
  <2>. HIDE DEF order
  <2>4. n \in all
    BY <2>1, <2>3 DEF Tree!ToSet, Elements
  <2>5. range \subseteq all
    <3>1. CASE ~(shift /\ anchor # None) \/ ~({anchor, n} \subseteq Tree!ToSet(order))
      BY <3>1 DEF Tree!range_between
    <3>2. CASE {anchor, n} \subseteq Tree!ToSet(order)
      <4>. DEFINE i == Tree!At(order, anchor)
                  j == Tree!At(order, n)
      <4>1. i \in DOMAIN order /\ j \in DOMAIN order
        BY <3>2 DEF Tree!At, Tree!ToSet
      <4>2. DOMAIN order = 1..Len(order) /\ Len(order) \in Nat
        BY <2>1
      <4>3. Tree!range_between(order, anchor, n) = {order[k] : k \in (i .. j) \cup (j .. i)}
        BY <3>2 DEF Tree!range_between
      <4>. HIDE DEF i, j
      <4>4. \A k \in (i .. j) \cup (j .. i) : k \in DOMAIN order
        BY <4>1, <4>2
      <4>. QED
        BY <2>1, <4>3, <4>4 DEF Elements
    <3>. QED
      BY <3>1, <3>2
  <2>. HIDE DEF range
  <2>6. selected' \subseteq all
    BY <2>2, <2>3, <2>4, <2>5 DEF Tree!ClickRange, Tree!ClickOne, Tree!SymDiff
  <2>7. listed' = registry
    BY <1>1, <2>3, ListedIsRegistry
  <2>8. Len(registry) <= Len(registry)
    <3>1. Len(registry) \in Nat
      BY <1>1
    <3>. QED
      BY <3>1
  <2>9. Follows(listed, selected)'
    BY <1>1, <2>3, <2>6, <2>7, <2>8 DEF Follows
  <2>. QED
    BY <1>1, <2>3, <2>9 DEF TreeInv, Follows
<1>7. CASE Tree!OpenReplay
  <2>1. /\ saved' = [listed |-> listed, selected |-> selected, anchor |-> anchor]
        /\ listed' = registry /\ selected' = {} /\ UNCHANGED <<registry, topics>>
    BY <1>7 DEF Tree!OpenReplay
  <2>2. Len(registry) <= Len(registry)
    <3>1. Len(registry) \in Nat
      BY <1>1
    <3>. QED
      BY <3>1
  <2>3. Follows(listed, selected)' /\ Follows(saved.listed, saved.selected)'
    BY <1>1, <2>1, <2>2 DEF Follows
  <2>. QED
    BY <1>1, <2>1, <2>3 DEF TreeInv
<1>8. CASE Tree!CloseReplay
  BY <1>1, <1>8 DEF Tree!CloseReplay, TreeInv, Follows
<1>. QED
  BY <1>3, <1>4, <1>5, <1>6, <1>7, <1>8 DEF Next, Tree!Next

(* For any names and any order in which they come: a frame lists what is    *)
(* registered and every other topic, each once and group by group, and a    *)
(* drag carries what is selected, in that order. *)
THEOREM TreeListsAll ==
  FairSpec => [](scene = "tree" => Tree!TreeListsChannels /\ Tree!PayloadIsShown)
<1>1. TreeInv => (scene = "tree" => Tree!TreeListsChannels /\ Tree!PayloadIsShown)
  <2>. SUFFICES ASSUME TreeInv, scene = "tree"
                PROVE  Tree!TreeListsChannels /\ Tree!PayloadIsShown
    OBVIOUS
  <2>. DEFINE order == Tree!flat_leaf_order
  <2>1. /\ registry \in Seq(TreeNames) /\ Distinct(registry) /\ topics \subseteq Elements(Sorted)
        /\ Follows(listed, selected)
    BY DEF TreeInv
  <2>2. order \in Seq(TreeNames) /\ Distinct(order) /\ Grouped(order)
        /\ Elements(order) = Elements(registry) \cup topics
    BY <2>1, TreeOrdered
  <2>3. Tree!Kept = selected /\ selected \subseteq Elements(order)
    BY <2>1, <2>2, SelectedIsShown DEF Follows
  <2>4. Tree!TreeListsChannels
    BY <2>2 DEF Tree!TreeListsChannels, Tree!ToSet, Elements, Tree!IsInjective, Distinct, Grouped
  <2>. HIDE DEF order
  <2>5. Tree!ToSet(order) = Elements(order)
    BY DEF Tree!ToSet, Elements
  <2>6. \A n \in Elements(order) :
          LET p == Tree!drag_payload(n, order)
          IN /\ Elements(p) = IF n \in selected THEN selected ELSE {n}
             /\ \A i, j \in DOMAIN p : i < j => Tree!At(order, p[i]) < Tree!At(order, p[j])
    BY <2>2, <2>3, DragCarriesSelection
  <2>7. \A p : Tree!ToSet(p) = Elements(p)
    BY DEF Tree!ToSet, Elements
  <2>8. Tree!PayloadIsShown
    BY <2>5, <2>6, <2>7 DEF Tree!PayloadIsShown, order
  <2>. QED
    BY <2>4, <2>8
<1>. QED
  BY <1>1, TreeInvInit, TreeInvStep, FairIsSafe, PTL DEF SafeSpec

(* The channel tree and the script editor show what is. *)
THEOREM EditorsAreTruthful == FairSpec => []EditorsTruthful
BY TreeListsAll, EditorTellsTheEngine, PTL DEF EditorsTruthful
=============================================================================
