------------------------------- MODULE Config -------------------------------
(***************************************************************************)
(* The configuration file, which a user writes by hand and the program     *)
(* writes into: the layout and the script instances when it saves or ends, *)
(* the sources when one is started or stopped in the Data Sources window.  *)
(* Every other part (the channels, the comments in it) is the user's; the  *)
(* comments above a section of the program go with it.                     *)
(*                                                                         *)
(* A layout is put in front of the rest of the text. What the rest begins  *)
(* with, if it is no table header, then belongs to the last panel: a       *)
(* section that is written as a key, defaults = { .. }, is a key of that   *)
(* panel, or the file is no TOML any more if the panel has that key.       *)
(*                                                                         *)
(* The program starts from config.toml of its directory, or asks; the path *)
(* it writes to changes when another file is loaded or saved to.           *)
(***************************************************************************)
EXTENDS Integers, TLC

CONSTANTS
  Paths, config,   \* the files a dialog may name; config.toml is one of them
  Kinds,           \* the kinds of source there is one of
  Flags,           \* what the command line may contain
  InitFiles,       \* what the files hold at first
  NoFile,          \* a path where there is no file
  Unreadable,      \* a file that is no text, or that may only be written
  Malformed        \* a file that is no TOML, or a section that cannot be read

VARIABLES
  files,
  open,     \* is the program running?
  path,     \* DataVisApp.layout_path
  layout,   \* the workspace
  scripts,  \* DataVisApp.script_instances
  running,  \* persistent sources that run
  given,    \* sources of the command line that run
  noted,    \* history: was the list of sources written to, or read from, the path?
  how,      \* history: has a program just been started, or ended inside a write?
  last      \* history: what was last saved, and where

memory == <<path, layout, scripts, running, given, noted>>
vars   == <<files, open, memory, how, last>>

(* The [scripts] table has a directory of the user's and the instances.     *)
NoScripts == [dir |-> "scripts", instances |-> 0]

(* What stands above the first table header: sections written as keys, and  *)
(* a key that a panel has too. *)
Above == {"rest", "scripts", "sources", "clash"}

Empty   == [rest |-> "none", layout |-> 0, scripts |-> NoScripts, sources |-> {}, above |-> {}]
Default == [Empty EXCEPT !.rest = "default"]

Readable(f) == f \notin {NoFile, Unreadable, Malformed}

(* read_to_string(path).unwrap_or_default() *)
Text(f) == IF f \in {NoFile, Unreadable} THEN Empty ELSE f

(* A section that is absent or cannot be read has its default. *)
scripts_from(f) == IF f = Malformed \/ f.scripts = Malformed THEN NoScripts ELSE f.scripts
sources_from(f) == IF f = Malformed \/ f.sources = Malformed THEN {} ELSE f.sources

Nothing == [path |-> NoFile, layout |-> 0, scripts |-> 0, running |-> {}, noted |-> FALSE]

-----------------------------------------------------------------------------
(* Writing: the section is replaced, the rest is kept. A path without a     *)
(* file gets one, a file that cannot be read is lost, one that is no TOML   *)
(* is left alone. *)

(* The parts in lost are gone. *)
Without(f, lost) ==
  [rest    |-> IF "rest" \in lost THEN "none" ELSE f.rest,
   layout  |-> IF "layout" \in lost THEN 0 ELSE f.layout,
   scripts |-> IF "scripts" \in lost THEN NoScripts ELSE f.scripts,
   sources |-> IF "sources" \in lost THEN {} ELSE f.sources,
   above   |-> f.above \ lost]

(* With a slip: the file is written anew. *)
layout_written(f, l) == IF f = Malformed THEN f ELSE [Empty EXCEPT !.layout = l]

layout_merge_into(f, l) ==
  IF f = Malformed \/ "clash" \in Text(f).above THEN Malformed
  ELSE [Without(Text(f), Text(f).above) EXCEPT !.layout = l]

(* With a slip: the instances are written with the default directory. *)
scripts_saved_bare(f, i) ==
  IF f = Malformed THEN f ELSE [Text(f) EXCEPT !.scripts = [NoScripts EXCEPT !.instances = i]]

scripts_save(f, i) ==
  IF f = Malformed THEN f
  ELSE [Text(f) EXCEPT !.scripts = [scripts_from(Text(f)) EXCEPT !.instances = i],
                       !.above = @ \ {"scripts"}]

sources_merge_into(f, kinds) ==
  IF f = Malformed THEN f
  ELSE [Text(f) EXCEPT !.sources = kinds, !.above = @ \ {"sources"}]

(* The first of the two writes of a save. *)
save_layout_only(p, fs) == [fs EXCEPT ![p] = layout_merge_into(@, layout)]

save_layout(p, fs) == [fs EXCEPT ![p] = scripts_save(layout_merge_into(@, layout), scripts)]

(* With a slip: every source is written, those of the command line too. *)
persist_all(kept) == files' = [files EXCEPT ![path] = sources_merge_into(@, kept \union given)]

persist(kept) == files' = [files EXCEPT ![path] = sources_merge_into(@, kept)]

(* A write empties the file first: it may end anywhere in the text, which   *)
(* begins with the layout, and is in the order of Parts here. *)
Parts == <<"layout", "rest", "scripts", "sources">>

Torn(f) == {Malformed} \union {Without(f, {Parts[j] : j \in i..4}) : i \in 1..4}

(* What the command line starts: no ZeroMQ source beside the demo. *)
cli_sources(args) ==
  {k \in Kinds :
     \/ k = "zmq" /\ "demo" \notin args /\ args \intersect {"endpoint", "schema"} # {}
     \/ k = "mqtt" /\ "mqtt-endpoint" \in args
     \/ k = "websocket" /\ "ws-listen" \in args}

(* The form for a new source, by the fields that are not blank. *)
Required ==
  [zmq |-> {"endpoint", "schema"}, mqtt |-> {"broker"}, websocket |-> {"listen"},
   bridge |-> {"name", "command"}]

to_spec(kind, filled) == IF Required[kind] \subseteq filled THEN {kind} ELSE {}

-----------------------------------------------------------------------------
Init ==
  /\ files \in InitFiles
  /\ open = FALSE
  /\ path = config /\ layout = 0 /\ scripts = 0 /\ running = {} /\ given = {} /\ noted = FALSE
  /\ how = "used" /\ last = Nothing

(* A source of the file that cannot be started is only reported. *)
Opened(p, f) ==
  /\ Readable(f)
  /\ open' = TRUE /\ path' = p /\ noted' = ("sources" \notin f.above)
  /\ layout' = f.layout
  /\ scripts' = scripts_from(f).instances
  /\ running' \in SUBSET sources_from(f)
  /\ given' \in UNION {SUBSET cli_sources(args) : args \in SUBSET Flags}
  /\ how' = "started" /\ UNCHANGED last

Start == ~open /\ Opened(config, files[config]) /\ UNCHANGED files

(* There is no config.toml: write the default, pick a file, or do without.  *)
StartWithout ==
  /\ ~open /\ files[config] = NoFile
  /\ \/ Opened(config, Default) /\ files' = [files EXCEPT ![config] = Default]
     \/ \E p \in Paths : Opened(p, files[p]) /\ UNCHANGED files
     \/ Opened(config, Default) /\ UNCHANGED files

(* The user puts a config.toml aside that the program does not start from.  *)
Discard ==
  /\ ~open /\ ~Readable(files[config]) /\ files[config] # NoFile
  /\ files' = [files EXCEPT ![config] = NoFile]
  /\ UNCHANGED <<open, memory, how, last>>

Edit ==
  /\ open
  /\ \/ layout' = 1 - layout /\ UNCHANGED scripts
     \/ scripts' = 1 - scripts /\ UNCHANGED layout
  /\ how' = "used"
  /\ UNCHANGED <<files, open, path, running, given, noted, last>>

(* The list of sources is written, if the file can be. *)
Persist(kept) ==
  /\ persist(kept)
  /\ noted' = (noted \/ files[path] # Malformed)
  /\ last' = IF last.path = path THEN [last EXCEPT !.running = kept, !.noted = TRUE] ELSE last

(* The Start button; a source that cannot be started changes nothing.       *)
AddSource(kind, filled) ==
  /\ open /\ kind \notin running
  /\ running' = running \union to_spec(kind, filled)
  /\ IF running' = running THEN UNCHANGED <<files, noted, last>> ELSE Persist(running')
  /\ how' = "used"
  /\ UNCHANGED <<open, path, layout, scripts, given>>

StopSource(s) ==
  /\ open
  /\ \/ s \in running /\ running' = running \ {s} /\ UNCHANGED given
     \/ s \in given /\ given' = given \ {s} /\ UNCHANGED running
  /\ Persist(running')
  /\ how' = "used"
  /\ UNCHANGED <<open, path, layout, scripts>>

(* What a save leaves at p, if it can be written. *)
Saved(p, instances) ==
  IF layout_merge_into(files[p], layout) = Malformed THEN last
  ELSE [path |-> p, layout |-> layout, scripts |-> instances,
        running |-> running, noted |-> noted /\ p = path]

(* Save layout, and Save layout as. *)
Save(p) ==
  /\ open
  /\ path' = p
  /\ files' = save_layout(p, files)
  /\ noted' = (noted /\ p = path)
  /\ last' = Saved(p, scripts) /\ how' = "used"
  /\ UNCHANGED <<open, layout, scripts, running, given>>

(* Load layout, and Load layout from: only the layout is taken, and the     *)
(* path is changed whether the file can be read or not. *)
Load(p) ==
  /\ open
  /\ path' = p
  /\ layout' = IF Readable(files[p]) THEN files[p].layout ELSE layout
  /\ noted' = (noted /\ p = path)
  /\ how' = "used"
  /\ UNCHANGED <<files, open, scripts, running, given, last>>

(* What was in memory is gone; the path is kept to tell what was written.    *)
Ended ==
  /\ open' = FALSE /\ layout' = 0 /\ scripts' = 0
  /\ running' = {} /\ given' = {} /\ noted' = FALSE

Exit ==
  /\ open /\ Ended
  /\ files' = save_layout(path, files)
  /\ last' = Saved(path, scripts) /\ how' = "used"
  /\ UNCHANGED path

Crash == open /\ Ended /\ how' = "used" /\ UNCHANGED <<files, path, last>>

(* The instances a file has once a layout was put in front of it. *)
Behind(f) == IF "scripts" \in f.above THEN 0 ELSE scripts_from(f).instances

(* The layout and the scripts are two writes. *)
CrashInSave(p) ==
  /\ open /\ Ended
  /\ path' = p
  /\ files' = save_layout_only(p, files)
  /\ last' = IF files[p] = Malformed THEN last ELSE Saved(p, Behind(Text(files[p])))
  /\ how' = "used"

(* What may be on its way into a file: the default, a layout, the scripts   *)
(* after it, or a list of sources. *)
Written(p) ==
  IF ~open THEN IF p = config /\ files[p] = NoFile THEN {Default} ELSE {}
  ELSE {layout_merge_into(files[p], layout), save_layout(p, files)[p]}
         \union {sources_merge_into(files[q], kept) : q \in {p} \intersect {path},
                   kept \in UNION {{running \union {s}, running \ {s}} : s \in Kinds}}

CrashInWrite(p) ==
  /\ files[p] # Malformed /\ Ended
  /\ path' = p
  /\ \E g \in UNION {Torn(f) : f \in Written(p) \ {Malformed}} : files' = [files EXCEPT ![p] = g]
  /\ last' = IF last.path = p THEN Nothing ELSE last
  /\ how' = "torn"

Next ==
  \/ Start \/ StartWithout \/ Discard \/ Edit \/ Exit \/ Crash
  \/ \E s \in Kinds : StopSource(s) \/ \E filled \in {Required[s], {}} : AddSource(s, filled)
  \/ \E p \in Paths : Save(p) \/ Load(p) \/ CrashInSave(p) \/ CrashInWrite(p)

-----------------------------------------------------------------------------
(* Properties. *)

(* A step writes into no file but the one at the path, and into none that   *)
(* is no TOML. Whatever it does there, unless it ends inside the write, it  *)
(* leaves what the user wrote under a header; a source that is dropped from *)
(* the list does not run any more, and one that is added to it runs and was *)
(* not given on the command line. *)
KeepStep ==
  \A p \in Paths : files'[p] # files[p] /\ (open \/ files'[p] # NoFile) =>
    /\ p = path' /\ files[p] # Malformed
    /\ Readable(files[p]) /\ how' # "torn" /\ "clash" \notin files[p].above =>
         LET f == files[p]
             g == files'[p]
         IN /\ "rest" \notin f.above => g.rest = f.rest
            /\ "scripts" \notin f.above => scripts_from(g).dir = scripts_from(f).dir
            /\ "sources" \notin f.above =>
                 (sources_from(f) \ sources_from(g)) \intersect running' = {}
            /\ sources_from(g) \ sources_from(f) \subseteq running'

(* "preserving every other section -- [defaults], [channels], comments, and *)
(* formatting -- verbatim" (src/config/layout.rs): also where the user put  *)
(* it above the first header. *)
VerbatimStep ==
  \A p \in Paths : Readable(files[p]) /\ how' # "torn" =>
    Readable(files'[p]) /\ files'[p].rest = files[p].rest

(* A program that is started from a file that was saved shows that layout   *)
(* and those instances, also if the one before it crashed later, or when it *)
(* had written the layout only; and it finds the sources that ran in the    *)
(* list, if that was written there. *)
ReopenRestores ==
  open /\ how = "started" /\ last.path = path =>
    /\ layout = last.layout /\ scripts = last.scripts
    /\ last.noted => last.running \subseteq sources_from(files[path])
=============================================================================
