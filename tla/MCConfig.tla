------------------------------- MODULE MCConfig -----------------------------
(***************************************************************************)
(* What the user arranges and the program keeps: the place of panels on    *)
(* the canvas (Canvas), what they show (Screens), the configuration file   *)
(* (Config), the channel tree (ChannelTree) and the script editor          *)
(* (ScriptPanel), and what a panel remembers of its settings               *)
(* (PanelSettings); one of the six in each behaviour.                      *)
(***************************************************************************)
EXTENDS Integers, Sequences, TLC

CONSTANTS
  None,
  Size, MinSize, Slot, Steps, Centre, Configs, NoFrame, Diagonal, MaxPlaced, MaxDrags,
  Configured, Dynamic, Coloured, ChannelOf, ArityOf, Recolors, Files, MaxPanels,
  Paths, config, Kinds, Flags, InitFiles, NoFile, Unreadable, Malformed,
  Words, \* what the user's parts of a file may say, here one word each
  Initial, Sorted, Alone,
  Ids, Committed, MaxSent,
  Tables, Wrong, Texts, Blanks, Numbers, Hues, MaxRows

VARIABLES
  scene, \* which of the six
  placed, settings, drags, about,
  panels, known, discovered, snapshot, source, file,
  files, open, path, layout, scripts, running, given, noted, how, last,
  registry, topics, listed, selected, anchor, saved,
  instances, staged, focus, metas, engine, sent,
  view

Placed  == INSTANCE Canvas WITH layout <- placed, MaxPanels <- MaxPlaced
Content == INSTANCE Screens
Kept    == INSTANCE Config
Tree    == INSTANCE ChannelTree
Editor  == INSTANCE ScriptPanel
Shown   == INSTANCE PanelSettings

canvas  == <<placed, settings, drags, about>>
content == <<panels, known, discovered, snapshot, source, file>>
kept    == <<files, open, path, layout, scripts, running, given, noted, how, last>>
tree    == <<registry, topics, listed, selected, anchor, saved>>
editor  == <<instances, staged, focus, metas, engine, sent>>
vars    == <<scene, canvas, content, kept, tree, editor, view>>

(* An empty screen, a saved one, and one of an older version. *)
F(x, y, w, h) == [fx |-> x, fy |-> y, fw |-> w, fh |-> h]
MCCentre == F(1, 1, 3, 3)
MCConfigs == { << >>, <<F(0, 0, 2, 4), F(2, 1, 2, 2)>>, <<F(0, 0, 1, 1), NoFrame, NoFrame>> }

(* The canvas takes a panel, and the layouts it starts from are such as it  *)
(* saves, or small enough to be arranged in columns. *)
Framed(c) == \A i \in DOMAIN c : c[i] # NoFrame
Orderly(c) ==
  IF Framed(c)
  THEN c \in Seq(Placed!Rect) /\ Placed!Apart(c) /\ \A i \in DOMAIN c : Placed!Inside(c[i])
  ELSE Len(c) \in Nat \ {0} /\ Placed!Columns(Len(c)) * MinSize <= Size

ASSUME CanvasAssumption ==
  /\ Size \in Nat /\ MinSize \in Nat \ {0} /\ Slot \in MinSize..Size
  /\ Steps # {} /\ Steps \subseteq 0..(Size - Slot)
  /\ NoFrame \notin Placed!Rect
  /\ Centre \in Placed!Rect /\ Placed!Inside(Centre)
  /\ \A c \in Configs : Orderly(c)

(* c is configured and carries the topic t; d is a topic. *)
MCChannelOf == [t |-> "c"]
MCArityOf == [waveform |-> "many", gauge |-> "one", xy |-> "pair"]
Panel(type, colors, ok) ==
  [type |-> type, names |-> <<"d">>, colors |-> colors, setting |-> 1, ok |-> ok]
MCFiles ==
  {<<>>, <<Panel("waveform", {"d"}, TRUE)>>, <<Panel("gauge", {}, FALSE)>>}

(* The topics of Dynamic have no configured channel. Saved panels name      *)
(* topics or configured channels, a line of a plot each once, with colours  *)
(* for their lines; a type nobody registered is not ok. *)
Names == Configured \cup Dynamic \cup {None}
Entries ==
  [type : DOMAIN ArityOf \cup {"placeholder", "unknown"}, names : Seq(Names),
   colors : SUBSET Names, setting : {0, 1}, ok : BOOLEAN]
Proper(e) ==
  e.ok =>
    /\ e.type # "unknown"
    /\ e.type \in DOMAIN ArityOf /\ ArityOf[e.type] = "pair" => e.names # <<>>
    /\ e.type \in Recolors =>
         /\ \A j, k \in DOMAIN e.names : e.names[j] = e.names[k] => j = k
         /\ e.colors \subseteq {e.names[k] : k \in DOMAIN e.names}
    /\ e.type \notin Recolors => e.colors = {}

ASSUME ScreensAssumption ==
  /\ \A t \in DOMAIN ChannelOf : ChannelOf[t] \in Configured
  /\ None \notin Configured /\ DOMAIN ChannelOf \cap (Dynamic \cup {None}) = {}
  /\ ArityOf \in [DOMAIN ArityOf -> {"many", "one", "pair"}]
  /\ DOMAIN ArityOf \cap {"placeholder", "unknown"} = {}
  /\ \A type \in Recolors : type \in DOMAIN ArityOf /\ ArityOf[type] = "many"
  /\ \A f \in Files : f \in Seq(Entries) /\ \A i \in DOMAIN f : Proper(f[i])

(* Files of one user, who may write above the first header, and of another  *)
(* program. *)
File(rest, s, sources, above) ==
  [rest |-> rest, layout |-> 0, scripts |-> s, sources |-> sources, above |-> above]
Scripts == [dir |-> "own", instances |-> 1]
MCInitFiles ==
  LET plain == File("c", Scripts, {"zmq"}, {})
      other == File("o", Scripts, {"zmq"}, {})
  IN {[c |-> x, o |-> other] :
        x \in {NoFile, plain, File("c", Malformed, Malformed, {}),
               File("c", Scripts, {"zmq"}, {"rest", "scripts"}),
               File("c", Scripts, {"zmq"}, {"sources", "clash"})}}
     \cup {[c |-> plain, o |-> y] : y \in {Malformed, Unreadable}}
MCconfig == "c"

(* What a file may hold. *)
ScriptTables == [dir : Words, instances : {0, 1}]
Contents ==
  [rest : Words, layout : {0, 1}, scripts : {Malformed} \cup ScriptTables,
   sources : {Malformed} \cup SUBSET Kinds, above : SUBSET Kept!Above]

ASSUME FilesAssumption ==
  /\ {"none", "default", "scripts"} \subseteq Words
  /\ config \in Paths /\ NoFile \notin Paths
  /\ InitFiles \subseteq [Paths -> {NoFile, Unreadable, Malformed} \cup Contents]
  /\ {NoFile, Unreadable, Malformed} \cap Contents = {}
  /\ NoFile # Malformed /\ NoFile # Unreadable /\ Unreadable # Malformed
  /\ Malformed \notin ScriptTables /\ \A k \in SUBSET Kinds : k # Malformed

Name(g, l) == [group |-> g, label |-> l]
MCInitial == <<Name("a", "x"), Name("", "p")>>
MCSorted == <<Name("a", "t")>>

(* A name is registered once, and is either of the file or not. *)
TreeNames == {Initial[i] : i \in DOMAIN Initial} \cup {Sorted[i] : i \in DOMAIN Sorted}

ASSUME TreeAssumption ==
  /\ Initial \in Seq(TreeNames) /\ Sorted \in Seq(TreeNames)
  /\ \A i, j \in DOMAIN Initial : Initial[i] = Initial[j] => i = j
  /\ \A i, j \in DOMAIN Sorted : Sorted[i] = Sorted[j] => i = j

(* One instance, of which the file says nothing, or all but the outputs.    *)
Inst(inputs, enabled) == [inputs |-> inputs, outputs |-> None, enabled |-> enabled]
MCCommitted == {[i \in Ids |-> x] : x \in {None, Inst(None, TRUE), Inst("default", FALSE)}}

(* What the list may say of an instance. *)
Listings ==
  {None} \cup [inputs : {None} \cup Editor!Inputs, outputs : {None} \cup Editor!Outputs,
               enabled : BOOLEAN]

ASSUME EditorAssumption ==
  /\ Committed \subseteq [Ids -> Listings]
  /\ None \notin Ids /\ None \notin Editor!Rows

(* What the files say: too little, what the defaults are, and too much.     *)
MCTables ==
  LET c == "channel" :> "c"
      rows == [thresholds |-> <<[value |-> 2, color |-> Wrong], [value |-> 0, color |-> "gray"]>>,
               base_color |-> Wrong]
  IN [waveform |-> {<<>>, [channels |-> <<"c", Wrong>>, time_window_s |-> Wrong, label |-> "",
                           colors |-> [c |-> "gray", d |-> Wrong], dots |-> TRUE]},
      state_graph |-> {<<>>, c @@ ("states" :> (0 :> "off" @@ 1 :> Wrong)) @@ ("aliases" :> (0 :> "")),
                       c @@ ("states" :> (Wrong :> "on"))},
      numeric |-> {c, rows},
      gauge |-> {c @@ rows, [min |-> 2, max |-> 2], [min |-> 0, max |-> 2, style |-> "dial"]},
      status |-> {c @@ [states |-> <<[match |-> "t", label |-> "", color |-> "gray"],
                                     [match |-> Wrong, label |-> None, color |-> "gray"]>>]},
      spectrum |-> {c, [fft_size |-> -2], [fft_size |-> 1500], [fft_size |-> 100000],
                    [window |-> "none"], [window |-> "flat"]},
      log |-> {<<>>, [channels |-> <<"c">>, max_lines |-> 0]},
      xy_scatter |-> {[x_channel |-> "c"]},
      other |-> {<<>>}]

(* What a layout file may say, key by key. A state graph has a table of     *)
(* states where a status has a list, and its keys may be no numbers. *)
Held(t, key, allowed) == key \in DOMAIN t => t[key] \in allowed
MapTo(m, keys, values) == DOMAIN m \subseteq keys /\ \A k \in DOMAIN m : m[k] \in values
HeldMap(t, key, keys) == key \in DOMAIN t => MapTo(t[key], keys, Words \cup {Wrong})
Readable(type, t) ==
  /\ \A key \in {"channel", "x_channel", "y_channel", "label", "unit", "y_unit", "style",
                 "window", "base_color"} : Held(t, key, Words \cup {Wrong})
  /\ \A key \in {"min", "max", "time_window_s", "fft_size", "max_lines"} : Held(t, key, Int \cup {Wrong})
  /\ \A key \in {"cursors", "dots"} : Held(t, key, BOOLEAN \cup {Wrong})
  /\ Held(t, "channels", Seq(Words \cup {Wrong}))
  /\ Held(t, "thresholds", Seq([value : Int \cup {Wrong}, color : Words \cup {Wrong}]))
  /\ type = "status" =>
       Held(t, "states", Seq([match : Words \cup {Wrong}, label : Words \cup {Wrong, None},
                              color : Words \cup {Wrong}]))
  /\ type = "waveform" => HeldMap(t, "colors", Words)
  /\ type = "state_graph" =>
       /\ HeldMap(t, "states", Int \cup {Wrong})
       /\ HeldMap(t, "colors", Int) /\ HeldMap(t, "aliases", Int)

ASSUME SettingsAssumption ==
  /\ Texts \cup Hues \subseteq Words
  /\ {"", "bar", "vertical", "led", "arc", "hann", "none", "yellow", "gray"} \subseteq Words
  /\ "" \in Blanks /\ Numbers \subseteq Int
  /\ None \notin Words \cup {Wrong} /\ None \notin Int
  /\ Wrong \notin Words /\ Wrong \notin Int /\ Wrong \notin BOOLEAN
  /\ \A type \in DOMAIN Tables : \A t \in Tables[type] : Readable(type, t)

Init ==
  /\ scene \in {"canvas", "panels", "files", "tree", "scripts", "settings"}
  /\ Placed!Init /\ Content!Init /\ Kept!Init /\ Tree!Init /\ Editor!Init /\ Shown!Init
  /\ scene # "canvas" => placed = << >>
  /\ scene # "panels" => panels = << >> /\ source
  /\ scene # "files" => files[config] = NoFile
  /\ scene # "scripts" => instances = [i \in Ids |-> None]
  /\ scene # "settings" => view.type = "xy_scatter"

Next ==
  /\ UNCHANGED scene
  /\ \/ scene = "canvas" /\ Placed!Next /\ UNCHANGED <<content, kept, tree, editor, view>>
     \/ scene = "panels" /\ Content!Next /\ UNCHANGED <<canvas, kept, tree, editor, view>>
     \/ scene = "files" /\ Kept!Next /\ UNCHANGED <<canvas, content, tree, editor, view>>
     \/ scene = "tree" /\ Tree!Next /\ UNCHANGED <<canvas, content, kept, editor, view>>
     \/ scene = "scripts" /\ Editor!Next /\ UNCHANGED <<canvas, content, kept, tree, view>>
     \/ scene = "settings" /\ Shown!Next /\ UNCHANGED <<canvas, content, kept, tree, editor>>

(* Frames go on, and one a second refreshes the bindings. *)
FairSpec ==
  Init /\ [][Next]_vars /\ WF_content(scene = "panels" /\ Content!Refresh)

-----------------------------------------------------------------------------
(* Properties. *)

(* Panels lie on the canvas, large enough to be grabbed and clear of each   *)
(* other, and the settings window edits the one it was opened for. *)
PanelsPlaced == scene = "canvas" => Placed!WellPlaced /\ Placed!SettingsFollow

(* A panel that is moved stops at the first it meets. *)
BlockedAtContact == [][scene = "canvas" => Placed!SlideStep]_vars

(* What is on the screen is what a save and a load would give. *)
PanelsKept ==
  /\ scene = "panels" => Content!PanelsKept
  /\ scene = "settings" => Shown!SettingsKept

(* A panel finds its channel when the topic appears. *)
BindingsResolve == scene = "panels" => Content!BindingsResolve

(* What the user wrote under the headers of the configuration file stays,   *)
(* if no write of the program is cut short. *)
FilesKept == [][scene = "files" => Kept!KeepStep]_vars

(* The documentation of a save: every other part of the file stays. *)
SectionsKept == [][scene = "files" => Kept!VerbatimStep]_vars

(* A session is found again as it was left. *)
ReopenRestores == scene = "files" => Kept!ReopenRestores

(* The channel tree lists every channel once, and a drag carries what it    *)
(* shows as selected. The script editor shows what an instance runs with,   *)
(* and what is saved is what the engine was told. *)
EditorsTruthful ==
  /\ scene = "tree" => Tree!TreeListsChannels /\ Tree!PayloadIsShown
  /\ scene = "scripts" => Editor!EngineFollows /\ Editor!DefaultsShown
=============================================================================
