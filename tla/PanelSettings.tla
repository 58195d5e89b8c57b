---------------------------- MODULE PanelSettings ---------------------------
(***************************************************************************)
(* What each type of panel remembers (src/viz): its constructor reads a    *)
(* table of the layout file, its part of the settings window (and, for a   *)
(* state graph, its legend) edits what was read, and its `serialize`       *)
(* writes a table again, in which a setting that has its default is often  *)
(* left out.                                                               *)
(*                                                                         *)
(* A table is a function from its keys. `Wrong` stands for a value of      *)
(* another type than the key takes, and for a colour that does not parse.  *)
(* A list or a table in its place is no different from none, and left out. *)
(* A constructor gives the set of what it built, empty if it refuses.      *)
(***************************************************************************)
EXTENDS Integers, Sequences, SequencesExt, Sublists

CONSTANTS
  Tables,   \* type |-> tables found in layout files
  Wrong,
  None,
  Texts,    \* what can be typed into a text field
  Blanks,   \* those of them that are only space
  Numbers,  \* values a number field is dragged to
  Hues,     \* colours of the palette, with "yellow" and "gray"
  MaxRows   \* bound on the rows of an editable list

VARIABLE view  \* the panel: its type and fields

opt(t, key, default) ==
  IF key \in DOMAIN t /\ t[key] # Wrong THEN t[key] ELSE default
inner(t, key) == IF key \in DOMAIN t THEN t[key] ELSE <<>>
Where(seq, keeps(_)) == Picked(seq, {i \in DOMAIN seq : keeps(seq[i])})
opt_str_array(t, key) == Where(inner(t, key), LAMBDA x : x # Wrong)
opt_label(t) == LET l == opt(t, "label", "") IN IF l = "" THEN None ELSE l
Parsed(t, key) ==
  LET m == inner(t, key) IN [k \in {x \in DOMAIN m : m[x] # Wrong} |-> m[k]]

(* The entries that a panel writes: all but those that say `nothing`.       *)
Written(entries, nothing) ==
  LET Said(key) == key \notin DOMAIN nothing \/ entries[key] # nothing[key]
  IN [key \in {k \in DOMAIN entries : Said(k)} |-> entries[key]]

With(m, k, value) == [j \in {k} \union DOMAIN m |-> IF j = k THEN value ELSE m[j]]

(* ColorThresholds *)
thresholds_from(t) ==
  Where(inner(t, "thresholds"), LAMBDA row : row.value # Wrong /\ row.color # Wrong)

(* StateMap *)
states_from(t) ==
  LET rows == Where(inner(t, "states"), LAMBDA row : row.match # Wrong /\ row.color # Wrong)
  IN [k \in DOMAIN rows |-> [rows[k] EXCEPT !.label = IF @ \in {"", Wrong} THEN None ELSE @]]

Pow2 == {64, 128, 256, 512, 1024, 2048, 4096, 8192, 16384, 32768, 65536}
Rounded(n) ==
  IF n > 65536 THEN 65536 ELSE CHOOSE p \in Pow2 : p >= n /\ \A q \in Pow2 : q >= n => p <= q

-----------------------------------------------------------------------------
(* The constructors. *)

waveform_ctor(t) ==
  {[type |-> "waveform", channels |-> opt_str_array(t, "channels"), label |-> opt_label(t),
    span |-> opt(t, "time_window_s", None), cursors |-> opt(t, "cursors", FALSE),
    dots |-> opt(t, "dots", FALSE), y_unit |-> opt(t, "y_unit", ""),
    colors |-> Parsed(t, "colors")]}

(* A label of a state that is not a string counts as empty; a key that is   *)
(* no integer is not accepted. *)
state_graph_ctor(t) ==
  LET m == inner(t, "states")
      aliases == Parsed(t, "aliases")
  IN IF Wrong \in DOMAIN m THEN {}
     ELSE {[type |-> "state_graph", channels |-> <<opt(t, "channel", "")>>, label |-> opt_label(t),
            states |-> [k \in DOMAIN m |-> IF m[k] = Wrong THEN "" ELSE m[k]],
            span |-> opt(t, "time_window_s", None), colors |-> Parsed(t, "colors"),
            aliases |-> [k \in {x \in DOMAIN aliases : aliases[x] # ""} |-> aliases[k]]]}

numeric_ctor(t) ==
  {[type |-> "numeric", channels |-> <<opt(t, "channel", "")>>, label |-> opt_label(t),
    unit |-> opt(t, "unit", ""), thresholds |-> thresholds_from(t),
    base |-> opt(t, "base_color", None)]}

gauge_ctor(t) ==
  LET p == [type |-> "gauge", channels |-> <<opt(t, "channel", "")>>, label |-> opt_label(t),
            min |-> opt(t, "min", 0), max |-> opt(t, "max", 100),
            style |-> LET s == opt(t, "style", "") IN
                      IF s \in {"vertical", "led", "arc"} THEN s ELSE "bar",
            thresholds |-> thresholds_from(t), base |-> opt(t, "base_color", None)]
  IN {q \in {p} : q.max > q.min}

status_ctor(t) ==
  {[type |-> "status", channels |-> <<opt(t, "channel", "")>>, label |-> opt_label(t),
    states |-> states_from(t)]}

spectrum_ctor(t) ==
  LET w == opt(t, "window", "hann") IN
  {[type |-> "spectrum", channels |-> <<opt(t, "channel", "")>>, label |-> opt_label(t),
    fft_size |-> Rounded(opt(t, "fft_size", 1024)), hann |-> x = "hann"] :
   x \in {w} \intersect {"hann", "none"}}

log_ctor(t) ==
  {[type |-> "log", channels |-> opt_str_array(t, "channels"), label |-> opt_label(t),
    max_lines |-> IF opt(t, "max_lines", 500) < 1 THEN 1 ELSE opt(t, "max_lines", 500),
    filter |-> ""]}

xy_scatter_ctor(t) ==
  {[type |-> "xy_scatter", label |-> opt_label(t), span |-> opt(t, "time_window_s", None),
    channels |-> <<opt(t, "x_channel", ""), opt(t, "y_channel", "")>>]}

(* PanelRegistry::build: a type nobody registered is refused as well.       *)
build(type, t) ==
  CASE type = "waveform" -> waveform_ctor(t) [] type = "state_graph" -> state_graph_ctor(t)
    [] type = "numeric" -> numeric_ctor(t)   [] type = "gauge" -> gauge_ctor(t)
    [] type = "status" -> status_ctor(t)     [] type = "spectrum" -> spectrum_ctor(t)
    [] type = "log" -> log_ctor(t)           [] type = "xy_scatter" -> xy_scatter_ctor(t)
    [] OTHER -> {}

-----------------------------------------------------------------------------
(* And back. *)

waveform_serialize(p) ==
  Written([channels |-> p.channels, time_window_s |-> p.span, cursors |-> p.cursors,
           dots |-> p.dots, y_unit |-> p.y_unit, colors |-> p.colors, label |-> p.label],
          [time_window_s |-> None, y_unit |-> "", colors |-> <<>>, label |-> None])

state_graph_serialize(p) ==
  Written([channel |-> p.channels[1], states |-> p.states, time_window_s |-> p.span,
           colors |-> p.colors, aliases |-> p.aliases, label |-> p.label],
          [states |-> <<>>, time_window_s |-> None, colors |-> <<>>, aliases |-> <<>>,
           label |-> None])

numeric_serialize(p) ==
  Written([channel |-> p.channels[1], label |-> p.label, unit |-> p.unit,
           thresholds |-> p.thresholds, base_color |-> p.base],
          [label |-> None, unit |-> "", thresholds |-> <<>>, base_color |-> None])

(* With a slip: the style is left out. *)
gauge_serialize_without_style(p) ==
  Written([channel |-> p.channels[1], min |-> p.min, max |-> p.max, label |-> p.label,
           thresholds |-> p.thresholds, base_color |-> p.base],
          [label |-> None, thresholds |-> <<>>, base_color |-> None])

gauge_serialize(p) ==
  Written([channel |-> p.channels[1], min |-> p.min, max |-> p.max, style |-> p.style,
           label |-> p.label, thresholds |-> p.thresholds, base_color |-> p.base],
          [style |-> "bar", label |-> None, thresholds |-> <<>>, base_color |-> None])

status_serialize(p) ==
  Written([channel |-> p.channels[1], label |-> p.label, states |-> p.states],
          [label |-> None, states |-> <<>>])

spectrum_serialize(p) ==
  Written([channel |-> p.channels[1], fft_size |-> p.fft_size,
           window |-> IF p.hann THEN "hann" ELSE "none", label |-> p.label],
          [label |-> None])

log_serialize(p) ==
  Written([channels |-> p.channels, max_lines |-> p.max_lines, label |-> p.label],
          [label |-> None])

xy_scatter_serialize(p) ==
  Written([x_channel |-> p.channels[1], y_channel |-> p.channels[2], time_window_s |-> p.span,
           label |-> p.label],
          [time_window_s |-> None, label |-> None])

serialize(p) ==
  CASE p.type = "waveform" -> waveform_serialize(p)
    [] p.type = "state_graph" -> state_graph_serialize(p)
    [] p.type = "numeric" -> numeric_serialize(p)   [] p.type = "gauge" -> gauge_serialize(p)
    [] p.type = "status" -> status_serialize(p)     [] p.type = "spectrum" -> spectrum_serialize(p)
    [] p.type = "log" -> log_serialize(p)           [] OTHER -> xy_scatter_serialize(p)

-----------------------------------------------------------------------------
(* The settings window: what one edit may make of the panel. *)

(* The field shows the default (the name of the first channel) while no     *)
(* label is set. *)
label_config_row(p, default) ==
  {[p EXCEPT !.label = IF x \in Blanks \/ x = default THEN None ELSE x] : x \in Texts}

DefaultLabel(p) == IF p.channels = <<>> THEN "" ELSE p.channels[1]

window_config_row(p) ==
  {[p EXCEPT !.span = None]} \union {[p EXCEPT !.span = n] : n \in Numbers}

Rows(seq, fresh, edits(_)) ==
  (UNION {{ReplaceAt(seq, i, r) : r \in edits(seq[i])} \union {RemoveAt(seq, i)} : i \in DOMAIN seq})
  \union {Append(seq, fresh) : x \in {y \in {1} : Len(seq) < MaxRows}}

thresholds_ui(p) ==
  LET edits(r) == {[r EXCEPT !.value = n] : n \in Numbers} \union {[r EXCEPT !.color = c] : c \in Hues}
  IN {[p EXCEPT !.thresholds = q] : q \in Rows(p.thresholds, [value |-> 0, color |-> "yellow"], edits)}
     \union {[p EXCEPT !.base = c] : c \in {None, "gray"} \union IF p.base = None THEN {} ELSE Hues}

states_ui(p) ==
  LET edits(r) ==
        {[r EXCEPT !.match = x] : x \in Texts} \union {[r EXCEPT !.color = c] : c \in Hues}
        \union {[r EXCEPT !.label = IF x \in Blanks THEN None ELSE x] : x \in Texts}
  IN {[p EXCEPT !.states = q] :
        q \in Rows(p.states, [match |-> "", label |-> None, color |-> "gray"], edits)}

(* A line can be coloured from the legend: see Screens. *)
waveform_ui(p) ==
  label_config_row(p, DefaultLabel(p)) \union window_config_row(p)
  \union {[p EXCEPT !.y_unit = x] : x \in Texts}
  \union {[p EXCEPT !.cursors = ~@], [p EXCEPT !.dots = ~@]}

(* With its legend: a colour and an alias per state, by the state's value.  *)
(* An alias is trimmed, which leaves nothing of a blank one. *)
state_graph_ui(p) ==
  LET Aliased(k, x) == [p EXCEPT !.aliases =
        IF x \in Blanks THEN [j \in DOMAIN @ \ {k} |-> @[j]] ELSE With(@, k, x)]
  IN label_config_row(p, p.channels[1]) \union window_config_row(p)
     \union {[p EXCEPT !.colors = With(@, k, c)] : k \in DOMAIN p.states, c \in Hues}
     \union {Aliased(k, x) : k \in DOMAIN p.states, x \in Texts}

numeric_ui(p) ==
  label_config_row(p, p.channels[1]) \union {[p EXCEPT !.unit = x] : x \in Texts} \union thresholds_ui(p)

(* Dragging one end of the scale past the other moves the maximum. *)
gauge_ui(p) ==
  LET Valid(q) == IF q.max <= q.min THEN [q EXCEPT !.max = q.min + 1] ELSE q
  IN label_config_row(p, p.channels[1])
     \union {[p EXCEPT !.style = s] : s \in {"bar", "vertical", "led", "arc"}}
     \union {Valid([p EXCEPT !.min = n]) : n \in Numbers} \union {Valid([p EXCEPT !.max = n]) : n \in Numbers}
     \union thresholds_ui(p)

status_ui(p) == label_config_row(p, p.channels[1]) \union states_ui(p)

spectrum_ui(p) ==
  label_config_row(p, p.channels[1])
  \union {[p EXCEPT !.fft_size = n] : n \in {256, 1024, 4096, 16384}} \union {[p EXCEPT !.hann = ~@]}

log_ui(p) ==
  label_config_row(p, DefaultLabel(p)) \union {[p EXCEPT !.filter = x] : x \in Texts}
  \union {[p EXCEPT !.max_lines = n] : n \in {m \in Numbers : m >= 1}}

xy_scatter_ui(p) ==
  label_config_row(p, "") \union window_config_row(p)

config_ui(p) ==
  CASE p.type = "waveform" -> waveform_ui(p) [] p.type = "state_graph" -> state_graph_ui(p)
    [] p.type = "numeric" -> numeric_ui(p)   [] p.type = "gauge" -> gauge_ui(p)
    [] p.type = "status" -> status_ui(p)     [] p.type = "spectrum" -> spectrum_ui(p)
    [] p.type = "log" -> log_ui(p)           [] OTHER -> xy_scatter_ui(p)

-----------------------------------------------------------------------------
Init == \E type \in DOMAIN Tables : \E t \in Tables[type] : view \in build(type, t)

Edit == view' \in config_ui(view)

(* The layout is saved and loaded. *)
Reload == view' \in build(view.type, serialize(view))

Next == Edit \/ Reload

-----------------------------------------------------------------------------
(* A layout that is saved loads again, with every setting as it was on the  *)
(* screen; only what is typed into the filter of a log is not kept. What a  *)
(* hand-written table says and the panel understood is kept as well. *)
SettingsKept ==
  build(view.type, serialize(view)) =
    {IF view.type = "log" THEN [view EXCEPT !.filter = ""] ELSE view}
=============================================================================
