------------------------------- MODULE Screens ------------------------------
(***************************************************************************)
(* What the panels of a screen are made of: their type, the channels they  *)
(* are bound to, the colours picked for them and their settings, from the  *)
(* layout file to the panel (ctor) and back (serialize).                   *)
(*                                                                         *)
(* A binding holds a name and, once the name is registered, its channel. A *)
(* name may be unknown when the layout is loaded (a topic no message of    *)
(* which has come) and is looked up again every second while a source that *)
(* discovers topics runs. Dropping a discovered topic registers it.        *)
(*                                                                         *)
(* Geometry is Canvas.tla, what a panel draws Panels.tla and Plots.tla.    *)
(***************************************************************************)
EXTENDS Integers, Sequences, SequencesExt

CONSTANTS
  Configured,  \* names of the channels of the configuration file
  Dynamic,     \* topics that are not in it
  Coloured,    \* configured channels with a colour of their own
  ChannelOf,   \* topic |-> the configured channel that carries it
  ArityOf,     \* panel type |-> "many", "one" or "pair"
  Recolors,    \* the types whose legend offers a colour per channel
  Files,       \* layouts found at the first start
  MaxPanels,
  None         \* no channel chosen

VARIABLES
  panels,      \* ScreenState.panels
  known,       \* names in the channel registry
  discovered,  \* topics the running source has seen
  snapshot,    \* the interface's copy of them
  source,      \* are topics discovered: in Live, while a source does so
  file         \* the screen as the layout file has it

vars == <<panels, known, discovered, snapshot, source, file>>

Raws == Configured \union Dynamic \union DOMAIN ChannelOf

Blank(type) ==
  CASE ArityOf[type] = "many" -> <<>>
    [] ArityOf[type] = "one"  -> <<None>>
    [] ArityOf[type] = "pair" -> <<None, None>>

Entry(type, names) ==
  [type |-> type, names |-> names, colors |-> {}, setting |-> 0, ok |-> TRUE]

Undefined ==
  [type |-> "placeholder", names |-> <<>>, colors |-> {}, setting |-> 0, ok |-> TRUE]

-----------------------------------------------------------------------------
(* Bindings, and panels from and to their configuration. *)

bind(n, reg) ==
  [name |-> n, bound |-> n \in reg,
   color |-> IF n \in reg \intersect Coloured THEN "own" ELSE "auto"]

Repainted(b, colors) ==
  IF b.name \in colors THEN [b EXCEPT !.color = "picked"] ELSE b

(* A panel whose constructor refuses its configuration is an ErrorPanel: it *)
(* has no channels and remembers the entry. *)
Build(e, reg) ==
  [type |-> e.type, orig |-> IF e.ok THEN <<>> ELSE <<e>>,
   setting |-> e.setting, colors |-> e.colors, hidden |-> {},
   chans |-> IF ~e.ok THEN <<>>
             ELSE [k \in DOMAIN e.names |-> Repainted(bind(e.names[k], reg), e.colors)]]

Broken(p) == p.orig # <<>>

Serialize(p) ==
  IF Broken(p) THEN p.orig[1]
  ELSE [type |-> p.type, names |-> [k \in DOMAIN p.chans |-> p.chans[k].name],
        colors |-> p.colors, setting |-> p.setting, ok |-> TRUE]

Built(entries, reg) == [i \in DOMAIN entries |-> Build(entries[i], reg)]

Saved == [i \in DOMAIN panels |-> Serialize(panels[i])]

(* resolve_or_register_drop: the channel a string stands for, if any, where *)
(* `seen` are the names registered and the topics that can be. *)
Resolve(raw, seen) ==
  IF raw \in DOMAIN ChannelOf THEN {ChannelOf[raw]} ELSE {raw} \intersect seen

Seen == known \union IF source THEN snapshot ELSE {}

(* A channel is added to a waveform or a log, taken instead of the old one, *)
(* or taken as x, the old x becoming y. *)
drop_on_many(p, n, reg) ==
  IF \E k \in DOMAIN p.chans : p.chans[k].name = n THEN p
  ELSE [p EXCEPT !.chans = Append(@, bind(n, reg))]
drop_on_one(p, n, reg) == [p EXCEPT !.chans = <<bind(n, reg)>>]
drop_on_pair(p, n, reg) == [p EXCEPT !.chans = <<bind(n, reg), @[1]>>]

drop_channel(p, n, reg) ==
  IF Broken(p) \/ p.type = "placeholder" THEN p
  ELSE CASE ArityOf[p.type] = "many" -> drop_on_many(p, n, reg)
         [] ArityOf[p.type] = "one"  -> drop_on_one(p, n, reg)
         [] ArityOf[p.type] = "pair" -> drop_on_pair(p, n, reg)

drop_raw(p, raw, seen, reg) ==
  IF Resolve(raw, seen) = {} THEN p
  ELSE drop_channel(p, CHOOSE n \in Resolve(raw, seen) : TRUE, reg)

refresh_binding(b, reg) ==
  IF b.bound \/ b.name = None \/ Resolve(b.name, reg) = {} THEN b
  ELSE bind(CHOOSE n \in Resolve(b.name, reg) : TRUE, reg)

Unresolved(p) == {b.name : b \in {c \in ToSet(p.chans) : ~c.bound}} \ {None}

refresh_bindings(p, reg) ==
  [p EXCEPT !.chans = [k \in DOMAIN @ |-> refresh_binding(@[k], reg)]]

(* A waveform puts the colour picked for a channel back when its binding    *)
(* resolves. *)
Rebound(p, reg) ==
  LET q == refresh_bindings(p, reg) IN
  IF p.type \notin Recolors THEN q
  ELSE [q EXCEPT !.chans =
         [k \in DOMAIN @ |-> IF @[k].bound /\ ~p.chans[k].bound THEN Repainted(@[k], p.colors) ELSE @[k]]]

-----------------------------------------------------------------------------
Init ==
  /\ file \in Files
  /\ panels = Built(file, Configured)
  /\ known = Configured
  /\ discovered = {} /\ snapshot = {}
  /\ source \in BOOLEAN

(* "Add panel here": a pane whose type is chosen later, and bare then.      *)
AddAt ==
  /\ Len(panels) < MaxPanels
  /\ panels' = Append(panels, Build(Undefined, known))
  /\ UNCHANGED <<known, discovered, snapshot, source, file>>

Define(i, type) ==
  /\ panels[i].type = "placeholder"
  /\ panels' = [panels EXCEPT ![i] = Build(Entry(type, Blank(type)), known)]
  /\ UNCHANGED <<known, discovered, snapshot, source, file>>

(* The dialog: a type, and registered channels in the order of the clicks.  *)
build_panel_entry(type, selected) ==
  LET enough == CASE ArityOf[type] = "many" -> selected # <<>>
                  [] ArityOf[type] = "one"  -> Len(selected) = 1
                  [] ArityOf[type] = "pair" -> Len(selected) = 2
  IN IF enough THEN {Entry(type, selected)} ELSE {}

AddPanel(type, selected) ==
  /\ Len(panels) < MaxPanels
  /\ \E e \in build_panel_entry(type, selected) : panels' = Append(panels, Build(e, known))
  /\ UNCHANGED <<known, discovered, snapshot, source, file>>

Delete(i) ==
  /\ panels' = RemoveAt(panels, i)
  /\ UNCHANGED <<known, discovered, snapshot, source, file>>

(* What is dragged is one name or several (here two); each is resolved in   *)
(* turn. *)
Drop(i, raw, other) ==
  /\ known' = known \union Resolve(raw, Seen) \union Resolve(other, Seen)
  /\ panels' = [panels EXCEPT ![i] =
       drop_raw(drop_raw(@, raw, Seen, known'), other, Seen, known')]
  /\ UNCHANGED <<discovered, snapshot, source, file>>

(* The legend of a waveform. *)
PickColor(i, k) ==
  /\ panels[i].type \in Recolors
  /\ panels' = [panels EXCEPT
       ![i].chans[k].color = "picked",
       ![i].colors = @ \union {panels[i].chans[k].name}]
  /\ UNCHANGED <<known, discovered, snapshot, source, file>>

AutomaticColor(i, k) ==
  /\ panels[i].type \in Recolors
  /\ panels[i].chans[k].color # "auto"
  /\ panels' = [panels EXCEPT
       ![i].chans[k].color = "auto",
       ![i].colors = @ \ {panels[i].chans[k].name}]
  /\ UNCHANGED <<known, discovered, snapshot, source, file>>

(* With a slip: the colour stays behind. *)
WithoutChannelOnly(p, k) == [p EXCEPT !.chans = RemoveAt(@, k)]

WithoutChannel(p, k) ==
  [p EXCEPT !.chans = RemoveAt(@, k),
            !.hidden = @ \ {p.chans[k].name},
            !.colors = @ \ {p.chans[k].name}]

RemoveChannel(i, k) ==
  /\ panels[i].type \in Recolors
  /\ panels' = [panels EXCEPT ![i] = WithoutChannel(@, k)]
  /\ UNCHANGED <<known, discovered, snapshot, source, file>>

ToggleHidden(i, k) ==
  /\ panels[i].type \in Recolors
  /\ panels' = [panels EXCEPT ![i].hidden =
       SymDiff(@, {panels[i].chans[k].name})]
  /\ UNCHANGED <<known, discovered, snapshot, source, file>>

(* config_ui: label, window, limits, thresholds ... *)
Configure(i) ==
  /\ ~Broken(panels[i]) /\ panels[i].type # "placeholder"
  /\ panels' = [panels EXCEPT ![i].setting = 1 - @]
  /\ UNCHANGED <<known, discovered, snapshot, source, file>>

(* A message on a topic no channel is configured for. *)
Discover(n) ==
  /\ source
  /\ discovered' = discovered \union {n}
  /\ UNCHANGED <<panels, known, snapshot, source, file>>

(* The script engine registers an output. *)
Register(n) ==
  /\ known' = known \union {n}
  /\ UNCHANGED <<panels, discovered, snapshot, source, file>>

(* A source comes or goes, or a replay is closed; the topics seen are the   *)
(* manager's and stay. *)
ToggleSource ==
  /\ source' = ~source
  /\ snapshot' \in {snapshot, discovered}
  /\ UNCHANGED <<panels, known, discovered, file>>

(* A recording is opened: its channels are registered and names looked up.  *)
OpenReplay(names) ==
  /\ known' = known \union names
  /\ panels' = [i \in DOMAIN panels |-> Rebound(panels[i], known')]
  /\ source' = FALSE
  /\ UNCHANGED <<discovered, snapshot, file>>

(* With a slip: only registered names are looked up. *)
RefreshKnown ==
  /\ source
  /\ snapshot' = discovered
  /\ panels' = [i \in DOMAIN panels |-> Rebound(panels[i], known)]
  /\ UNCHANGED <<known, discovered, source, file>>

(* Every second: copy the topics and look unresolved names up again. *)
Refresh ==
  /\ source
  /\ snapshot' = discovered
  /\ known' = known \union
       UNION {Resolve(n, known \union snapshot') : n \in UNION {Unresolved(panels[i]) : i \in DOMAIN panels}}
  /\ panels' = [i \in DOMAIN panels |-> Rebound(panels[i], known')]
  /\ UNCHANGED <<discovered, source, file>>

Save == file' = Saved /\ UNCHANGED <<panels, known, discovered, snapshot, source>>

Load ==
  /\ panels' = Built(file, known)
  /\ UNCHANGED <<known, discovered, snapshot, source, file>>

(* The program ends, by Exit (which saves) or not, and starts again. *)
Restart ==
  /\ file' \in {file, Saved}
  /\ panels' = Built(file', Configured)
  /\ known' = Configured
  /\ discovered' = {} /\ snapshot' = {}
  /\ UNCHANGED source

Next ==
  \/ AddAt
  \/ \E type \in DOMAIN ArityOf, n, m \in known :
       AddPanel(type, <<n>>) \/ (n # m /\ AddPanel(type, <<n, m>>))
  \/ \E i \in DOMAIN panels :
       \/ Delete(i) \/ Configure(i)
       \/ \E type \in DOMAIN ArityOf : Define(i, type)
       \/ \E raw \in Raws, other \in Raws \union {None} : raw # other /\ Drop(i, raw, other)
       \/ \E k \in DOMAIN panels[i].chans :
            PickColor(i, k) \/ AutomaticColor(i, k) \/ RemoveChannel(i, k) \/ ToggleHidden(i, k)
  \/ \E n \in Dynamic : Discover(n) \/ Register(n) \/ OpenReplay({n})
  \/ ToggleSource \/ Refresh \/ Save \/ Load \/ Restart

-----------------------------------------------------------------------------
(* Properties. *)

(* What is on the screen is what a save and a load would give: the panels,  *)
(* their channels in their order, their settings, and, for each channel, a  *)
(* colour that was picked and no other.  A panel that could not be built    *)
(* keeps its entry. *)
PanelsKept ==
  \A i \in DOMAIN panels :
    LET p == panels[i]
        q == Build(Serialize(p), known)
    IN /\ q.type = p.type /\ q.setting = p.setting /\ Serialize(q) = Serialize(p)
       /\ \A k \in DOMAIN p.chans :
            (p.chans[k].color = "picked") = (q.chans[k].color = "picked")

Waiting(n) == \E i \in DOMAIN panels : n \in Unresolved(panels[i])

(* A panel bound to a topic that was unknown when it was loaded is bound to *)
(* the channel once a message has come, if the source stays. *)
BindingsResolve ==
  \A n \in Dynamic :
    (Waiting(n) /\ n \in discovered) ~> (~Waiting(n) \/ n \notin discovered \/ ~source)
=============================================================================
