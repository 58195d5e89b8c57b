-------------------------------- MODULE Wire --------------------------------
(***************************************************************************)
(* From bytes to messages: the frames of a bridge adapter                  *)
(* (src/ingest/bridge/frame.rs) and a line of an InfluxDB client           *)
(* (src/ingest/lineproto.rs).                                              *)
(*                                                                         *)
(* An adapter writes frames into a pipe, a prefix and then the body, and   *)
(* may end at any byte; the reader takes what happens to be there. A byte  *)
(* is <<frame, place>>.                                                    *)
(*                                                                         *)
(* A line is a sequence of characters, of which the delimiters, the escape *)
(* and the quote are told apart. A client escapes the delimiters in a name *)
(* and quotes a text value.                                                *)
(***************************************************************************)
EXTENDS Integers, Sequences, FiniteSets, SequencesExt, FiniteSetsExt

CONSTANTS
  Bodies,    \* the lengths of the frames an adapter writes
  MaxFrame,  \* MAX_FRAME_BYTES
  Names,     \* what a client writes: measurements, keys, tag values
  TextValues, \* text values
  Numbers,   \* other values, as <<literal, payload>>
  Prefix,    \* bytes of a length prefix: 4 in the code
  None

VARIABLES
  wire,    \* "frames" or "line"
  sending, \* the byte the adapter writes next
  alive,   \* it runs
  pipe,    \* bytes in the pipe
  buf,     \* bytes of the frame in hand
  got,     \* the frames returned
  verdict, \* how next_frame ended the stream
  said,    \* the readings a client put in a line
  heard    \* what parse_line made of it

frame_vars == <<sending, alive, pipe, buf, got, verdict>>
line_vars  == <<said, heard>>
vars == <<wire, frame_vars, line_vars>>

-----------------------------------------------------------------------------
(* Frames. *)

Size(f) == Prefix + Bodies[f]
BytesOf(f) == [i \in 1..Size(f) |-> <<f, i>>]

(* The byte after another one: after the last of a frame, the next frame's  *)
(* first. *)
After(b) == IF b[2] = Size(b[1]) THEN <<b[1] + 1, 1>> ELSE <<b[1], b[2] + 1>>

(* The length a prefix of these bytes stands for. *)
Length(bytes) == Bodies[bytes[1][1]]

AdapterWrites ==
  /\ alive /\ sending[1] \in DOMAIN Bodies
  /\ pipe' = Append(pipe, sending)
  /\ sending' = After(sending)
  /\ UNCHANGED <<wire, alive, buf, got, verdict, line_vars>>

AdapterEnds ==
  /\ alive /\ alive' = FALSE
  /\ UNCHANGED <<wire, sending, pipe, buf, got, verdict, line_vars>>

TooLong == Len(buf) >= Prefix /\ Length(buf) > MaxFrame
Wanted == IF Len(buf) < Prefix \/ TooLong THEN Prefix ELSE Prefix + Length(buf)

ReadFullOnce ==
  /\ verdict = None /\ pipe # << >> /\ Len(buf) < Wanted
  /\ LET n == Min({Len(pipe), Wanted - Len(buf)}) IN
       buf' = buf \o SubSeq(pipe, 1, n) /\ pipe' = SubSeq(pipe, n + 1, Len(pipe))
  /\ verdict' = IF Len(buf') < Prefix THEN "io" ELSE None
  /\ UNCHANGED <<wire, sending, alive, got, line_vars>>

(* read_full and read_exact: one read returns what is there, up to what is  *)
(* still wanted; nothing is there once the adapter is gone and the pipe is  *)
(* empty. *)
ReadSome ==
  /\ verdict = None /\ pipe # << >> /\ Len(buf) < Wanted
  /\ LET n == Min({Len(pipe), Wanted - Len(buf)}) IN
       buf' = buf \o SubSeq(pipe, 1, n) /\ pipe' = SubSeq(pipe, n + 1, Len(pipe))
  /\ UNCHANGED <<wire, sending, alive, got, verdict, line_vars>>

Complete == Len(buf) >= Prefix /\ Len(buf) = Wanted

NextFrame ==
  /\ verdict = None /\ Complete /\ ~TooLong
  /\ got' = Append(got, buf) /\ buf' = << >>
  /\ UNCHANGED <<wire, sending, alive, pipe, verdict, line_vars>>

Oversized ==
  /\ verdict = None /\ TooLong
  /\ verdict' = "oversized"
  /\ UNCHANGED <<wire, sending, alive, pipe, buf, got, line_vars>>

EndOfStream ==
  /\ verdict = None /\ pipe = << >> /\ ~alive /\ ~Complete
  /\ verdict' = IF buf = << >> THEN "end" ELSE "io"
  /\ UNCHANGED <<wire, sending, alive, pipe, buf, got, line_vars>>

-----------------------------------------------------------------------------
(* Lines. *)

Esc == "\\"
Quote == "\""

(* A backslash escapes the next character, and is escaped by one before it. *)
IsEscaped(s, i) ==
  LET before == {j \in 0..(i - 1) : \A k \in (j + 1)..(i - 1) : s[k] = Esc}
  IN (i - 1 - Min(before)) % 2 = 1

IsQuoted(s, i) ==
  Cardinality({j \in 1..(i - 1) : s[j] = Quote /\ ~IsEscaped(s, j)}) % 2 = 1

CutsInQuotes(s, delim) == {i \in DOMAIN s : s[i] = delim /\ ~IsEscaped(s, i)}

Cuts(s, delim) == {i \in DOMAIN s : s[i] = delim /\ ~IsEscaped(s, i) /\ ~IsQuoted(s, i)}

(* The pieces keep their backslashes and quotes. *)
split_unescaped(s, delim) ==
  LET cuts == SetToSortSeq(Cuts(s, delim) \union {0, Len(s) + 1}, <)
  IN [k \in 1..(Len(cuts) - 1) |-> SubSeq(s, cuts[k] + 1, cuts[k + 1] - 1)]

split_key_value(s) ==
  IF Cuts(s, "=") = {} THEN None
  ELSE LET i == Min(Cuts(s, "=")) IN <<SubSeq(s, 1, i - 1), SubSeq(s, i + 1, Len(s))>>

Without(s, dropped) ==
  LET kept == SetToSortSeq(DOMAIN s \ dropped, <) IN [k \in DOMAIN kept |-> s[kept[k]]]

(* A backslash at the very end escapes nothing and stays. *)
unescape(s) ==
  Without(s, {i \in 1..(Len(s) - 1) : s[i] = Esc /\ ~IsEscaped(s, i)})

TrueTokens == {<<"t">>, <<"T">>}
FalseTokens == {<<"f">>, <<"F">>}
Digits == {"0", "1"}

IsInteger(v) == v # << >> /\ \A i \in DOMAIN v : v[i] \in Digits

normalize_value(v) ==
  LET inner == SubSeq(v, 2, Len(v) - 1)
      stem == SubSeq(v, 1, Len(v) - 1)
  IN IF Len(v) >= 2 /\ v[1] = Quote /\ Last(v) = Quote
     THEN Without(inner, {i \in 1..(Len(inner) - 1) : inner[i] = Esc /\ inner[i + 1] = Quote})
     ELSE IF v \in TrueTokens THEN <<"true">>
     ELSE IF v \in FalseTokens THEN <<"false">>
     ELSE IF v # << >> /\ Last(v) \in {"i", "u"}
             /\ IsInteger(IF stem # << >> /\ stem[1] = "-" THEN Tail(stem) ELSE stem)
     THEN stem ELSE v

(* The tags of a topic are in the order of their keys: they are a set.      *)
parse_line(line) ==
  LET parts == split_unescaped(line, " ")
      meta == split_unescaped(parts[1], ",")
      tags == {split_key_value(kv) : kv \in ToSet(Tail(meta))}
      fields == SelectSeq(split_unescaped(parts[2], ","), LAMBDA kv :
                  split_key_value(kv) # None /\ unescape(split_key_value(kv)[1]) # << >>)
  IN IF Len(parts) < 2 \/ meta[1] = << >> \/ None \in tags
        \/ (Len(parts) >= 3 /\ ~IsInteger(parts[3]))
     THEN << >>
     ELSE [i \in DOMAIN fields |->
            LET kv == split_key_value(fields[i]) IN
            [measurement |-> unescape(meta[1]),
             tags |-> {<<unescape(t[1]), unescape(t[2])>> : t \in tags},
             field |-> unescape(kv[1]), payload |-> normalize_value(kv[2]),
             time |-> IF Len(parts) >= 3 THEN parts[3] ELSE None]]

(* What a client writes. *)
Escaped(name) ==
  FlattenSeq([i \in DOMAIN name |->
    IF name[i] \in {",", "=", " "} THEN <<Esc, name[i]>> ELSE <<name[i]>>])
QuotedText(v) ==
  <<Quote>> \o FlattenSeq([i \in DOMAIN v |-> IF v[i] = Quote THEN <<Esc, Quote>> ELSE <<v[i]>>])
            \o <<Quote>>

Values == {<<QuotedText(v), v>> : v \in TextValues} \union Numbers

Line(measurement, tags, fields, time) ==
  Escaped(measurement)
  \o FlattenSeq([i \in DOMAIN tags |-> <<",">> \o Escaped(tags[i][1]) \o <<"=">> \o Escaped(tags[i][2])])
  \o FlattenSeq([i \in DOMAIN fields |->
       <<IF i = 1 THEN " " ELSE ",">> \o Escaped(fields[i].key) \o <<"=">> \o fields[i].value[1]])
  \o IF time = None THEN << >> ELSE <<" ">> \o time

Fields == [key : Names, value : Values]

LineArrives ==
  /\ wire = "line" /\ said = << >>
  /\ \E measurement \in Names, tag \in Names \X Names, time \in {None, <<"1">>} :
     \E tags \in {<< >>, <<tag>>}, first \in Fields, rest \in {<< >>, <<CHOOSE f \in Fields : TRUE>>} :
       LET fields == <<first>> \o rest IN
       /\ said' = [i \in DOMAIN fields |->
                     [measurement |-> measurement, tags |-> ToSet(tags), field |-> fields[i].key,
                      payload |-> fields[i].value[2], time |-> time]]
       /\ heard' = parse_line(Line(measurement, tags, fields, time))
  /\ UNCHANGED <<wire, frame_vars>>

-----------------------------------------------------------------------------
Init ==
  /\ wire \in {"frames", "line"}
  /\ sending = <<1, 1>> /\ alive = (wire = "frames")
  /\ pipe = << >> /\ buf = << >> /\ got = << >> /\ verdict = None
  /\ said = << >> /\ heard = << >>

Next ==
  \/ AdapterWrites \/ AdapterEnds
  \/ wire = "frames" /\ (ReadSome \/ NextFrame \/ Oversized \/ EndOfStream)
  \/ LineArrives

Spec == Init /\ [][Next]_vars

-----------------------------------------------------------------------------
(* Properties. *)

TypeOK ==
  /\ sending \in Nat \X Nat /\ alive \in BOOLEAN
  /\ verdict \in {None, "end", "io", "oversized"}

(* However the bytes of an adapter arrive, its frames are returned whole    *)
(* and in order, none is skipped, and the stream is given up for what the   *)
(* adapter did: it ended between two frames, inside one, or announced one   *)
(* that is too long. *)
FramesWhole ==
  LET frame == Len(got) + 1 IN
  /\ \A i \in DOMAIN got : got[i] = BytesOf(i)
  /\ verdict = "end" => ~alive /\ sending = <<frame, 1>>
  /\ verdict = "io" => ~alive /\ sending[1] = frame /\ sending[2] > 1
  /\ verdict = "oversized" => Bodies[frame] > MaxFrame

(* A delimiter in a name or in a text value never splits it: each field of  *)
(* a line arrives on its own topic, with the value and the time the client  *)
(* wrote. *)
LineReadsBack == heard = said
=============================================================================
