-------------------------------- MODULE Names --------------------------------
(***************************************************************************)
(* Domain names in messages: parse_name_with_offset_opts, skip_dns_name    *)
(* and build_query_wire of src/src/dns/parser.rs, against a peer that      *)
(* writes names one after the other and may replace the end of each by a   *)
(* pointer to any place that reads the same, and a message that is cut.    *)
(*                                                                         *)
(* The message is a sequence of items: a label, a pointer, the end of a    *)
(* name, or what follows a name.  An octet of a label is a letter, a       *)
(* capital, a digit, a dot, a backslash, a space or a control character,   *)
(* whose number has digits only.  Bytes above 127 are left out.            *)
(***************************************************************************)
EXTENDS Naturals, Sequences, FiniteSetsExt

CONSTANTS
    Spelling,    \* the labels that are used
    MaxLabels,   \* bound: the labels of a name
    MaxNames,    \* bound: the names of a message
    Steps,       \* 128: the items a name may take
    Jumps,       \* 16: the pointers a name may take
    Octets       \* 255: the octets of a name, its end included

VARIABLES
    items,       \* the message
    places,      \* history: the names that can be read, where they begin and end
    names,       \* counts the names, against MaxNames
    strict       \* the configuration's 8-bit labels are switched off

namesVars == <<items, places, names, strict>>

Octet == {"letter", "capital", "digit", "dot", "backslash", "space", "control"}

ASSUME NamesAssumption ==
    /\ Spelling \subseteq Seq(Octet) \ {<<>>}
    /\ {MaxLabels, MaxNames, Steps, Jumps, Octets} \subseteq Nat

\* The octets that the first k labels of a name take.
Sizes(n) == LET size[k \in 0..Len(n)] == IF k = 0 THEN 0 ELSE size[k - 1] + Len(n[k]) + 1 IN size
\* What can be a name: its labels and its end have room in its octets.
Spelt == {n \in UNION {[1..k -> Spelling] : k \in 0..MaxLabels} : Sizes(n)[Len(n)] + 1 <= Octets}
Ending(n, k) == SubSeq(n, k + 1, Len(n))

Item(kind, label, to) == [kind |-> kind, label |-> label, to |-> to]
LabelItem(l) == Item("label", l, 0)
PointerTo(place) == Item("pointer", <<>>, place)
RootItem == Item("end", <<>>, 0)
RestItem == Item("rest", <<>>, 0)

---------------------------------------------------------------------------
(* Presentation: a name is text, labels between dots.                      *)

\* Mutant: only a dot is escaped.
Escaped_Dot(o) ==
    CASE o = "dot" -> <<"\\", ".">>
      [] o = "control" -> <<"\\", "digit", "digit", "digit">>
      [] o = "capital" -> <<"letter">>
      [] o = "backslash" -> <<"\\">>
      [] OTHER -> <<o>>
Escaped(o) ==
    CASE o = "dot" -> <<"\\", ".">>
      [] o = "backslash" -> <<"\\", "\\">>
      [] o = "control" -> <<"\\", "digit", "digit", "digit">>
      [] o = "capital" -> <<"letter">>
      [] OTHER -> <<o>>
\* The text of the first i octets of a label.
Presenting(l) ==
    LET text[i \in 0..Len(l)] == IF i = 0 THEN <<>> ELSE text[i - 1] \o Escaped(l[i]) IN text
Presented(l) == Presenting(l)[Len(l)]
OctetsAllowed(l) == ~strict \/ \A i \in DOMAIN l : l[i] \in {"letter", "capital", "digit"}

\* split_domain_labels: spaces around the text go, a dot that is not escaped divides it.
Trimmed(text) ==
    LET inner == {i \in DOMAIN text : text[i] # "space"}
    IN  IF inner = {} THEN <<>> ELSE SubSeq(text, Min(inner), Max(inner))
NothingSplit == [labels |-> <<>>, current |-> <<>>, escaped |-> FALSE]
Closed(s) == IF s.current = <<>> THEN s.labels ELSE Append(s.labels, s.current)
SplitAt(s, ch) ==
    IF ch = "." /\ ~s.escaped THEN [labels |-> Closed(s), current |-> <<>>, escaped |-> FALSE]
    ELSE [labels |-> s.labels, current |-> Append(s.current, ch),
          escaped |-> ch = "\\" /\ ~s.escaped]
Splitting(text) ==
    LET split[i \in 0..Len(text)] == IF i = 0 THEN NothingSplit ELSE SplitAt(split[i - 1], text[i])
    IN  split
SplitLabels(text) == Closed(Splitting(Trimmed(text))[Len(Trimmed(text))])

\* unescape_label_to_bytes: a turn of its loop, and all turns.
Unescape(l, s) ==
    LET here == s.at
        Take(some, octet) == [at |-> here + some, octets |-> Append(s.octets, octet)]
    IN  CASE here > Len(l) -> s
          [] here <= Len(l) /\ l[here] # "\\" -> Take(1, l[here])
          [] here + 3 <= Len(l) /\ l[here] = "\\" /\ (\A i \in 1..3 : l[here + i] = "digit") ->
               Take(4, "control")
          [] here = Len(l) /\ l[here] = "\\" -> [s EXCEPT !.at = here + 1]
          [] OTHER -> Take(2, CASE l[here + 1] = "." -> "dot"
                                [] l[here + 1] = "\\" -> "backslash"
                                [] OTHER -> l[here + 1])
Unescaping(l) ==
    LET turn[i \in 0..Len(l)] ==
          IF i = 0 THEN [at |-> 1, octets |-> <<>>] ELSE Unescape(l, turn[i - 1])
    IN  turn
Unescaped(l) == Unescaping(l)[Len(l)].octets

\* build_query_wire: the labels of a question for the text.
QueryLabels(text) == [k \in DOMAIN SplitLabels(text) |-> Unescaped(SplitLabels(text)[k])]

---------------------------------------------------------------------------
(* Reading.                                                                *)

Unread == [ok |-> FALSE, text |-> <<>>, end |-> 0]
Joined(text, l) == IF text = <<>> THEN Presented(l) ELSE text \o <<".">> \o Presented(l)

\* Mutant: the reader goes on after whatever it read last.
FirstEnd_Last(end, here) == here
\* The name ends, for who reads on, where its first pointer or its last label does.
FirstEnd(end, here) == IF end = 0 THEN here ELSE end

\* parse_name_with_offset_opts: a pass of its loop ...
ReadItem(r) ==
    LET open == r.state = "reading" /\ r.pos <= Len(items)
        item == items[r.pos]
        size == r.size + Len(item.label) + 1
        refused == \/ r.jumps > Jumps \/ item.kind = "rest"
                   \/ item.kind # "pointer" /\ size > Octets
                   \/ item.kind = "label" /\ ~OctetsAllowed(item.label)
        next == IF open /\ ~refused THEN item.kind ELSE "none"
    IN  CASE ~open -> r
          [] open /\ refused -> [r EXCEPT !.state = "refused"]
          [] next = "label" -> [r EXCEPT !.pos = @ + 1, !.size = size, !.text = Joined(@, item.label)]
          [] next = "pointer" ->
               [r EXCEPT !.pos = item.to, !.jumps = @ + 1, !.end = FirstEnd(@, r.pos + 1)]
          [] next = "end" -> [r EXCEPT !.state = "ended", !.end = FirstEnd(@, r.pos + 1)]
Reading(pos) ==
    LET pass[k \in 0..Steps] ==
          IF k = 0
          THEN [state |-> "reading", pos |-> pos, jumps |-> 0, size |-> 0, text |-> <<>>, end |-> 0]
          ELSE ReadItem(pass[k - 1])
    IN  pass
\* ... and what comes of all; a name that runs into the end of the message is taken.
ParseName(pos) ==
    LET r == Reading(pos)[Steps]
    IN  IF r.state # "refused" /\ (r.state = "reading" => r.pos > Len(items))
        THEN [ok |-> TRUE, text |-> r.text, end |-> FirstEnd(r.end, r.pos)]
        ELSE Unread

\* skip_dns_name: 0 when there is no end.
SkipName(pos) ==
    LET ends == {p \in pos..Len(items) :
                    /\ \A q \in pos..(p - 1) : items[q].kind = "label"
                    /\ items[p].kind \in {"pointer", "end"} /\ p - pos < Steps}
    IN  IF ends = {} THEN 0 ELSE (CHOOSE p \in ends : TRUE) + 1

---------------------------------------------------------------------------
(* The peer and the network.                                               *)

NamesInit == items = <<RestItem>> /\ places = {} /\ names = 0 /\ strict \in BOOLEAN

\* The name, of which the first k labels are spelt and the rest is `tail`.
Spell(n, k, tail) ==
    LET from == Len(items) + 1 IN
    /\ names < MaxNames /\ names' = names + 1
    /\ items' = items \o [i \in 1..k |-> LabelItem(n[i])] \o <<tail, RestItem>>
    /\ places' = places \cup {[name |-> Ending(n, i), at |-> from + i, end |-> from + k + 1] :
                                 i \in 0..k}
    /\ UNCHANGED strict
WriteName(n) == items[Len(items)] = RestItem /\ Spell(n, Len(n), RootItem)
Compress(n, k) ==
    /\ items[Len(items)] = RestItem
    /\ \E p \in places : p.name = Ending(n, k) /\ Spell(n, k, PointerTo(p.at))

\* The message is cut, and no more comes.
CutMessage(at) ==
    /\ items[Len(items)] = RestItem /\ names = MaxNames /\ at \in 1..(Len(items) - 1)
    /\ items[at] # RestItem
    /\ items' = SubSeq(items, 1, at)
    /\ UNCHANGED <<places, names, strict>>

NamesNext ==
    \/ \E n \in Spelt : WriteName(n) \/ \E k \in 0..(Len(n) - 1) : Compress(n, k)
    \/ \E at \in DOMAIN items : CutMessage(at)

NamesSpec == NamesInit /\ [][NamesNext]_namesVars

---------------------------------------------------------------------------
NamesTypeOK ==
    /\ \A i \in DOMAIN items : items[i].kind \in {"label", "pointer", "end", "rest"}
    /\ \A p \in places : p.name \in Spelt /\ p.at < p.end
    /\ names \in 0..MaxNames /\ strict \in BOOLEAN

\* The text of the first k labels of a name.
Texts(n) == LET text[k \in 0..Len(n)] == IF k = 0 THEN <<>> ELSE Joined(text[k - 1], n[k]) IN text
Text(n) == Texts(n)[Len(n)]
Lower(n) == [k \in DOMAIN n |->
                [i \in DOMAIN n[k] |-> IF n[k][i] = "capital" THEN "letter" ELSE n[k][i]]]
Here(p) == p.end <= Len(items) + 1

(***************************************************************************)
(* However its names share their ends, a message is read as it was         *)
(* written: every name in full, or, in the strict mode, not at all for an  *)
(* octet no host name has; both readers go on at the same place; and a     *)
(* question built from the text (doh_json_handler, the console) has the    *)
(* labels of the name.  A name the message was cut in ends, if it is taken *)
(* at all, with the message, so that what has to follow it is missed.      *)
(***************************************************************************)
NamesKept ==
    \A p \in places :
       LET got == ParseName(p.at) IN
       /\ Here(p) => /\ SkipName(p.at) = p.end
                     /\ got.ok <=> \A k \in DOMAIN p.name : OctetsAllowed(p.name[k])
                     /\ got.ok => /\ got.end = p.end /\ got.text = Text(p.name)
                                  /\ QueryLabels(got.text) = Lower(p.name)
       /\ ~Here(p) /\ p.at <= Len(items) => SkipName(p.at) = 0
       /\ ~Here(p) /\ got.ok => got.end > Len(items)

\* What NamesKept takes: the two bounds of the reader leave room for the names, and no label
\* begins or ends with a space, which split_domain_labels would take for one around the text.
Readable ==
    /\ MaxLabels + MaxNames <= Steps /\ MaxNames <= Jumps + 1
    /\ \A l \in Spelling : l[1] # "space" /\ l[Len(l)] # "space"

\* src/src/dns/parser.rs:21 "`next_stream_pos` is the position in the original packet stream
\* immediately following the domain name": violated, a name that is cut is taken.
NoHalfName == \A p \in places : ~Here(p) => ~ParseName(p.at).ok
=============================================================================
