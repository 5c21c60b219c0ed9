------------------------------- MODULE GdHeader -------------------------------
(***************************************************************************)
(* The header chunk of a level: LevelParser.cpp reads it into a field map  *)
(* and keeps the text itself where the map does not give it back;          *)
(* GdHeader.cpp merges three such texts key by key and, for the colour     *)
(* channels, channel by channel.                                           *)
(*                                                                         *)
(* A text is its tokens: key and value pairs in their order, and possibly  *)
(* one token left over.  The value of ColorKey is a text of its own, whose *)
(* reading is the constant ChannelsOf.                                     *)
(***************************************************************************)
EXTENDS Differ, Naturals, Sequences, FiniteSets

CONSTANTS
    KeyOrder,     \* the keys in the order of std::string
    ColorKey,     \* "kS38"
    Channel,      \* colour channel ids
    ChannelsOf,   \* parseChannels: text -> (channel -> record), Malformed if it returns nullopt
    Malformed     \* std::nullopt, where a text cannot be read

Text == [kv : Seq(Key \X Str), odd : BOOLEAN]
NoText == [kv |-> <<>>, odd |-> FALSE]

\* A level whose header may have any text.
Level == [rawHeader : Text, header : FieldMap, objects : ObjectMap]

Distinct(s) == \A m, n \in DOMAIN s : s[m] = s[n] => m = n
RangeOf(s) == {s[n] : n \in DOMAIN s}

\* The texts of channels that can be read, and the records in them, Nil included.
Readable == {v \in Str : ChannelsOf[v] # Malformed}
Record == UNION {{ChannelsOf[v][c] : c \in Channel} : v \in Readable}

ASSUME GdHeaderAssumption ==
    /\ EmptyRaw = NoText /\ RawText \subseteq Text
    /\ KeyOrder \in Seq(Key) /\ Distinct(KeyOrder) /\ RangeOf(KeyOrder) = Key
    /\ IsFiniteSet(Channel) /\ Malformed # Nil

\* parseChannels reads the empty text as no channels, and serializeChannels writes any choice of
\* readable records as a text that reads as this choice.
ASSUME ChannelsAssumption ==
    /\ \A v \in Str : ChannelsOf[v] # Nil
    /\ Empty \in Readable /\ \A c \in Channel : ChannelsOf[Empty][c] = Nil
    /\ \A v \in Readable : ChannelsOf[v] \in [Channel -> Record]
    /\ \A colors \in [Channel -> Record] :
        /\ colors # Malformed
        /\ (\A c \in Channel : \E v \in Readable : ChannelsOf[v][c] = colors[c])
            => \E v \in Str : ChannelsOf[v] = colors

-------------------------------------------------------------------------------
(***************************************************************************)
(* LevelParser.cpp                                                         *)
(***************************************************************************)

\* The elements of s that are in S, in their order.
Selected(s, S) ==
    LET upTo[n \in 0 .. Len(s)] ==
            IF n = 0 THEN <<>>
            ELSE IF s[n] \in S THEN Append(upTo[n - 1], s[n]) ELSE upTo[n - 1]
    IN  upTo[Len(s)]

\* A text with these keys.
TextOf(keys, fields) == [kv |-> [n \in DOMAIN keys |-> <<keys[n], fields[keys[n]]>>], odd |-> FALSE]

\* An empty last token is dropped by both readers: a pair whose value is empty then has no value.
EndsEmpty(text) == ~text.odd /\ text.kv # <<>> /\ text.kv[Len(text.kv)][2] = Empty
PairsOf(text) == IF EndsEmpty(text) THEN SubSeq(text.kv, 1, Len(text.kv) - 1) ELSE text.kv

\* readKvChunk: of two pairs with one key the first counts.
FieldsOf(text) ==
    LET kv == PairsOf(text)
        At(k) == {n \in DOMAIN kv : kv[n][1] = k}
    IN  [k \in Key |-> IF At(k) = {} THEN Nil
                       ELSE kv[CHOOSE n \in At(k) : \A m \in At(k) : n <= m][2]]

\* serializeFields: sorted by key.
SerializeFields(fields) == TextOf(Selected(KeyOrder, {k \in Key : fields[k] # Nil}), fields)

\* parseLevelString, for a level without objects.
ParseHeaderChunk(text) ==
    [EmptyState EXCEPT !.header = FieldsOf(text),
                       !.rawHeader = IF SerializeFields(FieldsOf(text)) = text THEN EmptyRaw ELSE text]

\* The chunk that serializeLevelString writes.
WrittenHeader(s) == IF s.rawHeader # EmptyRaw THEN s.rawHeader ELSE SerializeFields(s.header)

-------------------------------------------------------------------------------
(***************************************************************************)
(* mergeHeaders3Way                                                        *)
(***************************************************************************)

KeysOf(text) == [n \in DOMAIN text.kv |-> text.kv[n][1]]

\* parseHeader: no token left over, and no key twice.
Parses(text) ==
    /\ ~text.odd /\ ~EndsEmpty(text)
    /\ Distinct(KeysOf(text))

\* One value of three: ours unless only theirs moved.
Pick(b, o, t) == IF o = b THEN t ELSE o
Clash(b, o, t) == o # t /\ o # b /\ t # b

\* keyOrder: ours, then what is new in theirs, then what is only in the base.
MergedKeys(base, ours, theirs) ==
    LET O == KeysOf(ours)  T == KeysOf(theirs)  B == KeysOf(base)
    IN  O \o Selected(T, Key \ RangeOf(O)) \o Selected(B, Key \ (RangeOf(O) \cup RangeOf(T)))

\* What a value of ColorKey reads as, Nil if there is none.
Colors(v) == IF v = Nil THEN Nil ELSE ChannelsOf[v]
RecordAt(colors, c) == IF colors = Nil THEN Nil ELSE colors[c]

\* serializeChannels: one text of the channels.
ChannelText(colors) == IF colors = Nil THEN Nil ELSE CHOOSE v \in Str : ChannelsOf[v] = colors

\* Mutant: only the channels that both sides have are looked at.
MergedChannels_OfBoth(B, O, T) ==
    IF Clash(B, O, T)
    THEN [c \in Channel |-> IF RecordAt(O, c) = Nil \/ RecordAt(T, c) = Nil THEN Nil
                            ELSE Pick(RecordAt(B, c), RecordAt(O, c), RecordAt(T, c))]
    ELSE Pick(B, O, T)

MergedChannels(B, O, T) ==
    IF Clash(B, O, T)
    THEN [c \in Channel |-> Pick(RecordAt(B, c), RecordAt(O, c), RecordAt(T, c))]
    ELSE Pick(B, O, T)

\* The merged value of ColorKey and its conflicts.
MergeColors(b, o, t) ==
    LET B == Colors(b)  O == Colors(o)  T == Colors(t)
    IN  IF B = Malformed \/ O = Malformed \/ T = Malformed
        THEN [value |-> o, conflicts |-> 1]
        ELSE [value |-> ChannelText(MergedChannels(B, O, T)),
              conflicts |-> IF Clash(B, O, T)
                            THEN Cardinality({c \in Channel : Clash(RecordAt(B, c), RecordAt(O, c),
                                                                    RecordAt(T, c))})
                            ELSE 0]

MergedValue(k, b, o, t) == IF k = ColorKey THEN MergeColors(b, o, t).value ELSE Pick(b, o, t)

\* parseHeader's map: the value of a key in a text that parses, Nil if it has none.
ValueIn(text, k) ==
    IF \E n \in DOMAIN text.kv : text.kv[n][1] = k
    THEN text.kv[CHOOSE n \in DOMAIN text.kv : text.kv[n][1] = k][2]
    ELSE Nil

\* The merged values of the keys, and the conflicts: one of a plain key, any number of the colours.
MergedValues(base, ours, theirs) ==
    [k \in Key |-> MergedValue(k, ValueIn(base, k), ValueIn(ours, k), ValueIn(theirs, k))]
HeaderClashes(base, ours, theirs) ==
    Cardinality({k \in Key \ {ColorKey} : Clash(ValueIn(base, k), ValueIn(ours, k), ValueIn(theirs, k))})
    + MergeColors(ValueIn(base, ColorKey), ValueIn(ours, ColorKey), ValueIn(theirs, ColorKey)).conflicts

\* The merged text and its conflicts, for three texts that parse.
MergeHeaders3Way(base, ours, theirs) ==
    LET values == MergedValues(base, ours, theirs)
        kept == Selected(MergedKeys(base, ours, theirs), {k \in Key : values[k] # Nil})
    IN  [text |-> TextOf(kept, values), conflicts |-> HeaderClashes(base, ours, theirs)]
===============================================================================
