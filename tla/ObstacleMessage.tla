--------------------------- MODULE ObstacleMessage ---------------------------
(* The files of the obstacles: the three message classes that protoc made of *)
(* dynamic_obstacle.proto (a Point, the State of one instant, the List of an *)
(* obstacle), what they write, what they read back, and what the restorer    *)
(* keeps of a file that was cut short.                                       *)
(*                                                                           *)
(* The three classes are the same code over different fields, so each has a  *)
(* table of its fields here and the methods are written once: "map" sends    *)
(* what a method does with scalars to Point, which has nothing else, what it *)
(* does with repeated fields to List, and the whole method to State.         *)
(*                                                                           *)
(* A message is its has bits, the values of its scalars by field number, its *)
(* repeated messages by field number, and the bytes it did not know.  Bounds *)
(* of the abstraction: a double takes DoubleSize bytes, and field numbers    *)
(* above 15, groups, 32 bit fields and negative int32 are left out.          *)
EXTENDS Integers, Sequences, FiniteSets, SequencesExt

DoubleSize == 2        \* 8 in the program
Garbage == -1          \* a value read past the end of the file
NoBit == -1

-----------------------------------------------------------------------------
(* The fields, in the order they are written: number, type, the tag that is  *)
(* accepted for it, and its has bit (a repeated field has none).             *)
Field(no, kind, tag, bit) == [no |-> no, kind |-> kind, tag |-> tag, bit |-> bit]

\* x, y, z
PointFields == <<Field(1, "double", 9, 0), Field(2, "double", 17, 1), Field(3, "double", 25, 2)>>

\* nsecs, robot_x, robot_y, robot_z; polygon; the relative velocity and
\* acceleration, x, y, z each; object_type; points
StateFields ==
  <<Field(1, "varint", 8, 0), Field(2, "double", 17, 1), Field(3, "double", 25, 2),
    Field(4, "double", 33, 3), Field(5, "Point", 42, NoBit), Field(6, "double", 49, 4),
    Field(7, "double", 57, 5), Field(8, "double", 65, 6), Field(9, "double", 73, 7),
    Field(10, "double", 81, 8), Field(11, "double", 89, 9), Field(12, "varint", 96, 10),
    Field(13, "Point", 106, NoBit)>>

\* id, x, y, yaw; dynamic_obstacle_state
ListFields ==
  <<Field(1, "varint", 8, 0), Field(2, "double", 17, 1), Field(3, "double", 25, 2),
    Field(4, "double", 33, 3), Field(5, "State", 42, NoBit)>>

Fields(type) == CASE type = "Point" -> PointFields [] type = "State" -> StateFields [] OTHER -> ListFields
Scalars(type) == {f \in ToSet(Fields(type)) : f.bit # NoBit}
Repeated(type) == {f \in ToSet(Fields(type)) : f.bit = NoBit}
BitOf(type, no) == (CHOOSE f \in Scalars(type) : f.no = no).bit

\* The bits that a message must have.
Required(type) == IF type = "Point" THEN 0..2 ELSE 0..3

\* The bits whose values are cleared, and merged, behind one common test.
TogetherOneShort(type) == CASE type = "Point" -> {0..2} [] type = "State" -> {0..7, 8..9} [] OTHER -> {0..3}
Together(type) == CASE type = "Point" -> {0..2} [] type = "State" -> {0..7, 8..10} [] OTHER -> {0..3}

New(type) ==
  [type |-> type, has |-> {}, val |-> [n \in {f.no : f \in Scalars(type)} |-> 0],
   rep |-> [n \in {f.no : f \in Repeated(type)} |-> <<>>], unknown |-> <<>>]

-----------------------------------------------------------------------------
(* The accessors: what one call of them may make of message m, with the      *)
(* values of V and the messages of E.                                        *)
Set(m, f, v) == [m EXCEPT !.has = @ \cup {f.bit}, !.val[f.no] = v]
Unset(m, f) == [m EXCEPT !.has = @ \ {f.bit}, !.val[f.no] = 0]
Add(m, f, e) == [m EXCEPT !.rep[f.no] = Append(@, e)]

Assigned(m, fields, V) == {Unset(m, f) : f \in fields} \cup {Set(m, f, v) : f \in fields, v \in V}
Extended(m, f, E) == {[m EXCEPT !.rep[f.no] = <<>>]} \cup {Add(m, f, e) : e \in E}

PointAccess(m, V) == Assigned(m, ToSet(PointFields), V)
PoseAccess(m, V) == Assigned(m, {StateFields[i] : i \in 1..4}, V)
PolygonAccess(m, E) == Extended(m, StateFields[5], E)
MotionAccess(m, V) == Assigned(m, {StateFields[i] : i \in 6..12}, V)
PointsAccess(m, E) == Extended(m, StateFields[13], E)
TrackAccess(m, V) == Assigned(m, {ListFields[i] : i \in 1..4}, V)
StatesAccess(m, E) == Extended(m, ListFields[5], E)

-----------------------------------------------------------------------------
ClearedScalars(m) ==
  [n \in DOMAIN m.val |->
     IF \E g \in Together(m.type) : BitOf(m.type, n) \in g /\ g \cap m.has # {} THEN 0 ELSE m.val[n]]

Clear(m) ==
  [m EXCEPT !.rep = [n \in DOMAIN @ |-> <<>>], !.val = ClearedScalars(m), !.has = {}, !.unknown = <<>>]

MergedScalars(m, from) ==
  LET hit == {g \in Together(m.type) : g \cap from.has # {}}
  IN [m EXCEPT !.val = [n \in DOMAIN @ |-> IF BitOf(m.type, n) \in from.has \cap UNION hit
                                           THEN from.val[n] ELSE @[n]],
               !.has = IF hit = {} THEN @ ELSE @ \cup from.has]

MergedRepeated(m, from) == [m EXCEPT !.rep = [n \in DOMAIN @ |-> @[n] \o from.rep[n]]]

MergeFrom(m, from) ==
  MergedScalars(MergedRepeated([m EXCEPT !.unknown = @ \o from.unknown], from), from)

CopyFrom(m, from) == MergeFrom(Clear(m), from)

MissingRequiredFields(m) == ~ Required(m.type) \subseteq m.has

RECURSIVE IsInitialized(_)
IsInitialized(m) ==
  /\ ~ MissingRequiredFields(m)
  /\ \A n \in DOMAIN m.rep : \A i \in DOMAIN m.rep[n] : IsInitialized(m.rep[n][i])

-----------------------------------------------------------------------------
(* Writing.  The library writes the tag from the field's number and its wire *)
(* type, a varint seven bits at a time, and the size of a nested message     *)
(* from what ByteSizeLong left in it.                                        *)
RECURSIVE Varint(_)
Varint(v) == IF v < 128 THEN <<v>> ELSE <<128 + (v % 128)>> \o Varint(v \div 128)
Double(v) == [i \in 1..DoubleSize |-> (v \div 256 ^ (i - 1)) % 256]
WireTag(f) == 8 * f.no + (CASE f.kind = "varint" -> 0 [] f.kind = "double" -> 1 [] OTHER -> 2)

ScalarSize(m, f) ==
  IF f.bit \notin m.has THEN 0
  ELSE 1 + (IF f.kind = "double" THEN DoubleSize ELSE Len(Varint(m.val[f.no])))

SumOver(s, Op(_)) == FoldLeft(LAMBDA a, e : a + Op(e), 0, s)

RECURSIVE ByteSizeLong(_)
RepeatedSize(m, f) ==
  SumOver(m.rep[f.no], LAMBDA e : 1 + Len(Varint(ByteSizeLong(e))) + ByteSizeLong(e))
ByteSizeLong(m) ==
  SumOver(Fields(m.type), LAMBDA f : IF f.bit # NoBit THEN ScalarSize(m, f) ELSE RepeatedSize(m, f))
    + Len(m.unknown)

WrittenScalar(m, f) ==
  IF f.bit \notin m.has THEN <<>>
  ELSE <<WireTag(f)>> \o (IF f.kind = "double" THEN Double(m.val[f.no]) ELSE Varint(m.val[f.no]))

RECURSIVE Serialize(_)
WrittenRepeated(m, f) ==
  FlattenSeq([i \in DOMAIN m.rep[f.no] |->
    LET e == m.rep[f.no][i] IN <<WireTag(f)>> \o Varint(ByteSizeLong(e)) \o Serialize(e)])
Serialize(m) ==
  LET F == Fields(m.type)
  IN FlattenSeq([i \in DOMAIN F |-> IF F[i].bit # NoBit THEN WrittenScalar(m, F[i]) ELSE WrittenRepeated(m, F[i])])
       \o m.unknown

-----------------------------------------------------------------------------
(* Reading bytes b into message m.  A step returns the message, the bytes    *)
(* left and whether to go on: a value or a message that ends past the end of *)
(* the file has been set or added when the parse fails.                      *)
Drop(b, n) == SubSeq(b, n + 1, Len(b))
VarintLength(b) ==
  IF \A i \in DOMAIN b : b[i] >= 128 THEN Len(b) + 1
  ELSE CHOOSE i \in DOMAIN b : b[i] < 128 /\ \A j \in 1..(i - 1) : b[j] >= 128
VarintValue(b) == FoldRight(LAMBDA byte, high : (byte % 128) + 128 * high, SubSeq(b, 1, VarintLength(b)), 0)
DoubleValue(b) == FoldRight(LAMBDA byte, high : byte + 256 * high, SubSeq(b, 1, DoubleSize), 0)

ReadScalar(m, f, b) ==
  LET n == IF f.kind = "double" THEN DoubleSize ELSE VarintLength(b)
  IN IF n > Len(b) THEN [m |-> Set(m, f, Garbage), rest |-> <<>>, ok |-> FALSE]
     ELSE [m |-> Set(m, f, IF f.kind = "double" THEN DoubleValue(b) ELSE VarintValue(b)),
           rest |-> Drop(b, n), ok |-> TRUE]

RECURSIVE Parse(_, _)
ReadMessage(m, f, b) ==
  LET n == VarintLength(b) IN
  IF n > Len(b) THEN [m |-> Add(m, f, New(f.kind)), rest |-> <<>>, ok |-> FALSE]
  ELSE LET body == Drop(b, n)
           size == VarintValue(b)
           r == Parse(New(f.kind), IF size < Len(body) THEN SubSeq(body, 1, size) ELSE body)
       IN [m |-> Add(m, f, r.m), rest |-> Drop(body, size), ok |-> r.ok /\ size <= Len(body)]

ReadUnknown(m, tag, b) ==
  LET n == CASE tag % 8 = 0 -> VarintLength(b)
             [] tag % 8 = 1 -> DoubleSize
             [] tag % 8 = 2 /\ VarintLength(b) <= Len(b) -> VarintLength(b) + VarintValue(b)
             [] OTHER -> Len(b) + 1
  IN IF n > Len(b) THEN [m |-> m, rest |-> <<>>, ok |-> FALSE]
     ELSE [m |-> [m EXCEPT !.unknown = @ \o <<tag>> \o SubSeq(b, 1, n)], rest |-> Drop(b, n), ok |-> TRUE]

Parse(m, b) ==
  IF b = <<>> THEN [m |-> m, ok |-> TRUE]
  ELSE LET known == {f \in ToSet(Fields(m.type)) : f.tag = b[1]}
           f == CHOOSE g \in known : TRUE
           read == CASE known = {} /\ (b[1] = 0 \/ b[1] % 8 = 4) -> [m |-> m, rest |-> <<>>, ok |-> FALSE]
                     [] known = {} -> ReadUnknown(m, b[1], Tail(b))
                     [] f.bit # NoBit -> ReadScalar(m, f, Tail(b))
                     [] OTHER -> ReadMessage(m, f, Tail(b))
       IN IF read.ok THEN Parse(read.m, read.rest) ELSE [m |-> read.m, ok |-> FALSE]

ParseFromIstream(b) ==
  LET r == Parse(New("List"), b) IN [m |-> r.m, ok |-> r.ok /\ IsInitialized(r.m)]

\* The loader logs a file that did not parse, and keeps what was read of it.
Kept(read) == read.m

-----------------------------------------------------------------------------
(* What the restorer and its tools rely on.                                  *)
\* A message reads back as it was written, in the size that was announced.
ReadsBack(m) ==
  /\ ByteSizeLong(m) = Len(Serialize(m))
  /\ Parse(New(m.type), Serialize(m)) = [m |-> m, ok |-> TRUE]

\* Reading on into a message is a merge, and what a message held before it is
\* cleared or copied to does not show.
ReadsAsMerge(m, from) ==
  /\ Parse(m, Serialize(from)) = [m |-> MergeFrom(m, from), ok |-> TRUE]
  /\ CopyFrom(m, from) = from
  /\ Clear(m) = New(m.type)

\* Fields of a later version, or of another type, are kept and written again,
\* and change nothing else: before the fields of a list, after those of a state.
ReadsNewer(m, extra) ==
  LET Newer(e) == [e EXCEPT !.unknown = extra]
      newer == Newer([m EXCEPT !.rep[5] = [i \in DOMAIN @ |-> Newer(@[i])]])
      r == Parse(New(m.type), extra \o Serialize(m))
      s == Parse(New(m.type), Serialize(newer))
  IN /\ r = [m |-> Newer(m), ok |-> TRUE]
     /\ s = [m |-> newer, ok |-> TRUE]

\* A state that was read in part: values as written, but at most one.
HalfRead(half, written) ==
  LET wrong == {f \in DOMAIN half.val : half.val[f] \notin {0, written.val[f]}}
  IN /\ half.has \subseteq written.has
     /\ Cardinality(wrong) <= 1 /\ \A f \in wrong : half.val[f] = Garbage
     /\ \A f \in DOMAIN half.rep : Len(half.rep[f]) <= Len(written.rep[f])

\* The states kept of n bytes of a list; ends are the sizes of the list with
\* its first states, none to all.
KeepsStates(was, kept, n, ends) ==
  LET whole == Cardinality({e \in ends : e <= n}) - 1
  IN IF whole = -1 THEN kept = <<>>
     ELSE /\ SubSeq(kept, 1, whole) = SubSeq(was, 1, whole)
          /\ Len(kept) = IF n \in ends THEN whole ELSE whole + 1
          /\ n \notin ends => HalfRead(Last(kept), was[whole + 1])

KeepsOf(m, n, read, ends) ==
  /\ read.ok <=> n \in ends
  /\ KeepsStates(m.rep[5], Kept(read).rep[5], n, ends)
  /\ Kept(read).val[1] = IF n = 0 THEN 0 ELSE IF n <= Len(Varint(m.val[1])) THEN Garbage ELSE m.val[1]
  /\ Clear(Kept(read)) = New("List")

\* Of a file cut after n bytes the loader keeps the first states whole, then
\* at most one that is half read and whose values are those written, except
\* one that may be anything; the id is wrong only when the cut is inside it,
\* and the list may be used again.  Nothing is reported when the cut is
\* between two states: the obstacle has a shorter track.
\* (src/obstacle_restorer.cpp:95-101 keeps the message either way.)
KeepsPrefix(m, n) ==
  KeepsOf(m, n, ParseFromIstream(SubSeq(Serialize(m), 1, n)),
          {ByteSizeLong([m EXCEPT !.rep[5] = SubSeq(@, 1, i)]) : i \in 0..Len(m.rep[5])})
=============================================================================
