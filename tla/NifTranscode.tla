---------------------------- MODULE NifTranscode ----------------------------
(***************************************************************************)
(* Calls of NIFs that take and return values: one behaviour encodes a value, *)
(* or is given an arbitrary term, and decodes it.  The codecs of types with  *)
(* components are made of those of their components, on three levels.        *)
(***************************************************************************)
EXTENDS NifTerms

CONSTANT MaxList   \* bound on the elements of lists that are encoded

ASSUME NifTranscodeAssumption == MaxList \in Nat

VARIABLES
  stage,   \* "start", "sent" or "received"
  type,    \* the type to decode
  value,   \* the value that was encoded, or none
  wire,    \* the term
  got      \* what decode returned

termVars == <<stage, type, value, wire, got>>

-----------------------------------------------------------------------------
NoEnc(y, v) == NilAtom
NoDec(y, t) == BadArg
NoVals(y) == {}
Never(y, x) == FALSE

\* The codecs of types without components, of types with such components, and of
\* types with components that have components.
Leaf  == INSTANCE NifCodec WITH
           Enc <- NoEnc, Dec <- NoDec, Vals <- NoVals, Loses <- Never, Blurs <- Never
Codec == INSTANCE NifCodec WITH
           Enc <- Leaf!Encode, Dec <- Leaf!Decode, Vals <- Leaf!ValuesOf,
           Loses <- Leaf!Lossy, Blurs <- Leaf!Ambiguous
Nested == INSTANCE NifCodec WITH
           Enc <- Codec!Encode, Dec <- Codec!Decode, Vals <- Codec!ValuesOf,
           Loses <- Codec!Lossy, Blurs <- Codec!Ambiguous

-----------------------------------------------------------------------------
(* Inputs: the types and arbitrary terms *)

WideT  == <<"wide">>
ByteT  == <<"byte">>
BoolT  == <<"bool">>
StrT   == <<"str">>
NameT  == <<"name">>
OptionT(y) == <<"option", y>>
VecT(y) == <<"vec", y>>
ResultT(y, e) == <<"result", y, e>>
TagAtom == Atom(<<"ascii">>)
WideAtom == Atom(<<"wide">>)  \* made by Erlang, not by this library
FieldA == Atom(<<"latin">>)
FieldB == Atom(<<"latin", "ascii">>)
TwoFields(y, z) == [k \in {FieldA, FieldB} |-> IF k = FieldA THEN y ELSE z]

LeafTypes == {WideT, ByteT, BoolT, StrT, NameT, Leaf!NifUnitEnum({TagAtom, NilAtom})}

FlatTypes ==
  {OptionT(WideT), OptionT(BoolT), VecT(ByteT), ResultT(WideT, StrT),
   Codec!NifTuple(<<WideT, StrT>>), Codec!NifRecord(TagAtom, <<WideT>>),
   Codec!NifMap(TwoFields(ByteT, BoolT)), Codec!NifStruct(TagAtom, [k \in {FieldA} |-> ByteT]),
   Codec!NifUntaggedEnum(<<ByteT, WideT, StrT>>)}

NestedTypes ==
  {OptionT(VecT(ByteT)), VecT(OptionT(WideT)), Nested!NifTuple(<<OptionT(BoolT), StrT>>)}

CodecTypes == LeafTypes \cup FlatTypes \cup NestedTypes

Leaves == {Num(n) : n \in -1..Wide} \cup {Bin("utf8"), Bin("raw"), EmptyList,
            TagAtom, WideAtom, NilAtom, True, False, OkAtom, ErrAtom}

Terms ==
  Leaves \cup {List(<<h>>, e) : h \in Leaves, e \in {End, TagAtom}}
         \cup {List(<<h, Num(0)>>, e) : h \in Leaves, e \in {End, TagAtom}}
         \cup {Tuple(<<h>>) : h \in Leaves} \cup {Tuple(<<h, t>>) : h, t \in Leaves}
         \cup {Tuple(<<TagAtom, Num(0), h>>) : h \in Leaves}
         \cup {Map([k \in ks \cup {FieldA} |-> IF k = FieldA THEN t ELSE h]) :
                 ks \in SUBSET {StructKey, FieldB}, h \in {TagAtom, NilAtom, Num(0)}, t \in Leaves}

-----------------------------------------------------------------------------
TermInit ==
  /\ stage = "start" /\ type = WideT
  /\ value = None /\ wire = EmptyList /\ got = BadArg

\* A NIF encodes a value; an atom's name that cannot be made is a panic.
Send ==
  /\ stage = "start"
  /\ \E y \in CodecTypes : \E v \in Nested!ValuesOf(y) :
       /\ type' = y /\ value' = Some(v)
       /\ IF y = NameT /\ ~IsOk(FromStr(v[2]))
          THEN got' = Panics /\ stage' = "received" /\ UNCHANGED wire
          ELSE wire' = Nested!Encode(y, v) /\ stage' = "sent" /\ UNCHANGED got

\* A NIF is called with any term.
Given ==
  /\ stage = "start"
  /\ type' \in CodecTypes /\ wire' \in Terms
  /\ stage' = "sent"
  /\ UNCHANGED <<value, got>>

Receive ==
  /\ stage = "sent"
  /\ got' = Nested!Decode(type, wire)
  /\ stage' = "received"
  /\ UNCHANGED <<type, value, wire>>

TermNext == Send \/ Given \/ Receive

TermSpec == TermInit /\ [][TermNext]_termVars

-----------------------------------------------------------------------------
(* Properties *)

\* A value that is encoded is decoded to itself, but for ambiguous values; names
\* are refused exactly when no atom has them.
RoundTrip ==
  stage = "received" /\ value # None =>
    LET v == value[2] IN
    \/ got = Ok(v)
    \/ Nested!Ambiguous(type, v)
    \/ got = Panics /\ Nested!NoAtom(type, v)

\* Where a term, or a part of it, is a list that does not end in [].
Improper(t) == t[1] = "list" /\ t[3] # End

\* What decode accepts is the term that its result is encoded to: no element,
\* field or digit is passed over but where Lossy says so.  Only an improper list
\* makes decode panic.
DecodeIsExact ==
  stage = "received" =>
    /\ IsOk(got) => Nested!Encode(type, got[2]) = wire \/ Nested!Lossy(type, wire)
    /\ got = Panics /\ value = None =>
         \/ type[1] = "vec" /\ Improper(wire)
         \/ \E p \in Nested!Parts(type, wire) : p[1][1] = "vec" /\ Improper(p[2])
=============================================================================
